------------------------- MODULE ModuleManagerProofs -------------------------
(***************************************************************************)
(* The module manager, for all acyclic dependencies of any set of modules, *)
(* whichever of them are reloaded and whatever addresses objects get.      *)
(*                                                                         *)
(* An unload goes after the users that the graph has of a module, and a    *)
(* load is right only if the graph it adds to is, so the argument keeps    *)
(* both at every step of the recursion: of the graph no arc is wrong, also *)
(* none of the modules long gone, unless an address was recycled; and none *)
(* is missing between loaded ones, unless a reload may have replaced the   *)
(* one it comes from.  What an unload misses is only what such a graph     *)
(* does not say.                                                           *)
(***************************************************************************)
EXTENDS ModuleManager, SequenceTheorems, TLAPS

Arcs == [from : Addrs, to : Addrs, id : {Null}]
Graphs == [froms : SUBSET Addrs, out : SUBSET Arcs, tos : SUBSET Addrs, in : SUBSET Arcs]
Frames == [op : {"load", "reload", "unload"}, name : Names, obj : Addrs,
           todo : SUBSET (Names \cup Addrs)]
Entries == [obj : Addrs, name : Names]
Ops == {"none", "load", "unload", "destroy", "update", "broken", "endless"}
Calls == [op : Ops, arg : Names \cup {Null}, walk : SUBSET Names, done : Nat]

Types ==
    /\ deps \in Shapes
    /\ name_of \in [Addrs -> Names \cup {Null}]
    /\ life \in [Addrs -> {"free", "made", "live", "quiet"}]
    /\ recycled \subseteq Addrs
    /\ modules_map \in [Names -> Addrs \cup {Null}]
    /\ roots \subseteq Names /\ hotfixs \subseteq hotfix_contexts /\ hotfix_contexts \subseteq Hotfixes
    /\ destruction \in Seq(Entries) /\ stack \in Seq(Frames) /\ call \in Calls

\* A copy's version is one that no library still mapped was copied to.
VersionsInv ==
    /\ version \in [Names -> Nat] /\ next_version \in [Names -> Nat] /\ file \in [Names -> Int]
    /\ \A n \in Names : next_version[n] = version[n] + 1 /\ file[n] < version[n]

\* The two maps of the graph hold the same arcs, between nodes with entries.
GraphShape(g) ==
    /\ g \in Graphs /\ g.in = g.out
    /\ \A e \in g.out : e.from \in g.froms /\ e.to \in g.tos

Edge(x, y) == Arc(x, y, Null) \in graph.out
Right(x, y) == name_of[x] \in deps[name_of[y]] \/ x \in recycled \/ y \in recycled

\* No arc is wrong but at a recycled address, those of modules long gone included; those
\* between loaded modules are all there, and what is loaded has its dependencies, but
\* for those that a reload may have replaced.
GraphInv ==
    /\ GraphShape(graph)
    /\ \A e \in graph.out : name_of[e.to] \in Names /\ Right(e.from, e.to)
    /\ \A n \in Names : Loaded(n) => \A d \in deps[n] : Loaded(d) \/ d \in hotfix_contexts
    /\ \A x, y \in Names : Loaded(x) /\ Loaded(y) /\ x \in deps[y] /\ x \notin hotfix_contexts =>
            Edge(modules_map[x], modules_map[y])

\* What is alive: the loaded modules, but not the old object of a reload, and what waits
\* for its destruction; and the objects that are being loaded are made.
Reloaded == {stack[k].name : k \in {j \in DOMAIN stack : stack[j].op = "reload"}}
Pending == IF Unloading THEN {destruction[k].obj : k \in call.done + 1 .. Len(destruction)} ELSE {}
Up(x) == life[x] \in {"live", "quiet"}
LifeInv ==
    call.op \notin {"broken", "endless"} =>
        /\ \A x \in Addrs :
             /\ Up(x) <=> x \in Pending \/ \E n \in Names \ Reloaded : modules_map[n] = x
             /\ life[x] = "made" <=> \E k \in DOMAIN stack : stack[k].op # "unload" /\ stack[k].obj = x
        /\ \A n \in Names \ Reloaded : Loaded(n) => name_of[modules_map[n]] = n

Apart == \A j, k \in DOMAIN stack : stack[j].name = stack[k].name => j = k

\* The activations of a load, each for a dependency of the one below; those of a reload
\* stand on the module that is reloaded.
LoadFrames ==
    /\ Apart
    /\ \A k \in DOMAIN stack :
         LET f == stack[k]
         IN  /\ f.op = IF k = 1 /\ call.op = "update" THEN "reload" ELSE "load"
             /\ f.op = "load" => ~Loaded(f.name)
             /\ f.op = "reload" => Loaded(f.name) /\ f.name \in hotfix_contexts
             /\ name_of[f.obj] = f.name
             /\ f.todo \subseteq deps[f.name]
             /\ \A d \in deps[f.name] \ f.todo : Loaded(d) /\ Edge(modules_map[d], f.obj)
             /\ k > 1 => f.name \in stack[k - 1].todo

\* Those of an unload, each for a user of the one below: the loaded users that an
\* activation has not come to yet are in its todo.
UnloadFrames ==
    /\ Apart
    /\ \A k \in DOMAIN stack :
         LET f == stack[k]
         IN  /\ f.op = "unload" /\ Loaded(f.name) /\ f.obj = modules_map[f.name]
             /\ \A x \in f.todo : Edge(f.obj, x)
             /\ \A u \in Names : Loaded(u) /\ f.name \in deps[u] /\ f.name \notin hotfix_contexts =>
                    modules_map[u] \in f.todo \/ (k < Len(stack) /\ stack[k + 1].name = u)
             /\ k > 1 => Needed(k)
    /\ call.op = "unload" /\ stack # <<>> => stack[1].name = call.arg

\* What waits for its destruction is in no map, and its users are before it.
DestructionInv ==
    /\ call.done <= Len(destruction)
    /\ stack # <<>> \/ call.walk # {} => call.done = 0
    /\ \A k \in 1 .. Len(destruction) :
         LET m == destruction[k]
         IN  /\ name_of[m.obj] = m.name /\ ~Loaded(m.name)
             /\ \A j \in 1 .. k - 1 :
                  /\ destruction[j].name # m.name
                  /\ destruction[j].name \notin deps[m.name] \ hotfix_contexts

\* An unload that came round in a circle, and stays there.
EndlessFrames ==
    /\ \A k \in DOMAIN stack : stack[k].op = "unload" /\ (k > 1 => Needed(k))
    /\ \A n \in Names : Loaded(n) => Up(modules_map[n]) /\ name_of[modules_map[n]] = n
    /\ recycled # {}

StackInv ==
    /\ call.op \in {"none", "broken"} => stack = <<>>
    /\ call.op = "load" => stack # <<>>
    /\ call.op \in {"load", "update"} => LoadFrames
    /\ Unloading => UnloadFrames /\ DestructionInv
    /\ call.op = "endless" => EndlessFrames

IsRoot(n) == Loaded(n) /\ deps[n] = {}
Entered(n) == \E k \in DOMAIN stack : stack[k].name = n

RootsInv ==
    /\ call.op \in {"none", "load", "update"} =>
          /\ \A n \in Names : (Loaded(n) \/ Entered(n)) /\ deps[n] = {} => n \in roots
          /\ recycled = {} => \A n \in roots : (Loaded(n) \/ Entered(n)) /\ deps[n] = {}
    /\ call.op = "unload" =>
          /\ call.walk \subseteq {call.arg}
          /\ \A n \in Names : n # call.arg /\ IsRoot(n) => n \in roots
          /\ recycled = {} => \A n \in roots : n # call.arg => IsRoot(n)
          /\ \A n \in Names : n = call.arg /\ Loaded(n) => n \in call.walk \/ stack # <<>>
    /\ call.op = "destroy" =>
          \A n \in Names : IsRoot(n) => n \in call.walk \/ (stack # <<>> /\ stack[1].name = n)

HotfixInv ==
    /\ call.op \notin {"broken", "endless"} => \A n \in hotfixs :
          Loaded(n) \/ Entered(n)
          \/ (Unloading /\ \E k \in call.done + 1 .. Len(destruction) : destruction[k].name = n)
    /\ call.op = "update" => call.walk \subseteq hotfixs

MInv == Types /\ VersionsInv /\ GraphInv /\ LifeInv /\ StackInv /\ RootsInv /\ HotfixInv

-----------------------------------------------------------------------------
(* Types, stacks and arcs.                                                 *)

\* The types of the parts.
LEMMA Typed ==
    ASSUME Types
    PROVE  /\ deps \in [Names -> SUBSET Names]
           /\ Len(stack) \in Nat /\ DOMAIN stack = 1 .. Len(stack)
           /\ stack # <<>> <=> Len(stack) >= 1
           /\ \A k \in 1 .. Len(stack) :
                 /\ stack[k] \in Frames /\ stack[k].name \in Names /\ stack[k].obj \in Addrs
                 /\ stack[k].op \in {"load", "reload", "unload"}
           /\ Len(destruction) \in Nat /\ DOMAIN destruction = 1 .. Len(destruction)
           /\ \A k \in 1 .. Len(destruction) :
                 destruction[k] \in Entries /\ destruction[k].name \in Names /\ destruction[k].obj \in Addrs
           /\ call.op \in Ops
           /\ call.arg \in Names \cup {Null} /\ call.walk \subseteq Names /\ call.done \in Nat
           /\ \A n \in Names : Loaded(n) => modules_map[n] \in Addrs
<1>1. deps \in [Names -> SUBSET Names]
  BY NamesAssumption DEF Types
<1>2. stack \in Seq(Frames) /\ destruction \in Seq(Entries) /\ call \in Calls
      /\ modules_map \in [Names -> Addrs \cup {Null}]
  BY DEF Types
<1>3. \A k \in 1 .. Len(stack) : stack[k] \in Frames
  BY <1>2
<1>4. \A k \in 1 .. Len(destruction) : destruction[k] \in Entries
  BY <1>2
<1>5. \A f \in Frames : /\ f.name \in Names /\ f.obj \in Addrs
                        /\ f.op \in {"load", "reload", "unload"}
  BY DEF Frames
<1>6. \A m \in Entries : m.name \in Names /\ m.obj \in Addrs
  BY DEF Entries
<1>7. /\ Len(stack) \in Nat /\ DOMAIN stack = 1 .. Len(stack)
      /\ stack # <<>> <=> Len(stack) >= 1
      /\ Len(destruction) \in Nat /\ DOMAIN destruction = 1 .. Len(destruction)
  BY <1>2
<1>8. /\ call.op \in Ops
      /\ call.arg \in Names \cup {Null} /\ call.walk \subseteq Names /\ call.done \in Nat
  BY <1>2 DEF Calls
<1>9. \A n \in Names : Loaded(n) => modules_map[n] \in Addrs
  BY <1>2 DEF Loaded
<1> QED
  BY <1>1, <1>3, <1>4, <1>5, <1>6, <1>7, <1>8, <1>9

\* The top of a stack, and what is below it.
LEMMA TopAndBelow ==
    ASSUME NEW S, NEW s \in Seq(S), s # <<>>
    PROVE  /\ Len(s) \in Nat /\ Len(s) >= 1
           /\ Last(s) = s[Len(s)] /\ Last(s) \in S /\ Head(s) = s[1]
           /\ Front(s) \in Seq(S) /\ Len(Front(s)) = Len(s) - 1
           /\ \A k \in 1 .. Len(s) - 1 : Front(s)[k] = s[k]
<1>1. Len(s) \in Nat /\ Len(s) >= 1
  OBVIOUS
<1>2. /\ SubSeq(s, 1, Len(s) - 1) \in Seq(S) /\ Len(SubSeq(s, 1, Len(s) - 1)) = Len(s) - 1
      /\ \A k \in 1 .. Len(s) - 1 : SubSeq(s, 1, Len(s) - 1)[k] = s[k]
  <2> DEFINE m == Len(s) - 1
             t == SubSeq(s, 1, m)
  <2>1. m \in Nat /\ \A k \in 1 .. m : s[k] \in S /\ 1 + k - 1 = k
    BY <1>1
  <2> HIDE DEF m
  <2>2. (IF 1 <= m THEN m - 1 + 1 ELSE 0) = m /\ \A k \in 1 .. m : k \in 1 .. m - 1 + 1
    BY <2>1
  <2>3. /\ t \in Seq(S) /\ Len(t) = m
        /\ \A k \in 1 .. m : t[k] = s[1 + k - 1]
    BY <2>1, <2>2, SubSeqProperties
  <2> QED
    BY <2>1, <2>3 DEF m
<1> QED
  BY <1>1, <1>2 DEF Last, Front

\* A push, and a change of the top.
LEMMA Pushed ==
    ASSUME NEW S, NEW s \in Seq(S), NEW f \in S
    PROVE  /\ Append(s, f) \in Seq(S) /\ Append(s, f) # <<>> /\ Len(Append(s, f)) = Len(s) + 1
           /\ \A k \in 1 .. Len(s) : Append(s, f)[k] = s[k]
           /\ Append(s, f)[Len(s) + 1] = f /\ Last(Append(s, f)) = f
<1>1. /\ Append(s, f) \in Seq(S) /\ Append(s, f) # <<>> /\ Len(Append(s, f)) = Len(s) + 1
      /\ \A k \in 1 .. Len(s) : Append(s, f)[k] = s[k]
      /\ Append(s, f)[Len(s) + 1] = f
  BY AppendProperties
<1> QED
  BY <1>1 DEF Last

\* As above: a stack whose top became f.
LEMMA TopChanged ==
    ASSUME NEW S, NEW s \in Seq(S), s # <<>>, NEW f \in S
    PROVE  LET t == Append(Front(s), f)
           IN  /\ t \in Seq(S) /\ t # <<>> /\ Len(t) = Len(s) /\ Last(t) = f
               /\ \A k \in 1 .. Len(s) - 1 : t[k] = s[k]
               /\ t[Len(s)] = f
<1>1. /\ Front(s) \in Seq(S) /\ Len(Front(s)) = Len(s) - 1 /\ Len(s) \in Nat /\ Len(s) >= 1
      /\ \A k \in 1 .. Len(s) - 1 : Front(s)[k] = s[k]
  BY TopAndBelow
<1> DEFINE t == Append(Front(s), f)
<1>2. /\ t \in Seq(S) /\ t # <<>> /\ Len(t) = (Len(s) - 1) + 1 /\ Last(t) = f
      /\ \A k \in 1 .. Len(s) - 1 : t[k] = Front(s)[k]
      /\ t[(Len(s) - 1) + 1] = f
  BY <1>1, Pushed
<1>3. (Len(s) - 1) + 1 = Len(s)
  BY <1>1
<1> QED
  BY <1>1, <1>2, <1>3

\* An arc is added once, to both maps.
LEMMA ArcAdded ==
    ASSUME NEW g, GraphShape(g), NEW x \in Addrs, NEW y \in Addrs
    PROVE  LET h == AddEdge(g, x, y, Null)
           IN  GraphShape(h) /\ h.out = g.out \cup {Arc(x, y, Null)}
<1> DEFINE h == AddEdge(g, x, y, Null)
<1>1. \A e \in Arcs : e.from = x /\ e.to = y => e = Arc(x, y, Null)
  BY DEF Arcs, Arc
<1>2. g.out \subseteq Arcs /\ g.in = g.out /\ g.froms \subseteq Addrs /\ g.tos \subseteq Addrs
      /\ \A e \in g.out : e.from \in g.froms /\ e.to \in g.tos
  BY DEF GraphShape, Graphs
<1>3. Emplace(g.out, x, y, Null) = g.out \cup {Arc(x, y, Null)}
  <2>1. CASE Between(g.out, x, y) = {}
    BY <2>1 DEF Emplace
  <2>2. CASE Between(g.out, x, y) # {}
    <3>1. PICK e \in g.out : e.from = x /\ e.to = y
      BY <2>2 DEF Between
    <3>2. Arc(x, y, Null) \in g.out
      BY <1>1, <1>2, <3>1
    <3> QED
      BY <2>2, <3>2 DEF Emplace
  <2> QED
    BY <2>1, <2>2
<1>4. h.out = g.out \cup {Arc(x, y, Null)} /\ h.in = h.out
      /\ h.froms = g.froms \cup {x} /\ h.tos = g.tos \cup {y}
      /\ h = [froms |-> h.froms, out |-> h.out, tos |-> h.tos, in |-> h.in]
  BY <1>2, <1>3 DEF AddEdge
<1>5. Arc(x, y, Null) \in Arcs /\ Arc(x, y, Null).from = x /\ Arc(x, y, Null).to = y
  BY DEF Arc, Arcs
<1> HIDE DEF h
<1>6. h \in Graphs
  <2>1. h.froms \in SUBSET Addrs /\ h.tos \in SUBSET Addrs /\ h.out \in SUBSET Arcs
        /\ h.in \in SUBSET Arcs
    BY <1>2, <1>4, <1>5
  <2> QED
    BY <1>4, <2>1 DEF Graphs
<1>7. \A e \in h.out : e.from \in h.froms /\ e.to \in h.tos
  BY <1>2, <1>4, <1>5
<1>8. GraphShape(h)
  BY <1>4, <1>6, <1>7 DEF GraphShape
<1> QED
  BY <1>4, <1>8 DEF h

\* remove_vertex takes arcs of the node and no others, from both maps.
LEMMA VertexRemoved ==
    ASSUME NEW g, GraphShape(g), NEW n \in Addrs
    PROVE  LET h == RemoveVertex(g, n)
           IN  /\ GraphShape(h) /\ h.out \subseteq g.out
               /\ \A e \in g.out : e.from # n /\ e.to # n => e \in h.out
<1>1. g.out \subseteq Arcs /\ g.in = g.out /\ g.froms \subseteq Addrs /\ g.tos \subseteq Addrs
      /\ \A e \in g.out : e.from \in g.froms /\ e.to \in g.tos
  BY DEF GraphShape, Graphs
<1>2. CASE n \notin g.froms
  BY <1>2 DEF RemoveVertex
<1>3. CASE n \in g.froms
  <2> DEFINE o == DropOut(g, n)
             i == DropIn(o, n)
  <2>1. /\ o \in Graphs
        /\ o.froms = g.froms \ {n} /\ o.tos = g.tos
        /\ o.out = {e \in g.out : e.from # n}
        /\ o.in = {e \in g.in : ~(e.from = n /\ Between(g.out, n, e.to) # {})}
    <3> DEFINE F == g.froms \ {n}
               O == {e \in g.out : e.from # n}
               I == {e \in g.in : ~(e.from = n /\ Between(g.out, n, e.to) # {})}
    <3>1. o = [g EXCEPT !.froms = F, !.out = O, !.in = I]
      BY DEF DropOut
    <3>2. F \subseteq Addrs /\ O \subseteq Arcs /\ I \subseteq Arcs /\ g \in Graphs
      BY <1>1 DEF GraphShape
    <3> HIDE DEF F, O, I, o
    <3>3. o \in Graphs /\ o.froms = F /\ o.tos = g.tos /\ o.out = O /\ o.in = I
      BY <3>1, <3>2 DEF Graphs
    <3> QED
      BY <3>3 DEF F, O, I
  <2>2. o.in = o.out
    <3>1. \A e \in g.out : e.from = n => e \in Between(g.out, n, e.to)
      BY DEF Between
    <3> QED
      BY <1>1, <2>1, <3>1
  <2>3. GraphShape(o)
    <3>1. \A e \in o.out : e.from \in o.froms /\ e.to \in o.tos
      BY <1>1, <2>1
    <3> QED
      BY <2>1, <2>2, <3>1 DEF GraphShape
  <2> HIDE DEF o
  <2>4. /\ i \in Graphs
        /\ i.froms = o.froms \cup {e.from : e \in {d \in o.in : d.to = n}} /\ i.tos = o.tos \ {n}
        /\ i.out = {e \in o.out : ~(e.to = n /\ Between(o.in, e.from, n) # {})}
        /\ i.in = {e \in o.in : e.to # n}
    <3> DEFINE F == o.froms \cup {e.from : e \in {d \in o.in : d.to = n}}
               O == {e \in o.out : ~(e.to = n /\ Between(o.in, e.from, n) # {})}
               T == o.tos \ {n}
               I == {e \in o.in : e.to # n}
    <3>1. i = [o EXCEPT !.froms = F, !.out = O, !.tos = T, !.in = I]
      BY DEF DropIn
    <3>2. o \in Graphs /\ o.froms \subseteq Addrs /\ o.tos \subseteq Addrs /\ o.out \subseteq Arcs
      BY <2>1 DEF Graphs
    <3>3. F \subseteq Addrs /\ T \subseteq Addrs /\ O \subseteq Arcs /\ I \subseteq Arcs
      BY <2>2, <3>2 DEF Arcs
    <3> HIDE DEF F, O, T, I, i
    <3>4. i \in Graphs /\ i.froms = F /\ i.tos = T /\ i.out = O /\ i.in = I
      BY <3>1, <3>2, <3>3 DEF Graphs
    <3> QED
      BY <3>4 DEF F, O, T, I
  <2>5. i.out = i.in
    <3>1. \A e \in o.in : e.to = n => e \in Between(o.in, e.from, n)
      BY DEF Between
    <3> QED
      BY <2>2, <2>4, <3>1
  <2>6. o.froms \subseteq Addrs /\ o.tos \subseteq Addrs /\ o.out \subseteq Arcs
        /\ \A e \in o.out : e.from \in o.froms /\ e.to \in o.tos
    BY <1>1, <2>1
  <2>7. GraphShape(i)
    <3>1. \A e \in i.out : e.from \in i.froms /\ e.to \in i.tos
      BY <2>4, <2>5, <2>6
    <3> QED
      BY <2>4, <2>5, <3>1 DEF GraphShape
  <2>8. i.out \subseteq g.out /\ \A e \in g.out : e.from # n /\ e.to # n => e \in i.out
    BY <2>1, <2>4
  <2>9. o.out \subseteq g.out /\ \A e \in g.out : e.from # n /\ e.to # n => e \in o.out
    BY <2>1
  <2>10. RemoveVertex(g, n) \in {o, i}
    BY <1>3 DEF RemoveVertex, o
  <2> QED
    BY <2>3, <2>7, <2>8, <2>9, <2>10
<1> QED
  BY <1>2, <1>3

\* The users that foreach_neighbors yields.
LEMMA NeighborsAreEdges ==
    ASSUME GraphShape(graph), NEW x, NEW y
    PROVE  /\ y \in Neighbors(graph, x) <=> Edge(x, y)
           /\ y \in InvNeighbors(graph, x) <=> Edge(y, x)
<1>1. \A e \in graph.out : e = Arc(e.from, e.to, Null)
  BY DEF GraphShape, Graphs, Arcs, Arc
<1>2. graph.in = graph.out
  BY DEF GraphShape
<1>3. \A p, q : Arc(p, q, Null).from = p /\ Arc(p, q, Null).to = q
  BY DEF Arc
<1>4. y \in Neighbors(graph, x) <=> Edge(x, y)
  <2>1. ASSUME y \in Neighbors(graph, x) PROVE Edge(x, y)
    <3>1. PICK e \in graph.out : e.from = x /\ e.to = y
      BY <2>1 DEF Neighbors
    <3> QED
      BY <1>1, <3>1 DEF Edge
  <2>2. ASSUME Edge(x, y) PROVE y \in Neighbors(graph, x)
    <3>1. Arc(x, y, Null) \in {e \in graph.out : e.from = x} /\ Arc(x, y, Null).to = y
      BY <1>3, <2>2 DEF Edge
    <3> QED
      BY <3>1 DEF Neighbors
  <2> QED
    BY <2>1, <2>2
<1>5. y \in InvNeighbors(graph, x) <=> Edge(y, x)
  <2>1. ASSUME y \in InvNeighbors(graph, x) PROVE Edge(y, x)
    <3>1. PICK e \in graph.in : e.to = x /\ e.from = y
      BY <2>1 DEF InvNeighbors
    <3> QED
      BY <1>1, <1>2, <3>1 DEF Edge
  <2>2. ASSUME Edge(y, x) PROVE y \in InvNeighbors(graph, x)
    <3>1. Arc(y, x, Null) \in {e \in graph.in : e.to = x} /\ Arc(y, x, Null).from = y
      BY <1>2, <1>3, <2>2 DEF Edge
    <3> QED
      BY <3>1 DEF InvNeighbors
  <2> QED
    BY <2>1, <2>2
<1> QED
  BY <1>4, <1>5

-----------------------------------------------------------------------------
(* Loads.                                                                  *)

\* Nothing is loaded, and nobody has called, at the start.
LEMMA Initially == Init => MInv
<1> SUFFICES ASSUME Init PROVE MInv
  OBVIOUS
<1>1. stack = <<>> /\ DOMAIN stack = {} /\ call.op = "none" /\ destruction = <<>>
      /\ \A n \in Names : ~Loaded(n)
  BY DEF Init, NoCall, Loaded
<1>2. Types
  <2>1. call \in Calls
    BY DEF Init, NoCall, Calls, Ops
  <2>2. graph \in Graphs
    BY DEF Init, NoGraph, Graphs
  <2> QED
    BY <1>1, <2>1, <2>2 DEF Init, Types
<1>3. VersionsInv
  BY DEF Init, VersionsInv, NoFile
<1>4. GraphInv
  <2>1. GraphShape(graph) /\ graph.out = {}
    BY DEF Init, NoGraph, GraphShape, Graphs
  <2> QED
    BY <1>1, <2>1 DEF GraphInv
<1>5. LifeInv
  <2>1. Pending = {} /\ Reloaded = {}
    BY <1>1 DEF Pending, Unloading, Reloaded
  <2>2. \A x \in Addrs : life[x] = "free" /\ \A n \in Names : modules_map[n] # x
    BY NullAssumption DEF Init
  <2> QED
    BY <1>1, <2>1, <2>2 DEF LifeInv, Up
<1>6. StackInv
  BY <1>1 DEF StackInv, Unloading
<1>7. RootsInv /\ HotfixInv
  BY <1>1 DEF RootsInv, HotfixInv, Entered, Init
<1> QED
  BY <1>2, <1>3, <1>4, <1>5, <1>6, <1>7 DEF MInv

\* Two loaded modules have two objects.
LEMMA OneObjectEach ==
    ASSUME LifeInv, call.op \notin {"broken", "endless"},
           NEW m \in Names \ Reloaded, NEW n \in Names \ Reloaded, Loaded(m), Loaded(n),
           modules_map[m] = modules_map[n]
    PROVE  m = n
BY DEF LifeInv

\* A module never comes to itself again through its dependencies: those on the stack are
\* a chain, and the dependencies have no circle.
LEMMA LoadsNoCircle ==
    ASSUME Types, LoadFrames, NEW n \in Top.todo, n \in Names
    PROVE  ~Entered(n)
<1> SUFFICES ASSUME NEW k \in DOMAIN stack, stack[k].name = n PROVE FALSE
  BY DEF Entered
<1> DEFINE S == {stack[j].name : j \in k .. Len(stack)}
<1>1. /\ Len(stack) \in Nat /\ DOMAIN stack = 1 .. Len(stack) /\ Len(stack) >= 1
      /\ \A j \in 1 .. Len(stack) : stack[j].name \in Names
      /\ Top = stack[Len(stack)]
  BY Typed DEF LoadFrames, Last, Top
<1>2. S \in SUBSET Names /\ S # {}
  BY <1>1
<1>3. deps \in Shapes
  BY DEF Types
<1>4. PICK s \in S : deps[s] \cap S = {}
  <2> HIDE DEF S
  <2> QED
    BY <1>2, <1>3, AcyclicAssumption
<1>5. PICK j \in k .. Len(stack) : s = stack[j].name
  OBVIOUS
<1>6. j \in 1 .. Len(stack) /\ stack[j].todo \subseteq deps[s]
  BY <1>1, <1>5 DEF LoadFrames
<1>7. CASE j = Len(stack)
  <2>1. n \in S /\ n \in deps[s]
    BY <1>1, <1>6, <1>7
  <2> QED
    BY <1>4, <2>1
<1>8. CASE j # Len(stack)
  <2>1. j + 1 \in k .. Len(stack) /\ j + 1 \in 1 .. Len(stack) /\ (j + 1) - 1 = j /\ j + 1 > 1
    <3>1. Len(stack) \in Nat /\ k \in Nat /\ k >= 1
      BY <1>1
    <3>2. j \in Nat /\ j >= k /\ j < Len(stack)
      BY <1>8, <3>1
    <3> QED
      BY <3>1, <3>2
  <2>2. stack[j + 1].name \in stack[j].todo
    BY <1>1, <2>1 DEF LoadFrames
  <2>3. stack[j + 1].name \in S /\ stack[j + 1].name \in deps[s]
    BY <1>6, <2>1, <2>2
  <2> QED
    BY <1>4, <2>3
<1> QED
  BY <1>7, <1>8

\* The same for an unload, through the users, as long as the graph has no wrong arcs.
LEMMA UnloadsNoCircle ==
    ASSUME Types, UnloadFrames, recycled = {}, stack # <<>>, NEW n \in Names, Top.name \in deps[n]
    PROVE  ~Entered(n)
<1> SUFFICES ASSUME NEW k \in DOMAIN stack, stack[k].name = n PROVE FALSE
  BY DEF Entered
<1> DEFINE S == {stack[j].name : j \in k .. Len(stack)}
<1>1. /\ Len(stack) \in Nat /\ DOMAIN stack = 1 .. Len(stack) /\ Len(stack) >= 1
      /\ \A j \in 1 .. Len(stack) : stack[j].name \in Names
      /\ Top = stack[Len(stack)]
  BY Typed DEF Last, Top
<1>2. S \in SUBSET Names /\ S # {}
  BY <1>1
<1>3. deps \in Shapes
  BY DEF Types
<1>4. PICK s \in S : deps[s] \cap S = {}
  <2> HIDE DEF S
  <2> QED
    BY <1>2, <1>3, AcyclicAssumption
<1>5. PICK j \in k .. Len(stack) : s = stack[j].name
  OBVIOUS
<1>6. j \in 1 .. Len(stack)
  BY <1>1, <1>5
<1>7. CASE j = k
  <2>1. Top.name \in S /\ Top.name \in deps[s]
    BY <1>1, <1>5, <1>7
  <2> QED
    BY <1>4, <2>1
<1>8. CASE j # k
  <2>1. j - 1 \in k .. Len(stack) /\ j > 1
    <3>1. k \in Nat /\ k >= 1 /\ j \in Nat /\ j > k
      BY <1>1, <1>5, <1>8
    <3> QED
      BY <1>1, <1>6, <3>1
  <2>2. stack[j - 1].name \in deps[s]
    BY <1>1, <1>5, <1>6, <2>1 DEF UnloadFrames, Needed
  <2>3. stack[j - 1].name \in S
    BY <2>1
  <2> QED
    BY <1>4, <2>2, <2>3
<1> QED
  BY <1>7, <1>8

\* A reload is the only activation that an object is deleted under.
LEMMA NothingReloaded ==
    ASSUME Types, StackInv, call.op # "update"
    PROVE  Reloaded = {}
<1>1. \A k \in DOMAIN stack : stack[k].op # "reload"
  BY Typed DEF StackInv, LoadFrames, UnloadFrames, EndlessFrames, Unloading, Ops
<1> QED
  BY <1>1 DEF Reloaded

\* During a reload, what the bottom of the stack stands for is, and nothing else.
LEMMA OneReloaded ==
    ASSUME Types, LoadFrames, call.op = "update"
    PROVE  Reloaded = IF stack = <<>> THEN {} ELSE {stack[1].name}
<1>1. Len(stack) \in Nat /\ DOMAIN stack = 1 .. Len(stack) /\ (stack # <<>> <=> Len(stack) >= 1)
  BY Typed
<1>2. {j \in DOMAIN stack : stack[j].op = "reload"} = IF stack = <<>> THEN {} ELSE {1}
  BY <1>1 DEF LoadFrames
<1> QED
  BY <1>1, <1>2 DEF Reloaded

\* The loaded modules are alive and have their names, but for one that is being reloaded.
LEMMA LoadedIsUp ==
    ASSUME MInv, call.op \notin {"broken", "endless"}, NEW n \in Names \ Reloaded, Loaded(n)
    PROVE  modules_map[n] \in Addrs /\ Up(modules_map[n]) /\ name_of[modules_map[n]] = n
BY Typed DEF MInv, LifeInv

\* A copy gets the next version.
LEMMA CopyIsNew ==
    ASSUME VersionsInv, NEW n \in Names, LoadHotfixModule(n)
    PROVE  VersionsInv'
<1>1. /\ version \in [Names -> Nat] /\ next_version \in [Names -> Nat] /\ file \in [Names -> Int]
      /\ \A m \in Names : next_version[m] = version[m] + 1 /\ file[m] < version[m]
  BY DEF VersionsInv
<1>2. /\ file' = [file EXCEPT ![n] = version[n]]
      /\ next_version' = [next_version EXCEPT ![n] = next_version[n] + 1]
      /\ version' = [version EXCEPT ![n] = next_version[n]]
  BY DEF LoadHotfixModule, NextVersion
<1>3. /\ version' \in [Names -> Nat] /\ next_version' \in [Names -> Nat] /\ file' \in [Names -> Int]
  BY <1>1, <1>2
<1>4. ASSUME NEW m \in Names PROVE next_version'[m] = version'[m] + 1 /\ file'[m] < version'[m]
  <2>1. CASE m = n
    BY <1>1, <1>2, <2>1
  <2>2. CASE m # n
    BY <1>1, <1>2, <2>2
  <2> QED
    BY <2>1, <2>2
<1> QED
  BY <1>3, <1>4 DEF VersionsInv

\* The types of the history, and what is in it stays there.
LEMMA RecycledGrows ==
    ASSUME Types, NEW a \in Addrs, NEW n, Recycle(a, n)
    PROVE  recycled' \subseteq Addrs /\ recycled \subseteq recycled'
BY DEF Types, Recycle

\* A new object at an address turns no arc wrong, unless that address is recycled.
LEMMA NoArcTurnsWrong ==
    ASSUME Types, GraphInv, NEW a \in Addrs, NEW n \in Names, Recycle(a, n),
           name_of' = [name_of EXCEPT ![a] = n], UNCHANGED <<deps, graph>>
    PROVE  \A e \in graph'.out : name_of'[e.to] \in Names /\ Right(e.from, e.to)'
<1> SUFFICES ASSUME NEW e \in graph.out
             PROVE  name_of'[e.to] \in Names /\ Right(e.from, e.to)'
  OBVIOUS
<1>1. /\ e.from \in Addrs /\ e.to \in Addrs /\ e.from \in NodesOf(graph) /\ e.to \in NodesOf(graph)
      /\ name_of[e.to] \in Names /\ Right(e.from, e.to)
  BY DEF GraphInv, GraphShape, Graphs, Arcs, NodesOf
<1>2. name_of'[a] = n /\ \A x \in Addrs : x # a => name_of'[x] = name_of[x]
  BY DEF Types
<1>3. recycled \subseteq recycled'
  BY RecycledGrows
<1>4. CASE a \in NodesOf(graph) /\ name_of[a] # n
  <2>1. a \in recycled'
    BY <1>4 DEF Recycle
  <2> QED
    BY <1>1, <1>2, <1>3, <2>1 DEF Right
<1>5. CASE a \in NodesOf(graph) /\ name_of[a] = n
  <2>1. \A x \in Addrs : name_of'[x] = name_of[x]
    BY <1>2, <1>5
  <2> QED
    BY <1>1, <1>3, <2>1 DEF Right
<1>6. CASE a \notin NodesOf(graph)
  <2>1. e.from # a /\ e.to # a
    BY <1>1, <1>6
  <2> QED
    BY <1>1, <1>2, <1>3, <2>1 DEF Right
<1> QED
  BY <1>4, <1>5, <1>6

\* A new activation of LoadModule.
LEMMA EnterKeeps ==
    ASSUME MInv, NEW n \in Names, ~Loaded(n), Enter(n), call' \in Calls,
           \/ call.op = "none" /\ call'.op = "load"
           \/ call' = call /\ call.op \in {"load", "update"} /\ stack # <<>> /\ n \in Top.todo
    PROVE  MInv'
<1> USE DEF MInv
<1> PICK a \in Addrs :
       /\ Fresh(a) /\ Recycle(a, n)
       /\ life' = [life EXCEPT ![a] = "made"] /\ name_of' = [name_of EXCEPT ![a] = n]
       /\ stack' = Append(stack, Frame("load", n, a, deps[n]))
  BY DEF Enter
<1> DEFINE f == Frame("load", n, a, deps[n])
           L == Len(stack)
<1>1. UNCHANGED <<deps, graph, modules_map, destruction, hotfix_contexts>>
  BY DEF Enter
<1>2. /\ deps \in [Names -> SUBSET Names] /\ L \in Nat /\ DOMAIN stack = 1 .. L
      /\ stack # <<>> <=> L >= 1
      /\ \A k \in 1 .. L : stack[k] \in Frames /\ stack[k].name \in Names /\ stack[k].obj \in Addrs
      /\ \A m \in Names : Loaded(m) => modules_map[m] \in Addrs
  BY Typed
<1>3. call.op = "none" => stack = <<>>
  BY DEF StackInv
<1>4. call.op \in {"load", "update"} => LoadFrames
  BY DEF StackInv
<1>5. ~Entered(n)
  <2>1. CASE call.op = "none"
    BY <1>2, <1>3, <2>1 DEF Entered
  <2>2. CASE call.op \in {"load", "update"}
    BY <1>4, <2>2, LoadsNoCircle
  <2> QED
    BY <2>1, <2>2
<1>6. /\ f \in Frames /\ f.op = "load" /\ f.name = n /\ f.obj = a /\ f.todo = deps[n]
  BY <1>2 DEF Frame, Frames
<1>7. /\ stack' \in Seq(Frames) /\ stack' # <<>> /\ Len(stack') = L + 1
      /\ \A k \in 1 .. L : stack'[k] = stack[k]
      /\ stack'[L + 1] = f
      /\ DOMAIN stack' = 1 .. L + 1
  <2>1. stack \in Seq(Frames)
    BY DEF Types
  <2>2. /\ stack' \in Seq(Frames) /\ stack' # <<>> /\ Len(stack') = L + 1
        /\ \A k \in 1 .. L : stack'[k] = stack[k]
        /\ stack'[L + 1] = f
    BY <1>6, <2>1, Pushed
  <2> QED
    BY <2>2
<1> HIDE DEF f, L
<1>8. \A m \in Names : Loaded(m)' <=> Loaded(m)
  BY <1>1 DEF Loaded
<1>9. \A m : Entered(m)' <=> Entered(m) \/ m = n
  BY <1>2, <1>6, <1>7 DEF Entered
<1>10. /\ life[a] = "free"
       /\ call.op \in {"none", "load", "update"} /\ call'.op \in {"load", "update"}
       /\ call.op = "update" <=> call'.op = "update"
       /\ ~Unloading /\ ~Unloading'
  BY DEF Fresh, Unloading
<1>11. \A m \in Names \ Reloaded : Loaded(m) => modules_map[m] # a
  BY <1>10, LoadedIsUp DEF Up
<1>12. \A k \in 1 .. L : stack[k].obj # a /\ stack[k].op \in {"load", "reload"}
  <2> TAKE k \in 1 .. L
  <2>1. LoadFrames /\ k \in DOMAIN stack
    BY <1>2, <1>3, <1>4, <1>10
  <2>2. stack[k].op \in {"load", "reload"}
    BY <2>1 DEF LoadFrames
  <2>3. life[stack[k].obj] = "made"
    BY <1>2, <1>10, <2>1, <2>2 DEF LifeInv
  <2> QED
    BY <1>10, <2>2, <2>3
<1>13. Types'
  <2>1. /\ life' \in [Addrs -> {"free", "made", "live", "quiet"}]
        /\ name_of' \in [Addrs -> Names \cup {Null}]
    BY DEF Types
  <2>2. roots' \subseteq Names /\ hotfixs' \subseteq hotfix_contexts
    BY DEF Enter, Types
  <2>3. recycled' \subseteq Addrs
    BY RecycledGrows
  <2> QED
    BY <1>1, <1>7, <2>1, <2>2, <2>3 DEF Types
<1>14. VersionsInv'
  <2>1. CASE UNCHANGED fileVars
    BY <2>1 DEF VersionsInv, fileVars
  <2>2. CASE LoadHotfixModule(n)
    BY <2>2, CopyIsNew
  <2> QED
    BY <2>1, <2>2 DEF Enter
<1>15. GraphInv'
  <2>1. GraphShape(graph)'
    BY <1>1 DEF GraphInv, GraphShape
  <2>2. \A e \in graph'.out : name_of'[e.to] \in Names /\ Right(e.from, e.to)'
    BY <1>1, NoArcTurnsWrong
  <2>3. \A m \in Names : Loaded(m)' => \A d \in deps'[m] : Loaded(d)' \/ d \in hotfix_contexts'
    BY <1>1, <1>2, <1>8 DEF GraphInv
  <2>4. \A x, y \in Names :
            Loaded(x)' /\ Loaded(y)' /\ x \in deps'[y] /\ x \notin hotfix_contexts' =>
                Edge(modules_map[x], modules_map[y])'
    BY <1>1, <1>8 DEF GraphInv, Edge
  <2> QED
    BY <2>1, <2>2, <2>3, <2>4 DEF GraphInv
<1>16. LifeInv'
  <2>1. Pending = {} /\ Pending' = {}
    BY <1>10 DEF Pending
  <2>2. Reloaded' = Reloaded
    <3>1. \A k \in 1 .. L + 1 : stack'[k].op = "reload" <=> k \in 1 .. L /\ stack[k].op = "reload"
      BY <1>2, <1>6, <1>7
    <3>2. {j \in DOMAIN stack' : stack'[j].op = "reload"} = {j \in DOMAIN stack : stack[j].op = "reload"}
      BY <1>2, <1>7, <3>1
    <3> QED
      BY <1>2, <1>7, <3>2 DEF Reloaded
  <2>3. ASSUME NEW x \in Addrs
        PROVE  /\ Up(x)' <=> \E m \in Names \ Reloaded : modules_map[m] = x
               /\ life'[x] = "made" <=> \E k \in DOMAIN stack' : stack'[k].op # "unload" /\ stack'[k].obj = x
    <3>1. /\ Up(x) <=> \E m \in Names \ Reloaded : modules_map[m] = x
          /\ life[x] = "made" <=> \E k \in DOMAIN stack : stack[k].op # "unload" /\ stack[k].obj = x
      BY <1>10, <2>1 DEF LifeInv
    <3>2. CASE x = a
      <4>1. life'[x] = "made" /\ ~Up(x)'
        BY <3>2 DEF Types, Up
      <4>2. ~\E m \in Names \ Reloaded : modules_map[m] = x
        BY <1>10, <3>1, <3>2 DEF Up
      <4>3. stack'[L + 1].op # "unload" /\ stack'[L + 1].obj = x /\ L + 1 \in DOMAIN stack'
        BY <1>2, <1>6, <1>7, <3>2
      <4> QED
        BY <4>1, <4>2, <4>3
    <3>3. CASE x # a
      <4>1. life'[x] = life[x] /\ (Up(x)' <=> Up(x))
        BY <3>3 DEF Types, Up
      <4>2. (\E k \in DOMAIN stack' : stack'[k].op # "unload" /\ stack'[k].obj = x)
            <=> (\E k \in DOMAIN stack : stack[k].op # "unload" /\ stack[k].obj = x)
        BY <1>2, <1>6, <1>7, <3>3
      <4> QED
        BY <3>1, <4>1, <4>2
    <3> QED
      BY <3>2, <3>3
  <2>4. \A m \in Names \ Reloaded : Loaded(m) => name_of'[modules_map[m]] = m
    BY <1>2, <1>10, <1>11, LoadedIsUp DEF Types
  <2> QED
    BY <1>1, <1>8, <1>10, <2>1, <2>2, <2>3, <2>4 DEF LifeInv
<1>17. StackInv'
  <2>1. Apart'
    <3>1. \A j, k \in DOMAIN stack : stack[j].name = stack[k].name => j = k
      BY <1>2, <1>3, <1>4, <1>10 DEF LoadFrames, Apart
    <3>2. \A k \in DOMAIN stack : stack[k].name # n
      BY <1>5 DEF Entered
    <3> QED
      BY <1>2, <1>6, <1>7, <3>1, <3>2 DEF Apart
  <2>2. ASSUME NEW k \in 1 .. L + 1
        PROVE  LET g == stack'[k]
               IN  /\ g.op = IF k = 1 /\ call'.op = "update" THEN "reload" ELSE "load"
                   /\ g.op = "load" => modules_map[g.name] = Null
                   /\ g.op = "reload" => modules_map[g.name] # Null /\ g.name \in hotfix_contexts
                   /\ name_of'[g.obj] = g.name
                   /\ g.todo \subseteq deps[g.name]
                   /\ \A d \in deps[g.name] \ g.todo :
                        modules_map[d] # Null /\ Arc(modules_map[d], g.obj, Null) \in graph.out
                   /\ k > 1 => g.name \in stack'[k - 1].todo
    <3>1. CASE k = L + 1
      <4>1. modules_map[n] = Null /\ name_of'[a] = n
        BY DEF Types, Loaded
      <4>2. k > 1 => n \in stack'[k - 1].todo
        <5> SUFFICES ASSUME L >= 1 PROVE n \in stack'[L].todo
          BY <1>2, <3>1
        <5>1. n \in Top.todo /\ Top = stack[L] /\ L \in 1 .. L
          BY <1>2, <1>3 DEF Last, L, Top
        <5> QED
          BY <1>7, <5>1
      <4>3. ~(k = 1 /\ call'.op = "update")
        BY <1>2, <1>10, <3>1
      <4> QED
        BY <1>6, <1>7, <3>1, <4>1, <4>2, <4>3
    <3>2. CASE k \in 1 .. L
      <4>1. LoadFrames /\ k \in DOMAIN stack /\ stack'[k] = stack[k]
        BY <1>2, <1>3, <1>4, <1>7, <1>10, <3>2
      <4>2. k > 1 => stack'[k - 1] = stack[k - 1]
        BY <1>2, <1>7, <3>2
      <4>3. name_of'[stack[k].obj] = name_of[stack[k].obj] /\ stack[k].name \in Names
        BY <1>2, <1>12, <3>2 DEF Types
      <4> QED
        BY <1>10, <4>1, <4>2, <4>3 DEF LoadFrames, Loaded, Edge
    <3> QED
      BY <1>2, <3>1, <3>2
  <2>3. LoadFrames'
    <3>1. modules_map' = modules_map /\ graph' = graph /\ deps' = deps
          /\ hotfix_contexts' = hotfix_contexts
      BY <1>1
    <3> QED
      BY <1>7, <2>1, <2>2, <3>1 DEF LoadFrames, Edge, Loaded
  <2> QED
    BY <1>7, <1>10, <2>3 DEF StackInv
<1>18. RootsInv'
  <2>1. /\ \A m \in Names : (Loaded(m) \/ Entered(m)) /\ deps[m] = {} => m \in roots
        /\ recycled = {} => \A m \in roots : (Loaded(m) \/ Entered(m)) /\ deps[m] = {}
    BY <1>10 DEF RootsInv
  <2>2. roots' = IF deps[n] = {} THEN roots \cup {n} ELSE roots
    BY DEF Enter
  <2>3. recycled \subseteq recycled' /\ roots' \subseteq Names
    BY <1>13, RecycledGrows DEF Types
  <2>4. \A m \in Names : (Loaded(m)' \/ Entered(m)') /\ deps[m] = {} => m \in roots'
    BY <1>8, <1>9, <2>1, <2>2
  <2>5. recycled' = {} => \A m \in roots' : (Loaded(m)' \/ Entered(m)') /\ deps[m] = {}
    BY <1>8, <1>9, <2>1, <2>2, <2>3 DEF Types
  <2> QED
    BY <1>1, <1>10, <2>4, <2>5 DEF RootsInv
<1>19. HotfixInv'
  <2>1. \A m \in hotfixs : m \in Names /\ (Loaded(m) \/ Entered(m))
    BY <1>10, NamesAssumption DEF HotfixInv, Types
  <2>2. hotfixs' \subseteq hotfixs \cup {n} /\ hotfixs \subseteq hotfixs'
    BY DEF Enter
  <2>3. \A m \in hotfixs' : Loaded(m)' \/ Entered(m)'
    BY <1>8, <1>9, <2>1, <2>2
  <2>4. call'.op = "update" => call'.walk \subseteq hotfixs'
    BY <1>10, <2>2 DEF HotfixInv
  <2> QED
    BY <1>10, <2>3, <2>4 DEF HotfixInv
<1> QED
  BY <1>13, <1>14, <1>15, <1>16, <1>17, <1>18, <1>19

\* Which call it is that loads.
LEMMA WhoLoads ==
    ASSUME Types, StackInv, Loading
    PROVE  /\ call.op \in {"load", "update"} /\ LoadFrames /\ ~Unloading /\ stack # <<>>
           /\ Top.op = "reload" <=> call.op = "update" /\ Len(stack) = 1
           /\ Head(stack).op = "reload" <=> call.op = "update"
<1>1. /\ Len(stack) \in Nat /\ DOMAIN stack = 1 .. Len(stack) /\ Len(stack) >= 1
      /\ Top = stack[Len(stack)] /\ Head(stack) = stack[1]
      /\ Top.op \in {"load", "reload"} /\ stack # <<>>
      /\ call.op \in Ops
  BY Typed DEF Loading, Last, Top
<1>2. 1 \in DOMAIN stack /\ Len(stack) \in DOMAIN stack
  BY <1>1
<1>3. ~Unloading /\ call.op # "endless"
  BY <1>1, <1>2 DEF StackInv, UnloadFrames, EndlessFrames
<1>4. call.op \in {"load", "update"} /\ LoadFrames
  BY <1>1, <1>3 DEF StackInv, Unloading, Ops
<1> QED
  BY <1>1, <1>2, <1>3, <1>4 DEF LoadFrames

\* What a load still has to do is not what is reloaded.
LEMMA TodoNotReloaded ==
    ASSUME Types, LoadFrames, stack # <<>>, NEW n \in Top.todo, n \in Names
    PROVE  n \notin Reloaded /\ ~Entered(n)
<1>1. ~Entered(n)
  BY LoadsNoCircle
<1> QED
  BY <1>1 DEF Entered, Reloaded

\* An arc more that the metadata asks for.
LEMMA ArcIsRight ==
    ASSUME GraphInv, Types, NEW x \in Addrs, NEW y \in Addrs,
           graph' = Depend(graph, x, y),
           UNCHANGED <<deps, name_of, recycled, modules_map, hotfix_contexts>>,
           name_of[y] \in Names, name_of[x] \in deps[name_of[y]]
    PROVE  GraphInv' /\ graph'.out = graph.out \cup {Arc(x, y, Null)}
<1>1. GraphShape(graph') /\ graph'.out = graph.out \cup {Arc(x, y, Null)}
  BY ArcAdded DEF GraphInv, Depend
<1>2. Arc(x, y, Null).from = x /\ Arc(x, y, Null).to = y
  BY DEF Arc
<1>3. \A e \in graph'.out : name_of'[e.to] \in Names /\ Right(e.from, e.to)'
  BY <1>1, <1>2 DEF GraphInv, Right
<1>4. \A m \in Names : Loaded(m)' => \A d \in deps'[m] : Loaded(d)' \/ d \in hotfix_contexts'
  BY DEF GraphInv, Loaded
<1>5. \A m, n \in Names : Loaded(m)' /\ Loaded(n)' /\ m \in deps'[n] /\ m \notin hotfix_contexts' =>
          Edge(modules_map[m], modules_map[n])'
  BY <1>1 DEF GraphInv, Loaded, Edge
<1> QED
  BY <1>1, <1>3, <1>4, <1>5 DEF GraphInv

\* A step that changes no more than what activations have left to do.
LEMMA SameActivations ==
    ASSUME Types, LifeInv, RootsInv, HotfixInv,
           stack' \in Seq(Frames), Len(stack') = Len(stack),
           \A k \in 1 .. Len(stack) : /\ stack'[k].name = stack[k].name /\ stack'[k].op = stack[k].op
                                      /\ stack'[k].obj = stack[k].obj,
           UNCHANGED <<deps, objVars, mapVars, destruction, call>>
    PROVE  LifeInv' /\ RootsInv' /\ HotfixInv'
<1>1. /\ Len(stack) \in Nat /\ DOMAIN stack = 1 .. Len(stack) /\ DOMAIN stack' = 1 .. Len(stack)
      /\ stack # <<>> <=> stack' # <<>>
      /\ stack # <<>> => stack'[1].name = stack[1].name
  BY Typed
<1>2. /\ deps' = deps /\ life' = life /\ name_of' = name_of /\ recycled' = recycled
      /\ modules_map' = modules_map /\ roots' = roots
      /\ hotfixs' = hotfixs /\ destruction' = destruction /\ call' = call
  BY DEF objVars, mapVars
<1>3. \A m : (Loaded(m)' <=> Loaded(m)) /\ (IsRoot(m)' <=> IsRoot(m))
  BY <1>2 DEF Loaded, IsRoot
<1>4. \A m : Entered(m)' <=> Entered(m)
  BY <1>1 DEF Entered
<1>5. Reloaded' = Reloaded /\ Pending' = Pending /\ (Unloading' <=> Unloading)
  <2>1. {j \in DOMAIN stack' : stack'[j].op = "reload"} = {j \in DOMAIN stack : stack[j].op = "reload"}
    BY <1>1
  <2>2. Reloaded' = Reloaded
    BY <1>1, <2>1 DEF Reloaded
  <2> QED
    BY <1>2, <2>2 DEF Pending, Unloading
<1>6. \A x : (\E k \in DOMAIN stack' : stack'[k].op # "unload" /\ stack'[k].obj = x)
             <=> (\E k \in DOMAIN stack : stack[k].op # "unload" /\ stack[k].obj = x)
  BY <1>1
<1>7. LifeInv'
  BY <1>2, <1>3, <1>5, <1>6 DEF LifeInv, Up
<1>8. RootsInv'
  <2>1. call.op \in {"none", "load", "update"} =>
          /\ \A n \in Names : (Loaded(n)' \/ Entered(n)') /\ deps'[n] = {} => n \in roots'
          /\ recycled' = {} => \A n \in roots' : (Loaded(n)' \/ Entered(n)') /\ deps'[n] = {}
    BY <1>2, <1>3, <1>4 DEF RootsInv
  <2>2. call.op = "unload" =>
          /\ call'.walk \subseteq {call'.arg}
          /\ \A n \in Names : n # call'.arg /\ IsRoot(n)' => n \in roots'
          /\ recycled' = {} => \A n \in roots' : n # call'.arg => IsRoot(n)'
          /\ \A n \in Names : n = call'.arg /\ Loaded(n)' => n \in call'.walk \/ stack' # <<>>
    BY <1>1, <1>2, <1>3 DEF RootsInv
  <2>3. call.op = "destroy" =>
          \A n \in Names : IsRoot(n)' => n \in call'.walk \/ (stack' # <<>> /\ stack'[1].name = n)
    BY <1>1, <1>2, <1>3 DEF RootsInv
  <2> QED
    BY <1>2, <2>1, <2>2, <2>3 DEF RootsInv
<1>9. HotfixInv'
  BY <1>2, <1>3, <1>4, <1>5 DEF HotfixInv
<1> QED
  BY <1>7, <1>8, <1>9

\* A dependency that is loaded already.
LEMMA GivenKeeps ==
    ASSUME MInv, NEW n \in Names, LoadDependency(n), Loaded(n)
    PROVE  MInv'
<1> USE DEF MInv
<1> DEFINE L == Len(stack)
           f == [Top EXCEPT !.todo = @ \ {n}]
<1>0. L \in Nat
  BY Typed
<1>1. /\ Loading /\ n \in Top.todo
      /\ stack' = Append(Front(stack), f)
      /\ graph' = Depend(graph, modules_map[n], Top.obj)
      /\ UNCHANGED <<deps, objVars, mapVars, destruction, hotfix_contexts, fileVars, call>>
  BY DEF LoadDependency, Give, Top
<1>2. /\ deps' = deps /\ life' = life /\ name_of' = name_of /\ recycled' = recycled
      /\ modules_map' = modules_map
      /\ roots' = roots /\ hotfixs' = hotfixs /\ destruction' = destruction
      /\ hotfix_contexts' = hotfix_contexts /\ call' = call
      /\ version' = version /\ next_version' = next_version /\ file' = file
  BY <1>1 DEF objVars, mapVars, fileVars
<1>3. /\ deps \in [Names -> SUBSET Names] /\ L \in Nat /\ L >= 1 /\ DOMAIN stack = 1 .. L
      /\ \A k \in 1 .. L : stack[k] \in Frames /\ stack[k].name \in Names /\ stack[k].obj \in Addrs
      /\ modules_map[n] \in Addrs /\ Top = stack[L] /\ stack \in Seq(Frames) /\ stack # <<>>
      /\ L = Len(stack)
  <2>1. stack # <<>>
    BY <1>1 DEF Loading
  <2> QED
    BY <2>1, Typed DEF Types, Last, Top
<1>4. LoadFrames /\ ~Unloading /\ call.op \in {"load", "update"}
  BY <1>1, WhoLoads
<1>5. f \in Frames /\ f.op = Top.op /\ f.name = Top.name /\ f.obj = Top.obj /\ f.todo = Top.todo \ {n}
  BY <1>3 DEF Frames
<1> HIDE DEF f, L
<1>6. /\ stack' \in Seq(Frames) /\ stack' # <<>> /\ Len(stack') = L /\ DOMAIN stack' = 1 .. L
      /\ \A k \in 1 .. L - 1 : stack'[k] = stack[k]
      /\ stack'[L] = f
  <2>1. stack \in Seq(Frames) /\ stack # <<>> /\ f \in Frames
    BY <1>3, <1>5
  <2>2. LET t == Append(Front(stack), f)
        IN  /\ t \in Seq(Frames) /\ t # <<>> /\ Len(t) = Len(stack) /\ Last(t) = f
            /\ \A k \in 1 .. Len(stack) - 1 : t[k] = stack[k]
            /\ t[Len(stack)] = f
    BY <2>1, TopChanged
  <2>3. stack' = Append(Front(stack), f) /\ L = Len(stack)
    BY <1>1, <1>3
  <2> QED
    BY <2>2, <2>3
<1>7. \A k \in 1 .. L : /\ stack'[k].name = stack[k].name /\ stack'[k].op = stack[k].op
                        /\ stack'[k].obj = stack[k].obj
  <2> TAKE k \in 1 .. L
  <2>1. k = L \/ k \in 1 .. L - 1
    BY <1>0
  <2> QED
    BY <1>3, <1>5, <1>6, <2>1
<1>8. /\ L \in DOMAIN stack /\ Top.todo \subseteq deps[Top.name] /\ name_of[Top.obj] = Top.name
      /\ Top.name \in Names /\ Top.obj \in Addrs
  BY <1>3, <1>4 DEF LoadFrames
<1>9. name_of[modules_map[n]] = n
  BY <1>1, <1>3, <1>4, TodoNotReloaded, LoadedIsUp
<1>10. GraphInv' /\ graph'.out = graph.out \cup {Arc(modules_map[n], Top.obj, Null)}
  <2>1. name_of[Top.obj] \in Names /\ name_of[modules_map[n]] \in deps[name_of[Top.obj]]
    BY <1>1, <1>8, <1>9
  <2> QED
    BY <1>1, <1>2, <1>3, <1>8, <2>1, ArcIsRight
<1>11. LifeInv' /\ RootsInv' /\ HotfixInv'
  <2>1. UNCHANGED <<deps, objVars, mapVars, destruction, call>>
    BY <1>2 DEF objVars, mapVars
  <2> QED
    BY <1>3, <1>6, <1>7, <2>1, SameActivations
<1>12. Types' /\ VersionsInv'
  BY <1>2, <1>6 DEF Types, VersionsInv
<1>13. Apart'
  BY <1>3, <1>4, <1>6, <1>7 DEF LoadFrames, Apart
<1>14. ASSUME NEW k \in 1 .. L
       PROVE  LET g == stack'[k]
              IN  /\ g.op = IF k = 1 /\ call.op = "update" THEN "reload" ELSE "load"
                  /\ g.op = "load" => modules_map[g.name] = Null
                  /\ g.op = "reload" => modules_map[g.name] # Null /\ g.name \in hotfix_contexts
                  /\ name_of[g.obj] = g.name
                  /\ g.todo \subseteq deps[g.name]
                  /\ \A d \in deps[g.name] \ g.todo :
                       modules_map[d] # Null /\ Arc(modules_map[d], g.obj, Null) \in graph'.out
                  /\ k > 1 => g.name \in stack'[k - 1].todo
  <2>1. LET g == stack[k]
        IN  /\ g.op = IF k = 1 /\ call.op = "update" THEN "reload" ELSE "load"
            /\ g.op = "load" => modules_map[g.name] = Null
            /\ g.op = "reload" => modules_map[g.name] # Null /\ g.name \in hotfix_contexts
            /\ name_of[g.obj] = g.name
            /\ g.todo \subseteq deps[g.name]
            /\ \A d \in deps[g.name] \ g.todo :
                 modules_map[d] # Null /\ Arc(modules_map[d], g.obj, Null) \in graph'.out
            /\ k > 1 => g.name \in stack[k - 1].todo
    BY <1>3, <1>4, <1>10 DEF LoadFrames, Loaded, Edge
  <2>2. k > 1 => stack'[k - 1] = stack[k - 1]
    BY <1>3, <1>6
  <2>3. CASE k = L
    <3>1. \A d \in deps[Top.name] \ f.todo : d = n \/ d \in deps[Top.name] \ Top.todo
      BY <1>5
    <3>2. modules_map[n] # Null /\ Arc(modules_map[n], Top.obj, Null) \in graph'.out
      BY <1>10 DEF Loaded
    <3> QED
      BY <1>3, <1>5, <1>6, <2>1, <2>2, <2>3, <3>1, <3>2
  <2>4. CASE k \in 1 .. L - 1
    BY <1>6, <2>1, <2>2, <2>4
  <2> QED
    BY <1>3, <2>3, <2>4
<1>15. LoadFrames'
  BY <1>2, <1>6, <1>13, <1>14 DEF LoadFrames, Loaded, Edge
<1>16. StackInv'
  BY <1>2, <1>4, <1>6, <1>15 DEF StackInv, Unloading
<1> QED
  BY <1>10, <1>11, <1>12, <1>16

\* The module that has its dependencies: it is alive, in modules_map, and the one below
\* on the stack has it.
LEMMA OnLoadKeeps ==
    ASSUME MInv, OnLoad
    PROVE  MInv'
<1> USE DEF MInv
<1> DEFINE L == Len(stack)
           n == Top.name
           a == Top.obj
<1>0. L \in Nat
  BY Typed
<1>1. /\ Loading /\ Top.op = "load" /\ Top.todo = {}
      /\ modules_map' = [modules_map EXCEPT ![n] = a]
      /\ UNCHANGED <<deps, name_of, recycled, roots, hotfixs, destruction, hotfix_contexts, fileVars>>
  BY DEF OnLoad, Ready
<1>2. /\ deps' = deps /\ name_of' = name_of /\ recycled' = recycled
      /\ roots' = roots /\ hotfixs' = hotfixs /\ destruction' = destruction
      /\ hotfix_contexts' = hotfix_contexts
      /\ version' = version /\ next_version' = next_version /\ file' = file
  BY <1>1 DEF fileVars
<1>3. /\ deps \in [Names -> SUBSET Names] /\ L >= 1 /\ DOMAIN stack = 1 .. L
      /\ \A k \in 1 .. L : stack[k] \in Frames /\ stack[k].name \in Names /\ stack[k].obj \in Addrs
      /\ Top = stack[L] /\ stack \in Seq(Frames) /\ stack # <<>> /\ Head(stack) = stack[1]
      /\ L = Len(stack) /\ L \in 1 .. L /\ 1 \in 1 .. L
  <2>1. stack # <<>> /\ stack \in Seq(Frames)
    BY <1>1 DEF Loading, Types
  <2>2. Head(stack) = stack[1]
    BY <2>1
  <2> QED
    BY <2>1, <2>2, Typed DEF Last, Top
<1>4. /\ LoadFrames /\ ~Unloading /\ call.op \in {"load", "update"}
      /\ call.op = "update" => L # 1
  BY <1>1, WhoLoads
<1>5. /\ n \in Names /\ a \in Addrs /\ name_of[a] = n /\ ~Loaded(n)
      /\ \A d \in deps[n] : Loaded(d) /\ Edge(modules_map[d], a)
      /\ n = stack[L].name /\ a = stack[L].obj
  <2>1. L \in DOMAIN stack
    BY <1>3
  <2> QED
    BY <1>1, <1>3, <1>4, <2>1 DEF LoadFrames
<1> HIDE DEF L, n, a
<1>6. PICK q \in {"live", "quiet"} : life' = [life EXCEPT ![a] = q]
  BY DEF OnLoad, a
<1>7. \A m \in Names : m # n => modules_map'[m] = modules_map[m]
  BY <1>1, <1>5 DEF Types
<1>8. modules_map'[n] = a
  BY <1>1, <1>5 DEF Types
<1>9. \A m \in Names : Loaded(m)' <=> Loaded(m) \/ m = n
  BY <1>5, <1>7, <1>8, NullAssumption DEF Loaded
<1>10. /\ n \notin deps[n]
       /\ \A m \in Names : Loaded(m) /\ n \in deps[m] => n \in hotfix_contexts
  BY <1>5 DEF GraphInv
<1>11. Pending = {} /\ n \notin Reloaded
  <2>1. \A k \in DOMAIN stack : stack[k].op = "reload" => Loaded(stack[k].name)
    BY <1>4 DEF LoadFrames
  <2> QED
    BY <1>4, <1>5, <2>1 DEF Pending, Reloaded
<1>12. \A k \in 1 .. L : stack[k].name = n => k = L
  <2>1. DOMAIN stack = 1 .. L /\ L \in 1 .. L /\ stack[L].name = n
    BY <1>3, <1>5
  <2>2. Apart
    BY <1>4 DEF LoadFrames
  <2> QED
    BY <2>1, <2>2 DEF Apart
<1>13. \A k \in 1 .. L : stack[k].obj = a => k = L
  <2> SUFFICES ASSUME NEW k \in 1 .. L, stack[k].obj = a PROVE stack[k].name = n
    BY <1>12
  <2> QED
    BY <1>3, <1>4, <1>5 DEF LoadFrames
<1>14. /\ \A x \in Addrs : Up(x) <=> \E m \in Names \ Reloaded : modules_map[m] = x
       /\ \A m \in Names \ Reloaded : Loaded(m) => name_of[modules_map[m]] = m
  BY <1>4, <1>11 DEF LifeInv
<1>15. \A x \in Addrs : life[x] = "made" <=> \E k \in 1 .. L : stack[k].obj = x
  <2>1. \A k \in 1 .. L : stack[k].op \in {"load", "reload"}
    BY <1>3, <1>4 DEF LoadFrames
  <2> QED
    BY <1>3, <1>4, <2>1 DEF LifeInv
<1>16. VersionsInv'
  BY <1>2 DEF VersionsInv
\* Of loaded modules the arcs are all there.
<1>17. \A x, y \in Names : Loaded(x)' /\ Loaded(y)' /\ x \in deps[y] /\ x \notin hotfix_contexts =>
          Arc(modules_map'[x], modules_map'[y], Null) \in graph.out
  <2> TAKE x, y \in Names
  <2> HAVE Loaded(x)' /\ Loaded(y)' /\ x \in deps[y] /\ x \notin hotfix_contexts
  <2>1. CASE y = n
    <3>1. Edge(modules_map[x], a) /\ x # n
      BY <1>5, <1>10, <2>1
    <3> QED
      BY <1>7, <1>8, <2>1, <3>1 DEF Edge
  <2>2. CASE y # n
    <3>1. Loaded(y) /\ x # n /\ Loaded(x)
      BY <1>9, <1>10, <2>2
    <3>2. Edge(modules_map[x], modules_map[y])
      BY <3>1 DEF GraphInv
    <3> QED
      BY <1>7, <2>2, <3>1, <3>2 DEF Edge
  <2> QED
    BY <2>1, <2>2
<1>18. \A m \in Names : Loaded(m)' => \A d \in deps[m] : Loaded(d)' \/ d \in hotfix_contexts
  <2> TAKE m \in Names
  <2> HAVE Loaded(m)'
  <2>1. \A d \in deps[m] : d \in Names
    BY <1>3
  <2>2. CASE m = n
    BY <1>5, <1>8, <1>9, <2>1, <2>2
  <2>3. CASE m # n
    BY <1>7, <1>9, <2>1, <2>3 DEF GraphInv
  <2> QED
    BY <2>2, <2>3
<1>19. modules_map' \in [Names -> Addrs \cup {Null}] /\ life' \in [Addrs -> {"free", "made", "live", "quiet"}]
  BY <1>1, <1>5, <1>6 DEF Types
<1>20. /\ \A x \in Addrs : Up(x)' <=> \E m \in Names \ Reloaded : modules_map'[m] = x
       /\ \A m \in Names \ Reloaded : Loaded(m)' => name_of[modules_map'[m]] = m
  <2>0. \A m \in Names \ Reloaded : Loaded(m)' => name_of[modules_map'[m]] = m
    BY <1>5, <1>7, <1>8, <1>9, <1>14
  <2> SUFFICES \A x \in Addrs : Up(x)' <=> \E m \in Names \ Reloaded : modules_map'[m] = x
    BY <2>0
  <2> TAKE x \in Addrs
  <2>1. CASE x = a
    BY <1>5, <1>6, <1>8, <1>11, <2>1 DEF Types, Up
  <2>2. CASE x # a
    <3>1. Up(x)' <=> Up(x)
      BY <1>6, <2>2 DEF Types, Up
    <3>2. modules_map[n] # x
      BY <1>5, NullAssumption DEF Loaded
    <3> QED
      BY <1>5, <1>7, <1>8, <1>14, <2>2, <3>1, <3>2
  <2> QED
    BY <2>1, <2>2
<1>21. \A x \in Addrs : life'[x] = "made" <=> \E k \in 1 .. L - 1 : stack[k].obj = x
  <2> TAKE x \in Addrs
  <2>0. \A k : k \in 1 .. L <=> k = L \/ k \in 1 .. L - 1
    BY <1>0, <1>3
  <2>1. CASE x = a
    <3>1. life'[x] \in {"live", "quiet"}
      BY <1>6, <2>1 DEF Types
    <3>2. \A k \in 1 .. L - 1 : k \in 1 .. L /\ k # L
      BY <1>0
    <3> QED
      BY <1>13, <2>1, <3>1, <3>2
  <2>2. CASE x # a
    <3>1. life'[x] = life[x]
      BY <1>6, <2>2 DEF Types
    <3> QED
      BY <1>5, <1>15, <2>0, <2>2, <3>1
  <2> QED
    BY <2>1, <2>2
<1>22. CASE L = 1
  <2>1. stack' = <<>> /\ DOMAIN stack' = {} /\ call' = NoCall /\ graph' = graph
    BY <1>3, <1>22 DEF OnLoad
  <2>2. Types'
    <3>1. call' \in Calls
      BY <2>1 DEF NoCall, Calls, Ops
    <3>2. stack' \in Seq(Frames)
      BY <2>1
    <3> QED
      BY <1>2, <1>19, <3>1, <3>2 DEF Types
  <2>3. GraphInv'
    <3>1. GraphShape(graph)'
      BY <2>1 DEF GraphInv, GraphShape
    <3>2. \A e \in graph'.out : name_of'[e.to] \in Names /\ Right(e.from, e.to)'
      BY <1>2, <2>1 DEF GraphInv, Right
    <3>3. \A x, y \in Names : Loaded(x)' /\ Loaded(y)' /\ x \in deps'[y] /\ x \notin hotfix_contexts' =>
              Edge(modules_map[x], modules_map[y])'
      BY <1>2, <1>17, <2>1 DEF Edge
    <3> QED
      BY <1>2, <1>18, <3>1, <3>2, <3>3 DEF GraphInv
  <2>4. LifeInv'
    <3>1. Reloaded' = {} /\ Pending' = {} /\ Reloaded = {}
      <4>1. call.op = "load"
        BY <1>4, <1>22
      <4> QED
        BY <2>1, <4>1, NothingReloaded DEF Reloaded, Pending, Unloading, NoCall
    <3>2. \A x \in Addrs : life'[x] # "made"
      BY <1>21, <1>22
    <3> QED
      BY <1>2, <1>20, <2>1, <3>1, <3>2 DEF LifeInv
  <2>5. StackInv'
    BY <2>1 DEF StackInv, Unloading, NoCall
  <2>6. \A m : Entered(m) <=> m = n
    BY <1>3, <1>5, <1>22 DEF Entered
  <2>7. RootsInv'
    <3>1. /\ \A m \in Names : (Loaded(m) \/ m = n) /\ deps[m] = {} => m \in roots
          /\ recycled = {} => \A m \in roots : (Loaded(m) \/ m = n) /\ deps[m] = {}
      BY <1>4, <2>6 DEF RootsInv
    <3>2. /\ \A m \in Names : Loaded(m)' /\ deps[m] = {} => m \in roots
          /\ recycled = {} => \A m \in roots : Loaded(m)' /\ deps[m] = {}
      BY <1>9, <3>1 DEF Types
    <3> QED
      BY <1>2, <2>1, <3>2 DEF RootsInv, NoCall, Entered
  <2>8. HotfixInv'
    <3>1. \A m \in hotfixs : m \in Names /\ Loaded(m)'
      BY <1>4, <1>9, <2>6, NamesAssumption DEF HotfixInv, Types
    <3> QED
      BY <1>2, <2>1, <3>1 DEF HotfixInv, NoCall
  <2> QED
    BY <1>16, <2>2, <2>3, <2>4, <2>5, <2>7, <2>8
<1>23. CASE L # 1
  <2> DEFINE s == Front(stack)
             u == Last(s)
             f == [u EXCEPT !.todo = @ \ {n}]
             M == L - 1
  <2>1. /\ s \in Seq(Frames) /\ Len(s) = M /\ M \in Nat /\ M >= 1 /\ s # <<>>
        /\ \A k \in 1 .. M : s[k] = stack[k]
        /\ u = stack[M] /\ M \in 1 .. L /\ M \in 1 .. M /\ L - 1 = M
    <3>0. stack \in Seq(Frames) /\ stack # <<>> /\ L = Len(stack) /\ L >= 1
      BY <1>3
    <3>1. /\ s \in Seq(Frames) /\ Len(s) = M /\ M \in Nat /\ M >= 1
          /\ \A k \in 1 .. M : s[k] = stack[k]
      <4>1. M \in Nat /\ M >= 1
        BY <1>0, <1>23, <3>0
      <4>2. s \in Seq(Frames) /\ Len(s) = Len(stack) - 1 /\ \A k \in 1 .. Len(stack) - 1 : s[k] = stack[k]
        BY <3>0, TopAndBelow
      <4> QED
        BY <3>0, <4>1, <4>2
    <3>2. M \in 1 .. L /\ M \in 1 .. M /\ s # <<>>
      BY <1>0, <3>1
    <3> QED
      BY <3>1, <3>2 DEF Last
  <2>2. /\ stack' = Append(Front(s), f) /\ graph' = Depend(graph, a, u.obj) /\ call' = call
    BY <1>3, <1>23 DEF OnLoad, Give, a, n
  <2> HIDE DEF s, u, M
  <2>3. /\ u \in Frames /\ u.name \in Names /\ u.obj \in Addrs 
        /\ n \in u.todo /\ u.todo \subseteq deps[u.name] /\ name_of[u.obj] = u.name
    <3>1. L > 1 /\ L \in DOMAIN stack /\ M \in DOMAIN stack
      BY <1>0, <1>3, <1>23, <2>1
    <3> QED
      BY <1>3, <1>4, <1>5, <2>1, <3>1 DEF LoadFrames
  <2>4. f \in Frames /\ f.op = u.op /\ f.name = u.name /\ f.obj = u.obj /\ f.todo = u.todo \ {n}
    BY <2>3 DEF Frames
  <2> HIDE DEF f
  <2>5. /\ stack' \in Seq(Frames) /\ stack' # <<>> /\ Len(stack') = M /\ DOMAIN stack' = 1 .. M
        /\ \A k \in 1 .. M - 1 : stack'[k] = stack[k]
        /\ stack'[M] = f
    <3>1. LET t == Append(Front(s), f)
          IN  /\ t \in Seq(Frames) /\ t # <<>> /\ Len(t) = Len(s) /\ Last(t) = f
              /\ \A k \in 1 .. Len(s) - 1 : t[k] = s[k]
              /\ t[Len(s)] = f
      <4>1. s \in Seq(Frames) /\ s # <<>> /\ f \in Frames
        BY <2>1, <2>4
      <4> QED
        BY <4>1, TopChanged
    <3>2. \A k \in 1 .. M - 1 : k \in 1 .. M
      BY <2>1
    <3> QED
      BY <2>1, <2>2, <3>1, <3>2
  <2>6. \A k \in 1 .. M : /\ stack'[k].name = stack[k].name /\ stack'[k].op = stack[k].op
                          /\ stack'[k].obj = stack[k].obj /\ k \in 1 .. L /\ k # L
    <3> TAKE k \in 1 .. M
    <3>1. k = M \/ k \in 1 .. M - 1
      BY <2>1
    <3>2. k \in 1 .. L /\ k # L
      BY <1>0, <2>1 DEF M
    <3> QED
      BY <2>1, <2>3, <2>4, <2>5, <3>1, <3>2
  <2>7. \A m : Entered(m) <=> Entered(m)' \/ m = n
    <3>1. \A k : k \in 1 .. L <=> k = L \/ k \in 1 .. M
      BY <1>0, <1>3, <2>1 DEF M
    <3>2. \A m : Entered(m)' <=> \E k \in 1 .. M : stack[k].name = m
      BY <2>5, <2>6 DEF Entered
    <3> QED
      BY <1>3, <1>5, <3>1, <3>2 DEF Entered
  <2>8. Types'
    BY <1>2, <1>19, <2>2, <2>5 DEF Types
  <2>9. GraphShape(graph') /\ graph'.out = graph.out \cup {Arc(a, u.obj, Null)}
    BY <1>5, <2>2, <2>3, ArcAdded DEF GraphInv, Depend
  <2>10. GraphInv'
    <3>1. Arc(a, u.obj, Null).from = a /\ Arc(a, u.obj, Null).to = u.obj
      BY DEF Arc
    <3>2. \A e \in graph'.out : name_of'[e.to] \in Names /\ Right(e.from, e.to)'
      BY <1>2, <1>5, <2>3, <2>9, <3>1 DEF GraphInv, Right
    <3>3. \A x, y \in Names : Loaded(x)' /\ Loaded(y)' /\ x \in deps'[y] /\ x \notin hotfix_contexts' =>
              Edge(modules_map[x], modules_map[y])'
      BY <1>2, <1>17, <2>9 DEF Edge
    <3> QED
      BY <1>2, <1>18, <2>9, <3>2, <3>3 DEF GraphInv
  <2>11. LifeInv'
    <3>1. Reloaded' = Reloaded /\ Pending' = {}
      <4>1. \A k : k \in 1 .. L <=> k = L \/ k \in 1 .. M
        BY <1>0, <1>3, <2>1 DEF M
      <4>2. {j \in DOMAIN stack' : stack'[j].op = "reload"} = {j \in DOMAIN stack : stack[j].op = "reload"}
        BY <1>1, <1>3, <2>5, <2>6, <4>1
      <4>3. \A j \in DOMAIN stack' : stack'[j].name = stack[j].name
        BY <2>5, <2>6
      <4>4. Reloaded' = Reloaded
        BY <4>2, <4>3 DEF Reloaded
      <4> QED
        BY <1>4, <2>2, <4>4 DEF Pending, Unloading
    <3>2. \A x \in Addrs : life'[x] = "made" <=>
              \E k \in DOMAIN stack' : stack'[k].op # "unload" /\ stack'[k].obj = x
      <4>1. \A k \in 1 .. M : stack[k].op \in {"load", "reload"}
        BY <1>3, <1>4, <2>6 DEF LoadFrames
      <4> QED
        BY <1>21, <2>1, <2>5, <2>6, <4>1
    <3> QED
      BY <1>2, <1>20, <3>1, <3>2 DEF LifeInv
  <2>12. StackInv'
    <3>1. Apart'
      <4>1. \A j, k \in 1 .. L : stack[j].name = stack[k].name => j = k
        BY <1>3, <1>4 DEF LoadFrames, Apart
      <4>2. \A j, k \in 1 .. M : stack'[j].name = stack'[k].name => j = k
        BY <2>6, <4>1
      <4> QED
        BY <2>5, <4>2 DEF Apart
    <3>2. ASSUME NEW k \in 1 .. M
          PROVE  LET g == stack'[k]
                 IN  /\ g.op = IF k = 1 /\ call.op = "update" THEN "reload" ELSE "load"
                     /\ g.op = "load" => modules_map'[g.name] = Null
                     /\ g.op = "reload" => modules_map'[g.name] # Null /\ g.name \in hotfix_contexts
                     /\ name_of[g.obj] = g.name
                     /\ g.todo \subseteq deps[g.name]
                     /\ \A d \in deps[g.name] \ g.todo :
                          modules_map'[d] # Null /\ Arc(modules_map'[d], g.obj, Null) \in graph'.out
                     /\ k > 1 => g.name \in stack'[k - 1].todo
      <4>1. LET g == stack[k]
            IN  /\ g.op = IF k = 1 /\ call.op = "update" THEN "reload" ELSE "load"
                /\ g.op = "load" => modules_map[g.name] = Null
                /\ g.op = "reload" => modules_map[g.name] # Null /\ g.name \in hotfix_contexts
                /\ name_of[g.obj] = g.name
                /\ g.todo \subseteq deps[g.name]
                /\ \A d \in deps[g.name] \ g.todo :
                     modules_map[d] # Null /\ Arc(modules_map[d], g.obj, Null) \in graph'.out
                /\ k > 1 => g.name \in stack[k - 1].todo
        BY <1>3, <1>4, <2>6, <2>9 DEF LoadFrames, Loaded, Edge
      <4>2. stack[k].name \in Names /\ stack[k].name # n /\ deps[stack[k].name] \subseteq Names
        BY <1>3, <1>12, <2>6
      <4>3. \A d \in Names : modules_map[d] # Null => modules_map'[d] = modules_map[d] /\ d # n
        BY <1>5, <1>7 DEF Loaded
      <4>4. modules_map'[stack[k].name] = modules_map[stack[k].name]
        BY <1>7, <4>2
      <4>5. k > 1 => stack'[k - 1] = stack[k - 1]
        BY <2>1, <2>5
      <4>6. CASE k = M
        <5>1. \A d \in deps[u.name] \ f.todo : d = n \/ d \in deps[u.name] \ u.todo
          BY <2>4
        <5>2. modules_map'[n] # Null /\ Arc(modules_map'[n], u.obj, Null) \in graph'.out
          BY <1>5, <1>8, <2>9, NullAssumption
        <5>3. stack[k] = u /\ stack'[k] = f
          BY <2>1, <2>5, <4>6
        <5>4. \A d \in deps[f.name] \ f.todo :
                 modules_map'[d] # Null /\ Arc(modules_map'[d], f.obj, Null) \in graph'.out
          BY <2>4, <4>1, <4>2, <4>3, <5>1, <5>2, <5>3
        <5> QED
          BY <2>4, <4>1, <4>4, <4>5, <5>3, <5>4
      <4>7. CASE k \in 1 .. M - 1
        <5>1. stack'[k] = stack[k]
          BY <2>5, <4>7
        <5>2. \A d \in deps[stack[k].name] \ stack[k].todo :
                 modules_map'[d] # Null /\ Arc(modules_map'[d], stack[k].obj, Null) \in graph'.out
          BY <4>1, <4>2, <4>3
        <5> QED
          BY <4>1, <4>4, <4>5, <5>1, <5>2
      <4>8. k = M \/ k \in 1 .. M - 1
        BY <2>1
      <4> QED
        BY <4>6, <4>7, <4>8
    <3>3. LoadFrames'
      BY <1>2, <2>2, <2>5, <3>1, <3>2 DEF LoadFrames, Loaded, Edge
    <3> QED
      BY <1>4, <2>2, <2>5, <3>3 DEF StackInv, Unloading
  <2>13. RootsInv'
    <3>1. /\ \A m \in Names : (Loaded(m) \/ Entered(m)) /\ deps[m] = {} => m \in roots
          /\ recycled = {} => \A m \in roots : (Loaded(m) \/ Entered(m)) /\ deps[m] = {}
      BY <1>4 DEF RootsInv
    <3>2. /\ \A m \in Names : (Loaded(m)' \/ Entered(m)') /\ deps[m] = {} => m \in roots
          /\ recycled = {} => \A m \in roots : (Loaded(m)' \/ Entered(m)') /\ deps[m] = {}
      BY <1>9, <2>7, <3>1 DEF Types
    <3> QED
      BY <1>2, <1>4, <2>2, <3>2 DEF RootsInv
  <2>14. HotfixInv'
    <3>1. \A m \in hotfixs : m \in Names /\ (Loaded(m)' \/ Entered(m)')
      BY <1>4, <1>9, <2>7, NamesAssumption DEF HotfixInv, Types
    <3> QED
      BY <1>2, <1>4, <2>2, <3>1 DEF HotfixInv
  <2> QED
    BY <1>16, <2>8, <2>10, <2>11, <2>12, <2>13, <2>14
<1> QED
  BY <1>22, <1>23

\* Every step of a load.
LEMMA LoadKeeps ==
    ASSUME MInv, LoadStep
    PROVE  MInv'
<1>1. ASSUME NEW n \in Names, load(n) PROVE MInv'
  <2>1. call' \in Calls /\ call'.op = "load" /\ call.op = "none" /\ ~Loaded(n) /\ Enter(n)
    BY <1>1 DEF load, NoCall, Calls, Ops, Idle
  <2> QED
    BY <2>1, EnterKeeps
<1>2. ASSUME NEW n \in Names, LoadDependency(n), ~Loaded(n) PROVE MInv'
  <2>1. Types /\ StackInv
    BY DEF MInv
  <2>2. Loading /\ n \in Top.todo /\ Enter(n) /\ call' = call
    BY <1>2 DEF LoadDependency
  <2>3. call.op \in {"load", "update"} /\ stack # <<>> /\ call' \in Calls
    BY <2>1, <2>2, WhoLoads DEF Types
  <2> QED
    BY <1>2, <2>2, <2>3, EnterKeeps
<1>3. ASSUME NEW n \in Names, LoadDependency(n), Loaded(n) PROVE MInv'
  BY <1>3, GivenKeeps
<1>4. ASSUME OnLoad PROVE MInv'
  BY <1>4, OnLoadKeeps
<1> QED
  BY <1>1, <1>2, <1>3, <1>4 DEF LoadStep

-----------------------------------------------------------------------------
(* Unloads.                                                                *)

\* A step that leaves the graph, the map and the metadata.
LEMMA QuietGraph ==
    ASSUME GraphInv, UNCHANGED <<deps, name_of, recycled, modules_map, graph>>,
           hotfix_contexts \subseteq hotfix_contexts'
    PROVE  GraphInv'
BY DEF GraphInv, GraphShape, Loaded, Edge, Right

\* The beginning of unload and destroy.
LEMMA StartKeeps ==
    ASSUME MInv, NEW op \in {"unload", "destroy"}, NEW n \in Names \cup {Null}, NEW walk \in SUBSET Names,
           Start(op, n, walk), op = "unload" => walk = {n}, op = "destroy" => walk = roots
    PROVE  MInv'
<1> USE DEF MInv
<1>1. /\ Idle /\ destruction' = <<>>
      /\ call' = [op |-> op, arg |-> n, walk |-> walk, done |-> 0]
      /\ deps' = deps /\ life' = life /\ name_of' = name_of /\ modules_map' = modules_map
      /\ recycled' = recycled
      /\ roots' = roots /\ hotfixs' = hotfixs /\ graph' = graph
      /\ hotfix_contexts' = hotfix_contexts /\ stack' = stack
      /\ version' = version /\ next_version' = next_version /\ file' = file
  BY DEF Start, objVars, mapVars, fileVars
<1>2. call.op = "none" /\ stack = <<>> /\ DOMAIN stack = {}
  BY <1>1 DEF StackInv, Idle
<1>3. /\ call'.op = op /\ call'.arg = n /\ call'.walk = walk /\ call'.done = 0 /\ call' \in Calls
      /\ Unloading'
  BY <1>1 DEF Calls, Ops, Unloading
<1>4. \A m : (Loaded(m)' <=> Loaded(m)) /\ (IsRoot(m)' <=> IsRoot(m)) /\ ~Entered(m)
  BY <1>1, <1>2 DEF Loaded, IsRoot, Entered
<1>5. Types'
  BY <1>1, <1>3 DEF Types
<1>6. VersionsInv' /\ GraphInv'
  BY <1>1, QuietGraph DEF VersionsInv
<1>7. LifeInv'
  <2>1. Reloaded = {} /\ Reloaded' = {} /\ Pending = {}
    BY <1>1, <1>2 DEF Reloaded, Pending, Unloading
  <2>2. Pending' = {}
    BY <1>1, <1>3 DEF Pending
  <2> QED
    BY <1>1, <1>2, <1>4, <2>1, <2>2 DEF LifeInv, Up
<1>8. StackInv'
  <2>1. UnloadFrames'
    BY <1>1, <1>2 DEF UnloadFrames, Apart
  <2>2. DestructionInv'
    BY <1>1, <1>3 DEF DestructionInv
  <2> QED
    BY <1>3, <2>1, <2>2 DEF StackInv
<1>9. RootsInv'
  <2>1. /\ \A m \in Names : IsRoot(m) => m \in roots
        /\ recycled = {} => \A m \in roots : IsRoot(m)
    BY <1>2, <1>4 DEF RootsInv, IsRoot
  <2> QED
    BY <1>1, <1>3, <1>4, <2>1 DEF RootsInv
<1>10. HotfixInv'
  <2>1. \A m \in hotfixs : Loaded(m)
    BY <1>2, <1>4 DEF HotfixInv, Unloading
  <2> QED
    BY <1>1, <1>3, <1>4, <2>1 DEF HotfixInv
<1> QED
  BY <1>5, <1>6, <1>7, <1>8, <1>9, <1>10

\* What an unload finds in force.
LEMMA WhoUnloads ==
    ASSUME Types, StackInv, Unloading
    PROVE  /\ UnloadFrames /\ DestructionInv /\ Reloaded = {}
           /\ call.op \in {"unload", "destroy"} /\ call.op \notin {"none", "load", "update", "broken", "endless"}
           /\ \A k \in DOMAIN stack : stack[k].op = "unload"
BY NothingReloaded DEF StackInv, Unloading, UnloadFrames

\* The loaded users of a module are among its neighbours.
LEMMA UsersAreNeighbors ==
    ASSUME MInv, NEW n \in Names, Loaded(n)
    PROVE  /\ Neighbors(graph, modules_map[n]) \subseteq Addrs
           /\ \A x \in Neighbors(graph, modules_map[n]) : Edge(modules_map[n], x)
           /\ \A u \in Names : Loaded(u) /\ n \in deps[u] /\ n \notin hotfix_contexts =>
                 modules_map[u] \in Neighbors(graph, modules_map[n])
<1>1. GraphInv /\ GraphShape(graph)
  BY DEF MInv, GraphInv
<1>2. \A x : x \in Neighbors(graph, modules_map[n]) <=> Edge(modules_map[n], x)
  BY <1>1, NeighborsAreEdges
<1>3. \A x : Edge(modules_map[n], x) => x \in Addrs
  <2> SUFFICES ASSUME NEW x, Edge(modules_map[n], x) PROVE x \in Addrs
    OBVIOUS
  <2>1. Arc(modules_map[n], x, Null) \in Arcs
    BY <1>1 DEF Edge, GraphShape, Graphs
  <2>2. Arc(modules_map[n], x, Null).to \in Addrs
    BY <2>1 DEF Arcs
  <2> QED
    BY <2>2 DEF Arc
<1> QED
  BY <1>1, <1>2, <1>3 DEF GraphInv

\* The next of the modules an unload was asked for.
LEMMA UnloadNextKeeps ==
    ASSUME MInv, UnloadNext
    PROVE  MInv'
<1> USE DEF MInv
<1> PICK n \in call.walk : stack' = Visit(<<>>, n) /\ call' = [call EXCEPT !.walk = @ \ {n}]
  BY DEF UnloadNext
<1>1. /\ Unloading /\ stack = <<>> /\ DOMAIN stack = {}
      /\ deps' = deps /\ life' = life /\ name_of' = name_of /\ modules_map' = modules_map
      /\ recycled' = recycled
      /\ roots' = roots /\ hotfixs' = hotfixs /\ graph' = graph /\ destruction' = destruction
      /\ hotfix_contexts' = hotfix_contexts
      /\ version' = version /\ next_version' = next_version /\ file' = file
  BY DEF UnloadNext, objVars, mapVars, fileVars
<1>2. /\ UnloadFrames /\ DestructionInv /\ Reloaded = {}
      /\ call.op \in {"unload", "destroy"} /\ call.op \notin {"none", "load", "update", "broken", "endless"}
  BY <1>1, WhoUnloads
<1>3. /\ n \in Names /\ call.walk \subseteq Names /\ call \in Calls
  BY Typed DEF Types
<1>4. /\ call'.op = call.op /\ call'.arg = call.arg /\ call'.walk = call.walk \ {n}
      /\ call'.done = call.done /\ call' \in Calls /\ Unloading'
  BY <1>1, <1>3 DEF Calls, Unloading
<1>5. call.done = 0 /\ call'.done = 0
  BY <1>2, <1>4 DEF DestructionInv
<1>6. \A m : (Loaded(m)' <=> Loaded(m)) /\ (IsRoot(m)' <=> IsRoot(m)) /\ ~Entered(m)
  BY <1>1 DEF Loaded, IsRoot, Entered
<1> DEFINE f == Frame("unload", n, modules_map[n], Neighbors(graph, modules_map[n]))
<1>7. Loaded(n) => /\ f \in Frames /\ f.op = "unload" /\ f.name = n /\ f.obj = modules_map[n]
                   /\ f.todo = Neighbors(graph, modules_map[n])
                   /\ stack' = <<f>> /\ Len(stack') = 1 /\ DOMAIN stack' = {1} /\ stack'[1] = f
                   /\ stack' # <<>> /\ stack' \in Seq(Frames)
  <2> SUFFICES ASSUME Loaded(n)
               PROVE  /\ f \in Frames /\ f.op = "unload" /\ f.name = n /\ f.obj = modules_map[n]
                      /\ f.todo = Neighbors(graph, modules_map[n])
                      /\ stack' = <<f>> /\ Len(stack') = 1 /\ DOMAIN stack' = {1} /\ stack'[1] = f
                      /\ stack' # <<>> /\ stack' \in Seq(Frames)
    OBVIOUS
  <2>1. modules_map[n] \in Addrs /\ Neighbors(graph, modules_map[n]) \subseteq Addrs
    BY <1>3, Typed, UsersAreNeighbors
  <2>2. /\ f \in Frames /\ f.op = "unload" /\ f.name = n /\ f.obj = modules_map[n]
        /\ f.todo = Neighbors(graph, modules_map[n])
    BY <1>3, <2>1 DEF Frame, Frames
  <2>3. stack' = Append(<<>>, f)
    BY <1>3, NullAssumption DEF Visit
  <2> HIDE DEF f
  <2>4. stack' = <<f>>
    BY <2>3
  <2>5. Len(stack') = 1 /\ DOMAIN stack' = {1} /\ stack'[1] = f /\ stack' # <<>>
    BY <2>4
  <2>6. stack' \in Seq(Frames)
    <3>1. <<>> \in Seq(Frames) /\ f \in Frames
      BY <2>2
    <3>2. Append(<<>>, f) \in Seq(Frames)
      BY <3>1, AppendProperties
    <3> QED
      BY <2>3, <3>2
  <2> QED
    BY <2>2, <2>4, <2>5, <2>6
<1>8. ~Loaded(n) => stack' = <<>> /\ DOMAIN stack' = {}
  BY DEF Visit
<1> HIDE DEF f
<1>9. Types'
  BY <1>1, <1>4, <1>7, <1>8 DEF Types
<1>10. VersionsInv' /\ GraphInv'
  BY <1>1, QuietGraph DEF VersionsInv
<1>11. \A k \in DOMAIN stack' : stack'[k].op = "unload"
  BY <1>7, <1>8
<1>12. LifeInv'
  <2>1. Reloaded' = {} /\ Pending' = Pending
    BY <1>1, <1>4, <1>11 DEF Reloaded, Pending
  <2> QED
    BY <1>1, <1>2, <1>4, <1>6, <1>11, <2>1 DEF LifeInv, Up
<1>13. StackInv'
  <2>1. UnloadFrames'
    <3>1. CASE ~Loaded(n)
      BY <1>8, <3>1 DEF UnloadFrames, Apart
    <3>2. CASE Loaded(n)
      <4>1. \A x \in f.todo : Arc(f.obj, x, Null) \in graph'.out
        BY <1>1, <1>3, <1>7, <3>2, UsersAreNeighbors DEF Edge
      <4>2. \A u \in Names : Loaded(u)' /\ f.name \in deps'[u] /\ f.name \notin hotfix_contexts' =>
                modules_map'[u] \in f.todo
        BY <1>1, <1>3, <1>6, <1>7, <3>2, UsersAreNeighbors
      <4>3. Loaded(n)' /\ f.obj = modules_map'[f.name]
        BY <1>1, <1>6, <1>7, <3>2
      <4>4. call'.op = "unload" => n = call'.arg
        BY <1>4 DEF RootsInv
      <4>5. Apart'
        BY <1>7, <3>2 DEF Apart
      <4>6. \A k \in DOMAIN stack' : k = 1 /\ stack'[k] = f
        BY <1>7, <3>2
      <4>7. \A k \in DOMAIN stack' :
               LET g == stack'[k]
               IN  /\ g.op = "unload" /\ Loaded(n)' /\ g.name = n /\ g.obj = modules_map'[g.name]
                   /\ \A x \in g.todo : Arc(g.obj, x, Null) \in graph'.out
                   /\ \A u \in Names : Loaded(u)' /\ g.name \in deps'[u] /\ g.name \notin hotfix_contexts' =>
                          modules_map'[u] \in g.todo
                   /\ ~(k > 1)
        BY <1>7, <3>2, <4>1, <4>2, <4>3, <4>6
      <4>8. stack'[1].name = n
        BY <1>7, <3>2
      <4> QED
        BY <4>4, <4>5, <4>7, <4>8 DEF UnloadFrames, Loaded, Edge
    <3> QED
      BY <3>1, <3>2
  <2>2. DestructionInv'
    BY <1>1, <1>2, <1>4, <1>5, <1>6 DEF DestructionInv, Loaded
  <2> QED
    BY <1>2, <1>4, <2>1, <2>2 DEF StackInv
<1>14. RootsInv'
  <2>1. call.op = "unload" => n = call.arg
    BY DEF RootsInv
  <2>2. \A m \in Names : m \in call.walk /\ Loaded(m) =>
             m \in call'.walk \/ (stack' # <<>> /\ stack'[1].name = m)
    BY <1>4, <1>7
  <2>3. call.op = "unload" =>
          /\ call.walk \subseteq {call.arg}
          /\ \A m \in Names : m # call.arg /\ IsRoot(m) => m \in roots
          /\ recycled = {} => \A m \in roots : m # call.arg => IsRoot(m)
          /\ \A m \in Names : m = call.arg /\ Loaded(m) => m \in call.walk
    BY <1>1 DEF RootsInv
  <2>4. call.op = "destroy" => \A m \in Names : IsRoot(m) => m \in call.walk /\ Loaded(m)
    BY <1>1 DEF RootsInv, IsRoot
  <2> QED
    BY <1>1, <1>2, <1>4, <1>6, <2>2, <2>3, <2>4 DEF RootsInv, Types
<1>15. HotfixInv'
  BY <1>1, <1>2, <1>4, <1>6 DEF HotfixInv
<1> QED
  BY <1>9, <1>10, <1>12, <1>13, <1>14, <1>15

\* A user that foreach_neighbors yields: its name, of a live one or of a dead one whose
\* bytes are still there, is that of a module that depends on the top's, but for recycled
\* addresses.
LEMMA UserRead ==
    ASSUME MInv, Unloading, stack # <<>>, NEW a \in Top.todo, NEW n \in NameRead(a)
    PROVE  /\ a \in Addrs /\ name_of[a] \in Names /\ Top.name \in Names
           /\ \/ Top.name \in deps[name_of[a]]
              \/ ({Top.obj} \cup Neighbors(graph, Top.obj)) \cap recycled # {}
           /\ n # Null => n = name_of[a]
           /\ \A u \in Names : Loaded(u) /\ modules_map[u] = a => n = u
<1>1. Types /\ StackInv /\ GraphInv /\ UnloadFrames /\ Reloaded = {}
  BY WhoUnloads DEF MInv
<1>2. Len(stack) \in DOMAIN stack /\ Top = stack[Len(stack)] /\ Top.name \in Names
  BY <1>1, Typed DEF Top, Last
<1>3. Loaded(Top.name) /\ Top.obj = modules_map[Top.name] /\ Edge(Top.obj, a)
  BY <1>1, <1>2 DEF UnloadFrames
<1>4. Arc(Top.obj, a, Null) \in graph.out /\ Arc(Top.obj, a, Null) \in Arcs
      /\ Arc(Top.obj, a, Null).from = Top.obj /\ Arc(Top.obj, a, Null).to = a
  BY <1>1, <1>3 DEF Edge, GraphInv, GraphShape, Graphs, Arc
<1>5. a \in Addrs
  BY <1>4 DEF Arcs
<1>6. name_of[a] \in Names /\ Right(Top.obj, a)
  BY <1>1, <1>4 DEF GraphInv
<1>7. name_of[Top.obj] = Top.name
  BY <1>1, <1>2, <1>3, WhoUnloads, LoadedIsUp
<1>8. \/ Top.name \in deps[name_of[a]]
      \/ ({Top.obj} \cup Neighbors(graph, Top.obj)) \cap recycled # {}
  <2>1. a \in Neighbors(graph, Top.obj)
    BY <1>4 DEF Neighbors
  <2> QED
    BY <1>6, <1>7, <2>1 DEF Right
<1>9. n # Null => n = name_of[a]
  BY DEF NameRead
<1>10. ASSUME NEW u \in Names, Loaded(u), modules_map[u] = a PROVE n = u
  <2>1. Up(a) /\ name_of[a] = u
    BY <1>1, <1>10, WhoUnloads, LoadedIsUp
  <2> QED
    BY <2>1 DEF NameRead, Up
<1> QED
  BY <1>2, <1>5, <1>6, <1>8, <1>9, <1>10

\* A user of the module on top: nothing for one that is gone, or an activation for it.
LEMMA UnloadUserKeeps ==
    ASSUME MInv, NEW a \in Addrs, UnloadUser(a)
    PROVE  MInv'
<1> USE DEF MInv
<1> DEFINE L == Len(stack)
           f == [Top EXCEPT !.todo = @ \ {a}]
           s == Append(Front(stack), f)
<1>0. L \in Nat
  BY Typed
<1>1. /\ Unloading /\ stack # <<>> /\ a \in Top.todo
      /\ deps' = deps /\ life' = life /\ name_of' = name_of /\ modules_map' = modules_map
      /\ recycled' = recycled
      /\ roots' = roots /\ hotfixs' = hotfixs /\ graph' = graph /\ destruction' = destruction
      /\ hotfix_contexts' = hotfix_contexts
      /\ version' = version /\ next_version' = next_version /\ file' = file
  BY DEF UnloadUser, objVars, mapVars, fileVars
<1> PICK n \in NameRead(a) :
       /\ stack' = Visit(s, n)
       /\ call' = IF \E i \in DOMAIN stack : stack[i].name = n
                  THEN [call EXCEPT !.op = "endless"] ELSE call
  BY DEF UnloadUser
<1>2. /\ UnloadFrames /\ DestructionInv /\ Reloaded = {}
      /\ call.op \in {"unload", "destroy"} /\ call.op \notin {"none", "load", "update", "broken", "endless"}
      /\ \A k \in DOMAIN stack : stack[k].op = "unload"
  BY <1>1, WhoUnloads
<1>3. /\ deps \in [Names -> SUBSET Names] /\ L >= 1 /\ DOMAIN stack = 1 .. L
      /\ \A k \in 1 .. L : stack[k] \in Frames /\ stack[k].name \in Names /\ stack[k].obj \in Addrs
      /\ Top = stack[L] /\ stack \in Seq(Frames) /\ L = Len(stack) /\ L \in 1 .. L
  BY <1>1, Typed DEF Types, Last, Top
<1>4. /\ name_of[a] \in Names /\ Top.name \in Names
      /\ \/ Top.name \in deps[name_of[a]]
         \/ ({Top.obj} \cup Neighbors(graph, Top.obj)) \cap recycled # {}
      /\ n # Null => n = name_of[a]
      /\ \A u \in Names : Loaded(u) /\ modules_map[u] = a => n = u
  BY <1>1, UserRead
<1>5. f \in Frames /\ f.op = "unload" /\ f.name = Top.name /\ f.obj = Top.obj /\ f.todo = Top.todo \ {a}
  BY <1>2, <1>3 DEF Frames
<1> HIDE DEF f, L
<1>6. /\ s \in Seq(Frames) /\ s # <<>> /\ Len(s) = L
      /\ \A k \in 1 .. L - 1 : s[k] = stack[k]
      /\ s[L] = f
  <2>1. stack \in Seq(Frames) /\ stack # <<>> /\ f \in Frames
    BY <1>1, <1>3, <1>5
  <2>2. LET t == Append(Front(stack), f)
        IN  /\ t \in Seq(Frames) /\ t # <<>> /\ Len(t) = Len(stack) /\ Last(t) = f
            /\ \A k \in 1 .. Len(stack) - 1 : t[k] = stack[k]
            /\ t[Len(stack)] = f
    BY <2>1, TopChanged
  <2>3. L = Len(stack)
    BY <1>3
  <2> QED
    BY <2>2, <2>3
<1> HIDE DEF s
<1>7. \A k \in 1 .. L : /\ s[k].name = stack[k].name /\ s[k].op = stack[k].op
                        /\ s[k].obj = stack[k].obj /\ s[k].todo \subseteq stack[k].todo
  <2> TAKE k \in 1 .. L
  <2>1. k = L \/ k \in 1 .. L - 1
    BY <1>0
  <2>2. CASE k = L
    <3>1. s[k] = f /\ stack[k] = Top
      BY <1>3, <1>6, <2>2
    <3>2. f.name = Top.name /\ f.op = Top.op /\ f.obj = Top.obj /\ f.todo \subseteq Top.todo
      <4>1. L \in DOMAIN stack
        BY <1>3
      <4> QED
        BY <1>2, <1>3, <1>5, <4>1
    <3> QED
      BY <3>1, <3>2
  <2>3. CASE k \in 1 .. L - 1
    BY <1>6, <2>3
  <2> QED
    BY <2>1, <2>2, <2>3
<1>8. VersionsInv' /\ GraphInv'
  BY <1>1, QuietGraph DEF VersionsInv
<1>9. call' = call => DestructionInv'
  <2>1. call.done = 0
    BY <1>1, <1>2 DEF DestructionInv
  <2> QED
    BY <1>1, <1>2, <2>1 DEF DestructionInv, Loaded
\* Of the frames below, and of the top but for the users whose object is a.
<1>10. ASSUME NEW k \in 1 .. L
       PROVE  /\ s[k].op = "unload" /\ modules_map[s[k].name] # Null
              /\ s[k].obj = modules_map[s[k].name] /\ s[k].name = stack[k].name
              /\ \A x \in s[k].todo : Arc(s[k].obj, x, Null) \in graph.out
              /\ \A u \in Names :
                    modules_map[u] # Null /\ s[k].name \in deps[u] /\ s[k].name \notin hotfix_contexts =>
                    modules_map[u] \in s[k].todo \/ (k < L /\ s[k + 1].name = u)
                    \/ (k = L /\ modules_map[u] = a)
              /\ k > 1 => \/ s[k - 1].name \in deps[s[k].name]
                          \/ ({s[k - 1].obj} \cup Neighbors(graph, s[k - 1].obj)) \cap recycled # {}
  <2>1. LET g == stack[k]
        IN  /\ g.op = "unload" /\ modules_map[g.name] # Null /\ g.obj = modules_map[g.name]
            /\ \A x \in g.todo : Arc(g.obj, x, Null) \in graph.out
            /\ \A u \in Names : modules_map[u] # Null /\ g.name \in deps[u] /\ g.name \notin hotfix_contexts =>
                  modules_map[u] \in g.todo \/ (k < L /\ stack[k + 1].name = u)
            /\ k > 1 => \/ stack[k - 1].name \in deps[g.name]
                        \/ ({stack[k - 1].obj} \cup Neighbors(graph, stack[k - 1].obj)) \cap recycled # {}
    BY <1>2, <1>3 DEF UnloadFrames, Loaded, Edge, Needed
  <2>2. /\ k < L => s[k + 1].name = stack[k + 1].name
        /\ k > 1 => s[k - 1].name = stack[k - 1].name /\ s[k - 1].obj = stack[k - 1].obj
    <3>1. (k < L => k + 1 \in 1 .. L) /\ (k > 1 => k - 1 \in 1 .. L)
      BY <1>0
    <3> QED
      BY <1>7, <3>1
  <2>3. \A x : x \in stack[k].todo => x \in s[k].todo \/ (k = L /\ x = a)
    <3>1. k = L \/ k \in 1 .. L - 1
      BY <1>0
    <3> QED
      BY <1>3, <1>5, <1>6, <3>1
  <2> QED
    BY <1>7, <2>1, <2>2, <2>3
<1>11. \A j, k \in 1 .. L : s[j].name = s[k].name => j = k
  BY <1>2, <1>3, <1>7 DEF UnloadFrames, Apart
<1>12. CASE n = Null \/ ~Loaded(n)
  <2>0. call' = call
    BY <1>2, <1>3, <1>12, NullAssumption DEF UnloadFrames
  <2>1. /\ stack' = s /\ stack' \in Seq(Frames) /\ Len(stack') = L /\ stack' # <<>>
        /\ DOMAIN stack' = 1 .. L
    BY <1>6, <1>12 DEF Visit
  <2>2. \A u \in Names : Loaded(u) => modules_map[u] # a
    BY <1>4, <1>12, NullAssumption
  <2>3. LifeInv' /\ RootsInv' /\ HotfixInv'
    <3>1. UNCHANGED <<deps, objVars, mapVars, destruction, call>>
      BY <1>1, <2>0 DEF objVars, mapVars
    <3>2. \A k \in 1 .. Len(stack) : /\ stack'[k].name = stack[k].name /\ stack'[k].op = stack[k].op
                                     /\ stack'[k].obj = stack[k].obj
      BY <1>3, <1>7, <2>1
    <3> QED
      BY <1>3, <2>1, <3>1, <3>2, SameActivations
  <2>4. Types'
    BY <1>1, <2>0, <2>1 DEF Types
  <2>5. UnloadFrames'
    <3>1. ASSUME NEW k \in 1 .. L
          PROVE  /\ s[k].op = "unload" /\ modules_map[s[k].name] # Null
                 /\ s[k].obj = modules_map[s[k].name]
                 /\ \A x \in s[k].todo : Arc(s[k].obj, x, Null) \in graph.out
                 /\ \A u \in Names :
                       modules_map[u] # Null /\ s[k].name \in deps[u] /\ s[k].name \notin hotfix_contexts =>
                       modules_map[u] \in s[k].todo \/ (k < Len(s) /\ s[k + 1].name = u)
                 /\ k > 1 => \/ s[k - 1].name \in deps[s[k].name]
                             \/ ({s[k - 1].obj} \cup Neighbors(graph, s[k - 1].obj)) \cap recycled # {}
      BY <1>6, <1>10, <2>2 DEF Loaded
    <3>2. call.op = "unload" => s[1].name = call.arg
      <4>1. s[1].name = stack[1].name
        BY <1>0, <1>3, <1>7
      <4> QED
        BY <1>1, <1>2, <4>1 DEF UnloadFrames
    <3> QED
      BY <1>1, <1>11, <2>0, <2>1, <3>1, <3>2 DEF UnloadFrames, Apart, Loaded, Edge, Needed
  <2>6. StackInv'
    BY <1>1, <1>2, <1>9, <2>0, <2>5 DEF StackInv, Unloading
  <2> QED
    BY <1>8, <2>3, <2>4, <2>6
<1>13. CASE n # Null /\ Loaded(n)
  <2> DEFINE h == Frame("unload", n, modules_map[n], Neighbors(graph, modules_map[n]))
  <2>1. /\ n = name_of[a] /\ n \in Names
        /\ \/ Top.name \in deps[n]
           \/ ({Top.obj} \cup Neighbors(graph, Top.obj)) \cap recycled # {}
    BY <1>4, <1>13
  <2>2. /\ h \in Frames /\ h.op = "unload" /\ h.name = n /\ h.obj = modules_map[n]
        /\ h.todo = Neighbors(graph, modules_map[n])
    <3>1. modules_map[n] \in Addrs /\ Neighbors(graph, modules_map[n]) \subseteq Addrs
      BY <1>13, <2>1, Typed, UsersAreNeighbors
    <3> QED
      BY <2>1, <3>1 DEF Frame, Frames
  <2>3. stack' = Append(s, h)
    BY <1>13 DEF Visit
  <2> HIDE DEF h
  <2>4. /\ stack' \in Seq(Frames) /\ stack' # <<>> /\ Len(stack') = L + 1
        /\ \A k \in 1 .. L : stack'[k] = s[k]
        /\ stack'[L + 1] = h /\ DOMAIN stack' = 1 .. L + 1
    <3>1. /\ stack' \in Seq(Frames) /\ stack' # <<>> /\ Len(stack') = Len(s) + 1
          /\ \A k \in 1 .. Len(s) : stack'[k] = s[k]
          /\ stack'[Len(s) + 1] = h
      BY <1>6, <2>2, <2>3, Pushed
    <3> QED
      BY <1>6, <3>1
  <2>5. \A k : k \in 1 .. L + 1 <=> k = L + 1 \/ k \in 1 .. L
    BY <1>0
  <2>6. \A k \in DOMAIN stack' : stack'[k].op = "unload"
    BY <1>10, <2>2, <2>4, <2>5
  <2>7. \A m : (Loaded(m)' <=> Loaded(m)) /\ (IsRoot(m)' <=> IsRoot(m))
    BY <1>1 DEF Loaded, IsRoot
  <2>8. Types'
    <3>1. call' \in Calls
      BY DEF Types, Calls, Ops
    <3> QED
      BY <1>1, <2>4, <3>1 DEF Types
  <2>9. ASSUME NEW k \in 1 .. L + 1
        PROVE  /\ stack'[k].op = "unload" /\ modules_map[stack'[k].name] # Null
               /\ stack'[k].obj = modules_map[stack'[k].name]
               /\ \A x \in stack'[k].todo : Arc(stack'[k].obj, x, Null) \in graph.out
               /\ \A u \in Names : modules_map[u] # Null /\ stack'[k].name \in deps[u]
                                   /\ stack'[k].name \notin hotfix_contexts =>
                     modules_map[u] \in stack'[k].todo \/ (k < L + 1 /\ stack'[k + 1].name = u)
               /\ k > 1 =>
                     \/ stack'[k - 1].name \in deps[stack'[k].name]
                     \/ ({stack'[k - 1].obj} \cup Neighbors(graph, stack'[k - 1].obj)) \cap recycled # {}
    <3>1. CASE k = L + 1
      <4>1. \A x \in h.todo : Arc(h.obj, x, Null) \in graph.out
        BY <1>13, <2>1, <2>2, UsersAreNeighbors DEF Edge
      <4>2. \A u \in Names : modules_map[u] # Null /\ n \in deps[u] /\ n \notin hotfix_contexts =>
                modules_map[u] \in h.todo
        BY <1>13, <2>1, <2>2, UsersAreNeighbors DEF Loaded
      <4>3. k - 1 = L /\ stack'[L].name = Top.name /\ stack'[L].obj = Top.obj
        BY <1>0, <1>3, <1>7, <2>4, <3>1
      <4>4. modules_map[n] # Null
        BY <1>13 DEF Loaded
      <4> QED
        BY <2>1, <2>2, <2>4, <3>1, <4>1, <4>2, <4>3, <4>4
    <3>2. CASE k \in 1 .. L
      <4>1. stack'[k] = s[k]
        BY <2>4, <3>2
      <4>2. k > 1 => stack'[k - 1] = s[k - 1]
        <5>1. k > 1 => k - 1 \in 1 .. L
          BY <1>0, <3>2
        <5> QED
          BY <2>4, <5>1
      <4>3. \A u \in Names :
               modules_map[u] # Null /\ s[k].name \in deps[u] /\ s[k].name \notin hotfix_contexts =>
               modules_map[u] \in s[k].todo \/ (k < L + 1 /\ stack'[k + 1].name = u)
        <5> TAKE u \in Names
        <5> HAVE modules_map[u] # Null /\ s[k].name \in deps[u] /\ s[k].name \notin hotfix_contexts
        <5>1. k < L + 1
          BY <1>0, <3>2
        <5>2. CASE modules_map[u] \in s[k].todo
          BY <5>2
        <5>3. CASE k < L /\ s[k + 1].name = u
          <6>1. k + 1 \in 1 .. L
            BY <1>0, <3>2, <5>3
          <6> QED
            BY <2>4, <5>1, <5>3, <6>1
        <5>4. CASE k = L /\ modules_map[u] = a
          BY <1>4, <2>2, <2>4, <5>1, <5>4 DEF Loaded
        <5> QED
          BY <1>10, <3>2, <5>2, <5>3, <5>4
      <4> QED
        BY <1>10, <3>2, <4>1, <4>2, <4>3
    <3> QED
      BY <2>5, <3>1, <3>2
  <2>10. CASE Entered(n)
    <3>1. call'.op = "endless"
      <4>1. call' = [call EXCEPT !.op = "endless"]
        BY <2>10 DEF Entered
      <4> QED
        BY <4>1 DEF Types, Calls
    <3>2. recycled # {}
      BY <1>1, <1>2, <2>1, <2>10, UnloadsNoCircle
    <3>3. EndlessFrames'
      <4>1. \A m \in Names : Loaded(m) => Up(modules_map[m]) /\ name_of[modules_map[m]] = m
        BY <1>2, LoadedIsUp
      <4> QED
        BY <1>1, <2>4, <2>9, <3>2, <4>1 DEF EndlessFrames, Needed, Loaded, Up
    <3>4. LifeInv' /\ RootsInv' /\ HotfixInv' /\ StackInv'
      BY <3>1, <3>3 DEF LifeInv, RootsInv, HotfixInv, StackInv, Unloading
    <3> QED
      BY <1>8, <2>8, <3>4
  <2>11. CASE ~Entered(n)
    <3>1. call' = call
      BY <2>11 DEF Entered
    <3>2. \A k \in 1 .. L : stack[k].name # n
      BY <1>3, <2>11 DEF Entered
    <3>3. \A m : Entered(m)' <=> Entered(m) \/ m = n
      <4>1. L + 1 \in 1 .. L + 1
        BY <2>5
      <4> QED
        BY <1>3, <1>7, <2>2, <2>4, <2>5, <4>1 DEF Entered
    <3>4. stack'[1].name = stack[1].name
      <4>1. 1 \in 1 .. L
        BY <1>0, <1>3
      <4> QED
        BY <1>7, <2>4, <4>1
    <3>5. LifeInv'
      <4>1. Reloaded' = {} /\ Pending' = Pending
        BY <1>1, <2>6, <3>1 DEF Reloaded, Pending, Unloading
      <4> QED
        BY <1>1, <1>2, <2>6, <2>7, <3>1, <4>1 DEF LifeInv, Up
    <3>6. RootsInv'
      <4>1. call.op = "unload" =>
              /\ call.walk \subseteq {call.arg}
              /\ \A m \in Names : m # call.arg /\ IsRoot(m) => m \in roots
              /\ recycled = {} => \A m \in roots : m # call.arg => IsRoot(m)
        BY DEF RootsInv
      <4>2. call.op = "destroy" => \A m \in Names : IsRoot(m) => m \in call.walk \/ stack[1].name = m
        BY DEF RootsInv
      <4> QED
        BY <1>1, <1>2, <2>4, <2>7, <3>1, <3>4, <4>1, <4>2 DEF RootsInv
    <3>7. HotfixInv'
      BY <1>1, <1>2, <2>7, <3>1, <3>3 DEF HotfixInv, Unloading
    <3>8. UnloadFrames'
      <4>1. \A j, k \in 1 .. L + 1 : stack'[j].name = stack'[k].name => j = k
        <5>1. \A k \in 1 .. L : stack'[k].name = stack[k].name
          BY <1>7, <2>4
        <5>2. \A j, k \in 1 .. L : stack'[j].name = stack'[k].name => j = k
          BY <1>11, <2>4
        <5> QED
          BY <2>2, <2>4, <2>5, <3>2, <5>1, <5>2
      <4>2. call.op = "unload" => stack'[1].name = call.arg
        BY <1>1, <1>2, <3>4 DEF UnloadFrames
      <4> QED
        BY <1>1, <2>4, <2>9, <3>1, <4>1, <4>2 DEF UnloadFrames, Apart, Loaded, Edge, Needed
    <3>9. StackInv'
      BY <1>1, <1>2, <1>9, <3>1, <3>8 DEF StackInv, Unloading
    <3> QED
      BY <1>8, <2>8, <3>5, <3>6, <3>7, <3>9
  <2> QED
    BY <2>10, <2>11
<1> QED
  BY <1>12, <1>13

\* A module whose users are gone.
LEMMA UnloadSelfKeeps ==
    ASSUME MInv, UnloadSelf
    PROVE  MInv'
<1> USE DEF MInv
<1> DEFINE L == Len(stack)
           n == Top.name
           m == [obj |-> Top.obj, name |-> Top.name]
           D == Len(destruction)
<1>0. L \in Nat /\ D \in Nat
  BY Typed
<1>1. /\ Unloading /\ stack # <<>> /\ Top.todo = {}
      /\ modules_map' = [modules_map EXCEPT ![n] = Null]
      /\ destruction' = Append(destruction, m) /\ stack' = Front(stack)
      /\ deps' = deps /\ life' = life /\ name_of' = name_of /\ recycled' = recycled
      /\ roots' = roots /\ hotfixs' = hotfixs /\ graph' = graph
      /\ hotfix_contexts' = hotfix_contexts /\ call' = call
      /\ version' = version /\ next_version' = next_version /\ file' = file
  BY DEF UnloadSelf, Erased, DestroyLast, objVars, fileVars
<1>2. /\ UnloadFrames /\ DestructionInv /\ Reloaded = {}
      /\ call.op \in {"unload", "destroy"} /\ call.op \notin {"none", "load", "update", "broken", "endless"}
      /\ \A k \in DOMAIN stack : stack[k].op = "unload"
  BY <1>1, WhoUnloads
<1>3. /\ deps \in [Names -> SUBSET Names] /\ L >= 1 /\ DOMAIN stack = 1 .. L
      /\ \A k \in 1 .. L : stack[k] \in Frames /\ stack[k].name \in Names /\ stack[k].obj \in Addrs
      /\ Top = stack[L] /\ stack \in Seq(Frames) /\ L = Len(stack) /\ L \in 1 .. L /\ 1 \in 1 .. L
  BY <1>1, Typed DEF Types, Last, Top
<1>4. /\ n \in Names /\ Top.obj \in Addrs /\ Loaded(n) /\ Top.obj = modules_map[n] /\ n = stack[L].name
      /\ name_of[Top.obj] = n
      /\ \A u \in Names : Loaded(u) /\ n \in deps[u] => n \in hotfix_contexts
  <2>1. L \in DOMAIN stack /\ ~(L < Len(stack))
    BY <1>3
  <2>2. \A u \in Names : Loaded(u) /\ n \in deps[u] /\ n \notin hotfix_contexts =>
            modules_map[u] \in Top.todo \/ (L < Len(stack) /\ stack[L + 1].name = u)
    BY <1>2, <1>3, <2>1 DEF UnloadFrames
  <2>3. n \in Names /\ Top.obj \in Addrs /\ Loaded(n) /\ Top.obj = modules_map[n] /\ n = stack[L].name
    BY <1>2, <1>3, <2>1 DEF UnloadFrames
  <2>4. name_of[Top.obj] = n
    BY <1>2, <2>3, LoadedIsUp
  <2> QED
    BY <1>1, <2>1, <2>2, <2>3, <2>4
<1>5. m \in Entries /\ m.name = n /\ m.obj = Top.obj
  BY <1>4 DEF Entries
<1> HIDE DEF L, n, m, D
<1>6. /\ destruction \in Seq(Entries) /\ D = Len(destruction)
      /\ destruction' \in Seq(Entries) /\ Len(destruction') = D + 1
      /\ \A k \in 1 .. D : destruction'[k] = destruction[k]
      /\ destruction'[D + 1] = m
  <2>1. destruction \in Seq(Entries) /\ D = Len(destruction)
    BY DEF Types, D
  <2> QED
    BY <1>1, <1>5, <2>1, Pushed
<1>7. /\ stack' \in Seq(Frames) /\ Len(stack') = L - 1 /\ DOMAIN stack' = 1 .. L - 1
      /\ \A k \in 1 .. L - 1 : stack'[k] = stack[k] /\ k \in 1 .. L
  <2>1. stack' \in Seq(Frames) /\ Len(stack') = L - 1 /\ \A k \in 1 .. L - 1 : stack'[k] = stack[k]
    <3>1. stack \in Seq(Frames) /\ stack # <<>> /\ stack' = Front(stack) /\ L = Len(stack)
      BY <1>1, <1>3
    <3>2. /\ Front(stack) \in Seq(Frames) /\ Len(Front(stack)) = Len(stack) - 1
          /\ \A k \in 1 .. Len(stack) - 1 : Front(stack)[k] = stack[k]
      BY <3>1, TopAndBelow
    <3> QED
      BY <3>1, <3>2
  <2>2. \A k \in 1 .. L - 1 : k \in 1 .. L
    BY <1>0
  <2> QED
    BY <2>1, <2>2
<1>8. modules_map'[n] = Null /\ \A u \in Names : u # n => modules_map'[u] = modules_map[u]
  BY <1>1, <1>4 DEF Types
<1>9. \A u \in Names : Loaded(u)' <=> Loaded(u) /\ u # n
  BY <1>8 DEF Loaded
<1>10. call.done = 0
  BY <1>1, <1>2 DEF DestructionInv
<1>11. \A k \in 1 .. L - 1 : stack[k].name # n
  <2> TAKE k \in 1 .. L - 1
  <2>1. k \in 1 .. L /\ k # L
    BY <1>0
  <2>2. Apart
    BY <1>2 DEF UnloadFrames
  <2> QED
    BY <1>3, <1>4, <2>1, <2>2 DEF Apart
<1>12. Types' /\ VersionsInv'
  <2>1. modules_map' \in [Names -> Addrs \cup {Null}]
    BY <1>1, <1>4 DEF Types
  <2> QED
    BY <1>1, <1>6, <1>7, <2>1 DEF Types, VersionsInv
<1>13. GraphInv'
  <2>1. GraphShape(graph)' 
        /\ \A e \in graph'.out : name_of'[e.to] \in Names /\ Right(e.from, e.to)'
    BY <1>1 DEF GraphInv, GraphShape, Right
  <2>2. \A u \in Names : Loaded(u)' => \A d \in deps'[u] : Loaded(d)' \/ d \in hotfix_contexts'
    <3> TAKE u \in Names
    <3> HAVE Loaded(u)'
    <3>1. u # n /\ Loaded(u) /\ modules_map'[u] = modules_map[u] /\ deps[u] \subseteq Names
      BY <1>3, <1>8, <1>9
    <3>2. \A d \in deps[u] : (Loaded(d) /\ d # n) \/ d \in hotfix_contexts
      BY <1>4, <3>1 DEF GraphInv
    <3> QED
      BY <1>1, <1>9, <3>1, <3>2
  <2>3. \A x, y \in Names : Loaded(x)' /\ Loaded(y)' /\ x \in deps'[y] /\ x \notin hotfix_contexts' =>
            Edge(modules_map[x], modules_map[y])'
    BY <1>1, <1>8, <1>9 DEF GraphInv, Edge
  <2> QED
    BY <2>1, <2>2, <2>3 DEF GraphInv
<1>14. LifeInv'
  <2>1. Reloaded' = {}
    BY <1>2, <1>3, <1>7 DEF Reloaded
  <2>2. Unloading /\ Unloading'
    BY <1>1 DEF Unloading
  <2>3. Pending' = Pending \cup {Top.obj}
    <3>1. Pending = {destruction[k].obj : k \in 1 .. D}
      BY <1>6, <1>10, <2>2 DEF Pending
    <3>2. Pending' = {destruction'[k].obj : k \in 1 .. D + 1}
      BY <1>1, <1>6, <1>10, <2>2 DEF Pending
    <3>3. \A k : k \in 1 .. D + 1 <=> k = D + 1 \/ k \in 1 .. D
      BY <1>0
    <3>4. {destruction'[k].obj : k \in 1 .. D + 1} = {destruction'[k].obj : k \in 1 .. D} \cup {destruction'[D + 1].obj}
      BY <3>3
    <3> QED
      BY <1>5, <1>6, <3>1, <3>2, <3>4
  <2>4. \A x \in Addrs : Up(x) <=> x \in Pending \/ \E u \in Names : modules_map[u] = x
    BY <1>2 DEF LifeInv
  <2>5. \A x \in Addrs : Up(x)' <=> x \in Pending' \/ \E u \in Names : modules_map'[u] = x
    <3> TAKE x \in Addrs
    <3>1. x # Null
      BY NullAssumption
    <3> QED
      BY <1>1, <1>4, <1>8, <2>3, <2>4, <3>1 DEF Up
  <2>6. \A x \in Addrs : life'[x] # "made"
    BY <1>1, <1>2 DEF LifeInv
  <2>7. \A k \in DOMAIN stack' : stack'[k].op = "unload"
    BY <1>2, <1>3, <1>7
  <2>8. \A u \in Names : Loaded(u)' => name_of'[modules_map'[u]] = u
    BY <1>1, <1>2, <1>8, <1>9 DEF LifeInv
  <2> QED
    BY <2>1, <2>5, <2>6, <2>7, <2>8 DEF LifeInv
<1>15. UnloadFrames'
  <2>1. ASSUME NEW k \in 1 .. L - 1
        PROVE  /\ stack[k].op = "unload" /\ modules_map'[stack[k].name] # Null
               /\ stack[k].obj = modules_map'[stack[k].name]
               /\ \A x \in stack[k].todo : Arc(stack[k].obj, x, Null) \in graph.out
               /\ \A u \in Names :
                     modules_map'[u] # Null /\ stack[k].name \in deps[u] /\ stack[k].name \notin hotfix_contexts =>
                     modules_map'[u] \in stack[k].todo \/ (k < L - 1 /\ stack'[k + 1].name = u)
               /\ k > 1 =>
                     \/ stack'[k - 1].name \in deps[stack[k].name]
                     \/ ({stack'[k - 1].obj} \cup Neighbors(graph, stack'[k - 1].obj)) \cap recycled # {}
    <3>1. LET g == stack[k]
          IN  /\ g.op = "unload" /\ modules_map[g.name] # Null /\ g.obj = modules_map[g.name]
              /\ \A x \in g.todo : Arc(g.obj, x, Null) \in graph.out
              /\ \A u \in Names : modules_map[u] # Null /\ g.name \in deps[u] /\ g.name \notin hotfix_contexts =>
                    modules_map[u] \in g.todo \/ (k < L /\ stack[k + 1].name = u)
              /\ k > 1 =>
                    \/ stack[k - 1].name \in deps[g.name]
                    \/ ({stack[k - 1].obj} \cup Neighbors(graph, stack[k - 1].obj)) \cap recycled # {}
      <4>1. k \in DOMAIN stack
        BY <1>3, <1>7
      <4> QED
        BY <1>2, <1>3, <4>1 DEF UnloadFrames, Loaded, Edge, Needed
    <3>2. stack[k].name \in Names /\ stack[k].name # n
      BY <1>3, <1>7, <1>11
    <3>3. k > 1 => stack'[k - 1] = stack[k - 1]
      <4>1. k > 1 => k - 1 \in 1 .. L - 1
        BY <1>0
      <4> QED
        BY <1>7, <4>1
    <3>4. \A u \in Names :
              modules_map'[u] # Null /\ stack[k].name \in deps[u] /\ stack[k].name \notin hotfix_contexts =>
              modules_map'[u] \in stack[k].todo \/ (k < L - 1 /\ stack'[k + 1].name = u)
      <4> TAKE u \in Names
      <4> HAVE modules_map'[u] # Null /\ stack[k].name \in deps[u] /\ stack[k].name \notin hotfix_contexts
      <4>1. u # n /\ modules_map'[u] = modules_map[u]
        BY <1>8
      <4>2. CASE modules_map[u] \in stack[k].todo
        BY <4>1, <4>2
      <4>3. CASE k < L /\ stack[k + 1].name = u
        <5>1. k + 1 # L
          BY <1>4, <4>1, <4>3
        <5>2. k < L - 1 /\ k + 1 \in 1 .. L - 1
          BY <1>0, <4>3, <5>1
        <5> QED
          BY <1>7, <4>3, <5>2
      <4> QED
        BY <3>1, <4>1, <4>2, <4>3
    <3> QED
      BY <1>8, <3>1, <3>2, <3>3, <3>4
  <2>2. \A j, k \in 1 .. L - 1 : stack[j].name = stack[k].name => j = k
    BY <1>2, <1>3, <1>7 DEF UnloadFrames, Apart
  <2>3. call.op = "unload" /\ stack' # <<>> => stack'[1].name = call.arg
    <3> SUFFICES ASSUME call.op = "unload", stack' # <<>> PROVE stack'[1].name = call.arg
      OBVIOUS
    <3>1. Len(stack') # 0
      BY <1>7
    <3>2. 1 \in 1 .. L - 1
      BY <1>0, <1>7, <3>1
    <3> QED
      BY <1>1, <1>2, <1>7, <3>2 DEF UnloadFrames
  <2> QED
    BY <1>1, <1>7, <2>1, <2>2, <2>3 DEF UnloadFrames, Apart, Loaded, Edge, Needed
<1>16. DestructionInv'
  <2>1. ASSUME NEW k \in 1 .. D + 1
        PROVE  /\ name_of[destruction'[k].obj] = destruction'[k].name
               /\ modules_map'[destruction'[k].name] = Null
               /\ \A j \in 1 .. k - 1 : /\ destruction'[j].name # destruction'[k].name
                                        /\ destruction'[j].name \notin deps[destruction'[k].name] \ hotfix_contexts
    <3>1. \A j \in 1 .. D : /\ name_of[destruction[j].obj] = destruction[j].name
                            /\ modules_map[destruction[j].name] = Null
                            /\ destruction[j].name \in Names /\ destruction[j].name # n
      BY <1>2, <1>4, <1>6, Typed DEF DestructionInv, Loaded
    <3>2. CASE k = D + 1
      <4>1. name_of[m.obj] = m.name /\ modules_map'[m.name] = Null
        BY <1>4, <1>5, <1>8
      <4>2. \A d \in deps[n] \ hotfix_contexts : modules_map[d] # Null
        BY <1>4 DEF GraphInv, Loaded
      <4>3. k - 1 = D
        BY <1>0, <3>2
      <4> QED
        BY <1>5, <1>6, <3>1, <3>2, <4>1, <4>2, <4>3
    <3>3. CASE k \in 1 .. D
      <4>1. \A j \in 1 .. k - 1 : j \in 1 .. D
        BY <1>0, <3>3
      <4>2. \A j \in 1 .. k - 1 : /\ destruction[j].name # destruction[k].name
                                  /\ destruction[j].name \notin deps[destruction[k].name] \ hotfix_contexts
        BY <1>2, <1>6, <3>3 DEF DestructionInv
      <4> QED
        BY <1>6, <1>8, <3>1, <3>3, <4>1, <4>2
    <3>4. k = D + 1 \/ k \in 1 .. D
      BY <1>0
    <3> QED
      BY <3>2, <3>3, <3>4
  <2>2. call.done <= D + 1
    BY <1>0, <1>10
  <2> QED
    BY <1>1, <1>6, <1>10, <2>1, <2>2 DEF DestructionInv, Loaded
<1>17. StackInv'
  BY <1>1, <1>2, <1>15, <1>16 DEF StackInv
<1>18. RootsInv'
  <2>1. \A u \in Names : IsRoot(u)' <=> IsRoot(u) /\ u # n
    BY <1>1, <1>9 DEF IsRoot
  <2>2. L > 1 => /\ stack' # <<>> /\ stack'[1].name = stack[1].name
                 /\ recycled = {} => deps[n] # {}
    <3> SUFFICES ASSUME L > 1
                 PROVE  /\ stack' # <<>> /\ stack'[1].name = stack[1].name
                        /\ recycled = {} => deps[n] # {}
      OBVIOUS
    <3>1. 1 \in 1 .. L - 1
      BY <1>0
    <3>2. recycled = {} => stack[L - 1].name \in deps[n]
      BY <1>2, <1>3, <1>4 DEF UnloadFrames, Needed
    <3> QED
      BY <1>7, <3>1, <3>2
  <2>3. ~(L > 1) => stack[1].name = n
    BY <1>0, <1>3, <1>4
  <2>4. call.op = "unload" =>
          /\ call.walk \subseteq {call.arg}
          /\ \A u \in Names : u # call.arg /\ IsRoot(u)' => u \in roots
          /\ recycled = {} => \A u \in roots : u # call.arg => IsRoot(u)'
          /\ \A u \in Names : u = call.arg /\ Loaded(u)' => u \in call.walk \/ stack' # <<>>
    <3> SUFFICES ASSUME call.op = "unload"
                 PROVE  /\ call.walk \subseteq {call.arg}
                        /\ \A u \in Names : u # call.arg /\ IsRoot(u)' => u \in roots
                        /\ recycled = {} => \A u \in roots : u # call.arg => IsRoot(u)'
                        /\ \A u \in Names : u = call.arg /\ Loaded(u)' => u \in call.walk \/ stack' # <<>>
      OBVIOUS
    <3>1. stack[1].name = call.arg /\ roots \subseteq Names
      BY <1>1, <1>2 DEF UnloadFrames, Types
    <3>2. recycled = {} /\ n # call.arg => ~IsRoot(n)
      BY <2>2, <2>3, <3>1 DEF IsRoot
    <3>3. n = call.arg \/ stack' # <<>>
      BY <2>2, <2>3, <3>1
    <3> QED
      BY <1>9, <2>1, <3>1, <3>2, <3>3 DEF RootsInv
  <2>5. call.op = "destroy" =>
          \A u \in Names : IsRoot(u)' => u \in call.walk \/ (stack' # <<>> /\ stack'[1].name = u)
    BY <2>1, <2>2, <2>3 DEF RootsInv
  <2> QED
    BY <1>1, <1>2, <2>4, <2>5 DEF RootsInv
<1>19. HotfixInv'
  <2>1. ASSUME NEW h \in hotfixs
        PROVE  Loaded(h)' \/ \E k \in 1 .. D + 1 : destruction'[k].name = h
    <3>1. h \in Names
      BY NamesAssumption DEF Types
    <3>2. \A k : k \in 1 .. D + 1 <=> k = D + 1 \/ k \in 1 .. D
      BY <1>0
    <3>3. CASE Loaded(h)
      BY <1>5, <1>6, <1>9, <3>1, <3>2, <3>3
    <3>4. CASE ~Loaded(h)
      <4>1. ~Entered(h)
        BY <1>2, <3>4 DEF UnloadFrames, Entered
      <4>2. \E k \in 1 .. D : destruction[k].name = h
        BY <1>2, <1>6, <1>10, <3>4, <4>1 DEF HotfixInv
      <4> QED
        BY <1>6, <3>2, <4>2
    <3> QED
      BY <3>3, <3>4
  <2>2. Unloading'
    BY <1>1 DEF Unloading
  <2>3. \A h \in hotfixs' : Loaded(h)' \/ \E k \in call'.done + 1 .. Len(destruction') : destruction'[k].name = h
    BY <1>1, <1>6, <1>10, <2>1
  <2> QED
    BY <1>1, <1>2, <2>2, <2>3 DEF HotfixInv
<1> QED
  BY <1>12, <1>13, <1>14, <1>17, <1>18, <1>19

\* The next of the modules that wait for their destruction.
LEMMA DestroyNextKeeps ==
    ASSUME MInv, DestroyNext
    PROVE  MInv'
<1> USE DEF MInv
<1> DEFINE i == call.done + 1
           D == Len(destruction)
           m == destruction[i]
<1>0. D \in Nat /\ call.done \in Nat /\ i \in Nat
  BY Typed
<1>1. /\ Unloading /\ stack = <<>> /\ DOMAIN stack = {} /\ call.walk = {} /\ call.done < D
      /\ hotfixs' = hotfixs \ {m.name} /\ graph' = RemoveVertex(graph, m.obj)
      /\ life' = [life EXCEPT ![m.obj] = "free"] /\ file' = [file EXCEPT ![m.name] = NoFile]
      /\ call' = [call EXCEPT !.done = i]
      /\ deps' = deps /\ name_of' = name_of /\ recycled' = recycled /\ modules_map' = modules_map
      /\ roots' = roots /\ destruction' = destruction /\ hotfix_contexts' = hotfix_contexts
      /\ version' = version /\ next_version' = next_version /\ stack' = stack
  BY DEF DestroyNext
<1>2. /\ UnloadFrames /\ DestructionInv /\ Reloaded = {}
      /\ call.op \in {"unload", "destroy"} /\ call.op \notin {"none", "load", "update", "broken", "endless"}
  BY <1>1, WhoUnloads
<1>3. /\ call \in Calls /\ D = Len(destruction) /\ i \in 1 .. D
      /\ \A k \in 1 .. D : destruction[k].name \in Names /\ destruction[k].obj \in Addrs
      /\ m.name \in Names /\ m.obj \in Addrs
  <2>1. i \in 1 .. D
    BY <1>0, <1>1
  <2> QED
    BY <2>1, Typed DEF Types
<1>4. /\ call'.op = call.op /\ call'.arg = call.arg /\ call'.walk = {}
      /\ call'.done = i /\ call' \in Calls /\ Unloading'
  BY <1>0, <1>1, <1>3 DEF Calls, Unloading
<1>5. \A k \in 1 .. D : /\ name_of[destruction[k].obj] = destruction[k].name
                        /\ ~Loaded(destruction[k].name)
                        /\ \A j \in 1 .. k - 1 : destruction[j].name # destruction[k].name
  BY <1>2, <1>3 DEF DestructionInv
<1> HIDE DEF D, i
<1>6. \A k \in 1 .. D : k # i => destruction[k].name # m.name /\ destruction[k].obj # m.obj
  <2> TAKE k \in 1 .. D
  <2> HAVE k # i
  <2>1. k \in 1 .. i - 1 \/ i \in 1 .. k - 1
    BY <1>0, <1>3
  <2> QED
    BY <1>3, <1>5, <2>1
<1>7. name_of[m.obj] = m.name /\ ~Loaded(m.name)
  BY <1>3, <1>5
<1> HIDE DEF m
<1>8. \A u : (Loaded(u)' <=> Loaded(u)) /\ (IsRoot(u)' <=> IsRoot(u)) /\ ~Entered(u)
  BY <1>1 DEF Loaded, IsRoot, Entered
<1>9. \A u \in Names : Loaded(u) => modules_map[u] # m.obj /\ modules_map[u] \in Addrs
  BY <1>2, <1>7, LoadedIsUp
<1>10. Types'
  <2>1. life' \in [Addrs -> {"free", "made", "live", "quiet"}]
    BY <1>1 DEF Types
  <2> QED
    BY <1>1, <1>4, <2>1 DEF Types
<1>11. VersionsInv'
  <2>1. file' \in [Names -> Int] /\ \A u \in Names : file'[u] = file[u] \/ file'[u] = NoFile
    BY <1>1, <1>3 DEF VersionsInv, NoFile
  <2>2. \A u \in Names : NoFile < version[u]
    BY DEF VersionsInv, NoFile
  <2> QED
    BY <1>1, <2>1, <2>2 DEF VersionsInv
<1>12. GraphInv'
  <2>1. /\ GraphShape(graph') /\ graph'.out \subseteq graph.out
        /\ \A e \in graph.out : e.from # m.obj /\ e.to # m.obj => e \in graph'.out
    BY <1>1, <1>3, VertexRemoved DEF GraphInv
  <2>2. \A e \in graph'.out : name_of'[e.to] \in Names /\ Right(e.from, e.to)'
    BY <1>1, <2>1 DEF GraphInv, Right
  <2>3. \A u \in Names : Loaded(u)' => \A d \in deps'[u] : Loaded(d)' \/ d \in hotfix_contexts'
    BY <1>1, <1>8 DEF GraphInv
  <2>4. \A x, y \in Names : Loaded(x)' /\ Loaded(y)' /\ x \in deps'[y] /\ x \notin hotfix_contexts' =>
            Edge(modules_map[x], modules_map[y])'
    <3> SUFFICES ASSUME NEW x \in Names, NEW y \in Names, Loaded(x)', Loaded(y)', x \in deps'[y],
                        x \notin hotfix_contexts'
                 PROVE  Arc(modules_map[x], modules_map[y], Null) \in graph'.out
      BY <1>1 DEF Edge
    <3>1. Arc(modules_map[x], modules_map[y], Null) \in graph.out
      BY <1>1, <1>8 DEF GraphInv, Edge
    <3>2. /\ Arc(modules_map[x], modules_map[y], Null).from = modules_map[x]
          /\ Arc(modules_map[x], modules_map[y], Null).to = modules_map[y]
      BY DEF Arc
    <3> QED
      BY <1>8, <1>9, <2>1, <3>1, <3>2
  <2> QED
    BY <2>1, <2>2, <2>3, <2>4 DEF GraphInv
<1>13. LifeInv'
  <2>1. Reloaded' = {}
    BY <1>1 DEF Reloaded
  <2>2. \A k : k \in call.done + 1 .. D <=> k = i \/ k \in i + 1 .. D
    BY <1>0, <1>3 DEF i
  <2>3. Pending = {destruction[k].obj : k \in call.done + 1 .. D}
    BY <1>1, <1>3 DEF Pending
  <2>4. Pending' = {destruction[k].obj : k \in i + 1 .. D}
    BY <1>1, <1>3, <1>4 DEF Pending
  <2>5. \A k \in i + 1 .. D : k \in 1 .. D /\ k # i
    BY <1>0
  <2>6. Pending = Pending' \cup {m.obj} /\ m.obj \notin Pending'
    <3>1. destruction[i].obj = m.obj
      BY DEF m
    <3>2. m.obj \notin Pending'
      BY <1>6, <2>4, <2>5
    <3> QED
      BY <2>2, <2>3, <2>4, <3>1, <3>2
  <2>7. \A x \in Addrs : /\ Up(x) <=> x \in Pending \/ \E u \in Names : modules_map[u] = x
                         /\ life[x] # "made"
    BY <1>1, <1>2 DEF LifeInv
  <2>8. \A x \in Addrs : /\ Up(x)' <=> x \in Pending' \/ \E u \in Names : modules_map[u] = x
                         /\ life'[x] # "made"
    <3> TAKE x \in Addrs
    <3>1. CASE x = m.obj
      <4>1. life'[x] = "free"
        BY <1>1, <3>1 DEF Types
      <4>2. \A u \in Names : modules_map[u] # x
        BY <1>3, <1>9, <3>1, NullAssumption DEF Loaded
      <4> QED
        BY <2>6, <3>1, <4>1, <4>2 DEF Up
    <3>2. CASE x # m.obj
      <4>1. life'[x] = life[x]
        BY <1>1, <3>2 DEF Types
      <4> QED
        BY <2>6, <2>7, <3>2, <4>1 DEF Up
    <3> QED
      BY <3>1, <3>2
  <2> QED
    BY <1>1, <1>2, <1>8, <2>1, <2>8 DEF LifeInv
<1>14. StackInv'
  <2>1. UnloadFrames'
    BY <1>1 DEF UnloadFrames, Apart
  <2>2. DestructionInv'
    <3>1. i <= Len(destruction)
      BY <1>0, <1>3
    <3> QED
      BY <1>1, <1>2, <1>4, <1>8, <3>1 DEF DestructionInv, Loaded
  <2> QED
    BY <1>2, <1>4, <2>1, <2>2 DEF StackInv
<1>15. RootsInv'
  BY <1>1, <1>2, <1>4, <1>8 DEF RootsInv
<1>16. HotfixInv'
  <2>1. ASSUME NEW h \in hotfixs'
        PROVE  Loaded(h)' \/ \E k \in i + 1 .. D : destruction[k].name = h
    <3>1. h \in hotfixs /\ h # m.name
      BY <1>1, <2>1
    <3>2. Loaded(h) \/ \E k \in call.done + 1 .. D : destruction[k].name = h
      BY <1>2, <1>3, <1>8, <3>1 DEF HotfixInv
    <3>3. \A k \in call.done + 1 .. D : k = i \/ k \in i + 1 .. D
      BY <1>0, <1>3 DEF i
    <3>4. destruction[i].name = m.name
      BY DEF m
    <3> QED
      BY <1>8, <3>1, <3>2, <3>3, <3>4
  <2> QED
    BY <1>1, <1>2, <1>3, <1>4, <2>1 DEF HotfixInv
<1> QED
  BY <1>10, <1>11, <1>12, <1>13, <1>14, <1>15, <1>16

\* unload and destroy return.
LEMMA UnloadReturnsKeeps ==
    ASSUME MInv, UnloadReturns
    PROVE  MInv'
<1> USE DEF MInv
<1>1. /\ Unloading /\ stack = <<>> /\ DOMAIN stack = {} /\ call.walk = {}
      /\ call.done = Len(destruction)
      /\ roots' = IF call.op = "destroy" THEN {} ELSE roots \ {call.arg}
      /\ call' = NoCall
      /\ deps' = deps /\ life' = life /\ name_of' = name_of /\ modules_map' = modules_map
      /\ recycled' = recycled
      /\ hotfixs' = hotfixs /\ graph' = graph /\ destruction' = destruction
      /\ hotfix_contexts' = hotfix_contexts /\ stack' = stack
      /\ version' = version /\ next_version' = next_version /\ file' = file
  BY DEF UnloadReturns, RootsLeft, objVars, fileVars
<1>2. /\ UnloadFrames /\ DestructionInv /\ Reloaded = {}
      /\ call.op \in {"unload", "destroy"} /\ call.op \notin {"none", "load", "update", "broken", "endless"}
  BY <1>1, WhoUnloads
<1>3. call'.op = "none" /\ call' \in Calls /\ ~Unloading'
  BY <1>1 DEF NoCall, Calls, Ops, Unloading
<1>4. \A u : (Loaded(u)' <=> Loaded(u)) /\ (IsRoot(u)' <=> IsRoot(u)) /\ ~Entered(u)
  BY <1>1 DEF Loaded, IsRoot, Entered
<1>5. call.done + 1 .. Len(destruction) = {}
  BY <1>1, Typed
<1>6. Types' /\ VersionsInv' /\ GraphInv'
  <2>1. roots' \subseteq Names
    BY <1>1 DEF Types
  <2>2. GraphInv'
    BY <1>1, QuietGraph
  <2> QED
    BY <1>1, <1>3, <2>1, <2>2 DEF Types, VersionsInv
<1>7. LifeInv'
  <2>1. Reloaded' = {} /\ Pending' = {} /\ Pending = {}
    BY <1>1, <1>3, <1>5 DEF Reloaded, Pending
  <2> QED
    BY <1>1, <1>2, <1>3, <1>4, <2>1 DEF LifeInv, Up
<1>8. StackInv'
  BY <1>1, <1>3 DEF StackInv
<1>9. RootsInv'
  <2>1. roots \subseteq Names
    BY DEF Types
  <2>2. /\ \A u \in Names : IsRoot(u) => u \in roots'
        /\ recycled = {} => \A u \in roots' : IsRoot(u)
    <3>1. CASE call.op = "destroy"
      BY <1>1, <3>1 DEF RootsInv
    <3>2. CASE call.op = "unload"
      <4>1. /\ \A u \in Names : u # call.arg /\ IsRoot(u) => u \in roots
            /\ recycled = {} => \A u \in roots : u # call.arg => IsRoot(u)
        BY <3>2 DEF RootsInv
      <4>2. \A u \in Names : u = call.arg => ~IsRoot(u)
        BY <1>1, <3>2 DEF RootsInv, IsRoot
      <4> QED
        BY <1>1, <2>1, <3>2, <4>1, <4>2
    <3> QED
      BY <1>2, <3>1, <3>2
  <2>3. \A u : (Loaded(u)' \/ Entered(u)') /\ deps'[u] = {} <=> IsRoot(u)
    BY <1>1, <1>4 DEF IsRoot, Entered
  <2>4. roots' \subseteq Names
    BY <1>1, <2>1
  <2> QED
    BY <1>1, <1>3, <2>2, <2>3, <2>4 DEF RootsInv
<1>10. HotfixInv'
  <2>1. \A h \in hotfixs : Loaded(h)
    BY <1>2, <1>4, <1>5 DEF HotfixInv
  <2> QED
    BY <1>1, <1>3, <1>4, <2>1 DEF HotfixInv
<1> QED
  BY <1>6, <1>7, <1>8, <1>9, <1>10

\* Every step of an unload.
LEMMA UnloadKeeps ==
    ASSUME MInv, UnloadStep
    PROVE  MInv'
<1>1. ASSUME NEW n \in Names, unload(n) PROVE MInv'
  <2>1. Start("unload", n, {n}) /\ {n} \in SUBSET Names
    BY <1>1 DEF unload
  <2> QED
    BY <2>1, StartKeeps
<1>2. ASSUME destroy PROVE MInv'
  <2>1. Start("destroy", Null, roots) /\ roots \in SUBSET Names
    BY <1>2 DEF destroy, MInv, Types
  <2> QED
    BY <2>1, StartKeeps
<1> QED
  BY <1>1, <1>2, UnloadUserKeeps, UnloadNextKeeps, UnloadSelfKeeps, DestroyNextKeeps,
     UnloadReturnsKeeps DEF UnloadStep

-----------------------------------------------------------------------------
(* Hot reloads.                                                            *)

\* The steps that look at files, or only begin, end and fail.
LEMMA UpdateKeeps ==
    ASSUME MInv,
           \/ \E n \in Hotfixes : enable_hotfix_for_module(n) \/ UpdateSkips(n)
           \/ update \/ UpdateReturns
    PROVE  MInv'
<1> USE DEF MInv
<1>1. /\ call.op \in {"none", "update"} /\ stack = <<>> /\ DOMAIN stack = {}
      /\ deps' = deps /\ life' = life /\ name_of' = name_of /\ modules_map' = modules_map
      /\ recycled' = recycled
      /\ roots' = roots /\ hotfixs' = hotfixs /\ graph' = graph /\ destruction' = destruction
      /\ stack' = stack
      /\ version' = version /\ next_version' = next_version /\ file' = file
  BY DEF enable_hotfix_for_module, update, UpdateSkips, UpdateReturns, Idle, StackInv,
         objVars, mapVars, fileVars
<1>2. call \in Calls /\ NoCall \in Calls /\ call.walk \subseteq Names
  BY Typed DEF Types, NoCall, Calls, Ops
<1>3. /\ call' \in Calls /\ call'.op \in {"none", "update"}
      /\ call'.op = "update" => call'.walk \subseteq hotfixs
  <2>1. CASE \E n \in Hotfixes : enable_hotfix_for_module(n)
    BY <1>2, <2>1 DEF enable_hotfix_for_module, HotfixInv, Idle
  <2>2. CASE update
    <3>1. call' = [op |-> "update", arg |-> Null, walk |-> hotfixs, done |-> 0]
      BY <2>2 DEF update, NoCall
    <3>2. hotfixs \subseteq Names
      BY NamesAssumption DEF Types
    <3> QED
      BY <3>1, <3>2 DEF Calls, Ops
  <2>3. CASE \E n \in Hotfixes : UpdateSkips(n)
    <3> PICK n \in Hotfixes : UpdateSkips(n)
      BY <2>3
    <3>1. call' = [call EXCEPT !.walk = call.walk \ {n}] /\ call.op = "update"
      BY DEF UpdateSkips
    <3>2. call' \in Calls /\ call'.op = "update" /\ call'.walk = call.walk \ {n}
      BY <1>2, <3>1 DEF Calls
    <3> QED
      BY <3>1, <3>2 DEF HotfixInv
  <2>4. CASE UpdateReturns
    BY <1>2, <2>4 DEF UpdateReturns, NoCall
  <2> QED
    BY <2>1, <2>2, <2>3, <2>4
<1>4. \A u : (Loaded(u)' <=> Loaded(u)) /\ (IsRoot(u)' <=> IsRoot(u)) /\ ~Entered(u)
  BY <1>1 DEF Loaded, IsRoot, Entered
<1>5. ~Unloading /\ ~Unloading' /\ call.op \notin {"broken", "endless"}
  BY <1>1, <1>3 DEF Unloading
<1>6. Types'
  <2>1. hotfixs \subseteq hotfix_contexts' /\ hotfix_contexts' \subseteq Hotfixes
    BY DEF Types, enable_hotfix_for_module, update, UpdateSkips, UpdateReturns
  <2> QED
    BY <1>1, <1>3, <2>1 DEF Types
<1>7. VersionsInv' /\ GraphInv'
  <2>1. hotfix_contexts \subseteq hotfix_contexts'
    BY DEF enable_hotfix_for_module, update, UpdateSkips, UpdateReturns
  <2> QED
    BY <1>1, <2>1, QuietGraph DEF VersionsInv
<1>8. LifeInv'
  <2>1. Reloaded' = {} /\ Reloaded = {} /\ Pending' = {} /\ Pending = {}
    BY <1>1, <1>5 DEF Reloaded, Pending
  <2> QED
    BY <1>1, <1>4, <1>5, <2>1 DEF LifeInv, Up
<1>9. StackInv'
  <2>1. LoadFrames'
    BY <1>1 DEF LoadFrames, Apart
  <2> QED
    BY <1>1, <1>3, <1>5, <2>1 DEF StackInv
<1>10. RootsInv'
  <2>1. /\ \A n \in Names : Loaded(n) /\ deps[n] = {} => n \in roots
        /\ recycled = {} => \A n \in roots : Loaded(n) /\ deps[n] = {}
    BY <1>1, <1>4 DEF RootsInv
  <2>2. \A n : Entered(n)' <=> Entered(n)
    BY <1>1 DEF Entered
  <2> QED
    BY <1>1, <1>3, <1>4, <2>1, <2>2 DEF RootsInv
<1>11. HotfixInv'
  <2>1. \A h \in hotfixs : Loaded(h)
    BY <1>4, <1>5 DEF HotfixInv
  <2> QED
    BY <1>1, <1>3, <1>4, <2>1 DEF HotfixInv
<1> QED
  BY <1>6, <1>7, <1>8, <1>9, <1>10, <1>11

\* The module that update is at.
LEMMA Updated ==
    ASSUME MInv, call.op = "update", stack = <<>>, NEW n \in call.walk
    PROVE  /\ n \in Names /\ n \in hotfix_contexts /\ Loaded(n) /\ modules_map[n] \in Addrs
           /\ Up(modules_map[n]) /\ name_of[modules_map[n]] = n
           /\ \A u : ~Entered(u)
           /\ Reloaded = {} /\ Pending = {} /\ DOMAIN stack = {} /\ ~Unloading
<1>1. DOMAIN stack = {} /\ ~Unloading
  BY DEF Unloading
<1>2. \A u : ~Entered(u)
  BY <1>1 DEF Entered
<1>3. Reloaded = {} /\ Pending = {}
  BY <1>1 DEF Reloaded, Pending
<1>4. n \in hotfixs /\ hotfixs \subseteq hotfix_contexts /\ hotfixs \subseteq Names
  BY NamesAssumption DEF MInv, HotfixInv, Types
<1>5. Loaded(n)
  BY <1>1, <1>2, <1>4 DEF MInv, HotfixInv
<1>6. modules_map[n] \in Addrs
  BY <1>4, <1>5, Typed DEF MInv
<1>7. Up(modules_map[n]) /\ name_of[modules_map[n]] = n
  BY <1>3, <1>4, <1>5, LoadedIsUp
<1> QED
  BY <1>1, <1>2, <1>3, <1>4, <1>5, <1>6, <1>7

\* The old object goes and the new one is made, at its address or at another.
LEMMA ReplaceKeeps ==
    ASSUME MInv, NEW n \in Hotfixes, Replace(n)
    PROVE  MInv'
<1> USE DEF MInv
<1> DEFINE o == modules_map[n]
<1>1. /\ call.op = "update" /\ stack = <<>> /\ n \in call.walk
      /\ LoadHotfixModule(n) /\ call' = [call EXCEPT !.walk = call.walk \ {n}]
      /\ roots' = IF deps[n] = {} THEN roots \cup {n} ELSE roots
      /\ deps' = deps /\ graph' = graph /\ modules_map' = modules_map /\ hotfixs' = hotfixs
      /\ destruction' = destruction /\ hotfix_contexts' = hotfix_contexts
  BY DEF Replace
<1> PICK a \in Addrs :
       /\ (a = o \/ Fresh(a)) /\ Recycle(a, n)
       /\ life' = [life EXCEPT ![o] = "free", ![a] = "made"]
       /\ name_of' = [name_of EXCEPT ![a] = n]
       /\ stack' = <<Frame("reload", n, a, deps[n])>>
  BY DEF Replace
<1>2. /\ n \in Names /\ n \in hotfix_contexts /\ Loaded(n) /\ o \in Addrs /\ Up(o)
      /\ \A u : ~Entered(u)
      /\ Reloaded = {} /\ Pending = {} /\ DOMAIN stack = {} /\ ~Unloading
  BY <1>1, Updated
<1>3. a = o \/ life[a] = "free"
  BY DEF Fresh
<1> DEFINE f == Frame("reload", n, a, deps[n])
<1>4. /\ f \in Frames /\ f.op = "reload" /\ f.name = n /\ f.obj = a /\ f.todo = deps[n]
  BY <1>2, Typed DEF Frame, Frames
<1> HIDE DEF f
<1>5. stack' = <<f>> /\ Len(stack') = 1 /\ DOMAIN stack' = {1} /\ stack'[1] = f
  <2>1. stack' = <<f>>
    BY DEF f
  <2> QED
    BY <2>1
<1>6. stack' \in Seq(Frames)
  <2>1. <<>> \in Seq(Frames) /\ f \in Frames
    BY <1>4
  <2>2. Append(<<>>, f) \in Seq(Frames) /\ Append(<<>>, f) = <<f>>
    BY <2>1, AppendProperties
  <2> QED
    BY <1>5, <2>2
<1>7. call' \in Calls /\ call'.op = "update" /\ call'.walk = call.walk \ {n}
  <2>1. call \in Calls
    BY DEF Types
  <2> QED
    BY <1>1, <2>1 DEF Calls
<1>8. \A u : (Loaded(u)' <=> Loaded(u)) /\ (IsRoot(u)' <=> IsRoot(u))
  BY <1>1 DEF Loaded, IsRoot
<1>9. \A u \in Names \ {n} : Loaded(u) =>
         /\ modules_map[u] \in Addrs /\ modules_map[u] # a /\ modules_map[u] # o
         /\ name_of[modules_map[u]] = u
  <2> TAKE u \in Names \ {n}
  <2> HAVE Loaded(u)
  <2>1. modules_map[u] \in Addrs /\ Up(modules_map[u]) /\ name_of[modules_map[u]] = u
    BY <1>1, <1>2, LoadedIsUp
  <2>2. modules_map[u] # o
    BY <1>1, <1>2, OneObjectEach
  <2> QED
    BY <1>3, <2>1, <2>2 DEF Up
<1>10. roots' = roots
  BY <1>1, <1>2 DEF RootsInv
<1>11. /\ name_of' \in [Addrs -> Names \cup {Null}] /\ name_of'[a] = n
       /\ \A x \in Addrs : x # a => name_of'[x] = name_of[x]
       /\ life' \in [Addrs -> {"free", "made", "live", "quiet"}] /\ life'[a] = "made"
       /\ o # a => life'[o] = "free"
       /\ \A x \in Addrs : x # a /\ x # o => life'[x] = life[x]
  BY <1>2, <1>3 DEF Types
<1>12. Types'
  <2>1. recycled' \subseteq Addrs
    BY RecycledGrows
  <2> QED
    BY <1>1, <1>6, <1>7, <1>10, <1>11, <2>1 DEF Types
<1>13. VersionsInv'
  BY <1>1, <1>2, CopyIsNew
<1>14. GraphInv'
  <2>2. GraphShape(graph)'
    BY <1>1 DEF GraphInv, GraphShape
  <2>3. \A e \in graph'.out : name_of'[e.to] \in Names /\ Right(e.from, e.to)'
    BY <1>1, <1>2, NoArcTurnsWrong
  <2>4. \A u \in Names : Loaded(u)' => \A d \in deps'[u] : Loaded(d)' \/ d \in hotfix_contexts'
    BY <1>1, <1>8 DEF GraphInv
  <2>5. \A x, y \in Names : Loaded(x)' /\ Loaded(y)' /\ x \in deps'[y] /\ x \notin hotfix_contexts' =>
            Edge(modules_map[x], modules_map[y])'
    BY <1>1, <1>8 DEF GraphInv, Edge
  <2> QED
    BY <2>2, <2>3, <2>4, <2>5 DEF GraphInv
<1>15. LifeInv'
  <2>1. Pending' = {} /\ ~Unloading'
    BY <1>7 DEF Pending, Unloading
  <2>2. Reloaded' = {n}
    <3>1. {j \in DOMAIN stack' : stack'[j].op = "reload"} = {1}
      BY <1>4, <1>5
    <3> QED
      BY <1>4, <1>5, <3>1 DEF Reloaded
  <2>3. \A x \in Addrs : /\ Up(x) <=> \E u \in Names : modules_map[u] = x
                         /\ life[x] # "made"
    BY <1>1, <1>2 DEF LifeInv
  <2>4. ASSUME NEW x \in Addrs
        PROVE  /\ Up(x)' <=> \E u \in Names \ {n} : modules_map[u] = x
               /\ life'[x] = "made" <=> x = a
    <3>1. CASE x = a
      <4>1. \A u \in Names \ {n} : modules_map[u] # x
        BY <1>9, <3>1, NullAssumption DEF Loaded
      <4> QED
        BY <1>11, <3>1, <4>1 DEF Up
    <3>2. CASE x = o /\ x # a
      <4>1. \A u \in Names \ {n} : modules_map[u] # x
        <5> SUFFICES ASSUME NEW u \in Names \ {n}, modules_map[u] = x PROVE FALSE
          OBVIOUS
        <5>1. Loaded(u)
          BY <1>2, <3>2, NullAssumption DEF Loaded
        <5> QED
          BY <1>9, <3>2, <5>1
      <4> QED
        BY <1>11, <3>2, <4>1 DEF Up
    <3>3. CASE x # a /\ x # o
      <4>1. life'[x] = life[x] /\ (Up(x)' <=> Up(x))
        BY <1>11, <3>3 DEF Up
      <4> QED
        BY <2>3, <3>3, <4>1
    <3> QED
      BY <3>1, <3>2, <3>3
  <2>5. \A x : (\E k \in DOMAIN stack' : stack'[k].op # "unload" /\ stack'[k].obj = x) <=> x = a
    BY <1>4, <1>5
  <2>6. \A x \in Addrs : Up(x)' <=>
            x \in Pending' \/ \E u \in Names \ Reloaded' : modules_map'[u] = x
    BY <1>1, <2>1, <2>2, <2>4
  <2>7. \A x \in Addrs : life'[x] = "made" <=>
            \E k \in DOMAIN stack' : stack'[k].op # "unload" /\ stack'[k].obj = x
    BY <2>4, <2>5
  <2>8. \A u \in Names \ Reloaded' : Loaded(u)' => name_of'[modules_map'[u]] = u
    BY <1>1, <1>8, <1>9, <1>11, <2>2
  <2> QED
    BY <2>6, <2>7, <2>8 DEF LifeInv
<1>16. StackInv'
  <2>1. ASSUME NEW k \in DOMAIN stack'
        PROVE  LET g == stack'[k]
               IN  /\ k = 1 /\ g.op = "reload" /\ modules_map[g.name] # Null
                   /\ g.name \in hotfix_contexts /\ name_of'[g.obj] = g.name
                   /\ g.todo \subseteq deps[g.name] /\ deps[g.name] \ g.todo = {}
    BY <1>2, <1>4, <1>5, <1>11 DEF Loaded
  <2>2. Apart'
    BY <1>5 DEF Apart
  <2>3. LoadFrames'
    BY <1>1, <1>5, <1>7, <2>1, <2>2 DEF LoadFrames, Loaded
  <2> QED
    BY <1>7, <2>3 DEF StackInv, Unloading
<1>17. RootsInv'
  <2>1. /\ \A u \in Names : Loaded(u) /\ deps[u] = {} => u \in roots
        /\ recycled = {} => \A u \in roots : Loaded(u) /\ deps[u] = {}
    BY <1>1, <1>2 DEF RootsInv
  <2>2. \A u : Entered(u)' <=> u = n
    BY <1>4, <1>5 DEF Entered
  <2>3. recycled \subseteq recycled'
    BY RecycledGrows
  <2> QED
    BY <1>1, <1>2, <1>7, <1>8, <1>10, <2>1, <2>2, <2>3 DEF RootsInv
<1>18. HotfixInv'
  <2>1. \A h \in hotfixs : Loaded(h)
    BY <1>1, <1>2 DEF HotfixInv
  <2>2. call'.walk \subseteq hotfixs'
    BY <1>1, <1>7 DEF HotfixInv
  <2> QED
    BY <1>1, <1>7, <1>8, <2>1, <2>2 DEF HotfixInv
<1> QED
  BY <1>12, <1>13, <1>14, <1>15, <1>16, <1>17, <1>18

\* The new object takes the place of the old one, and the graph has its dependencies; what
\* it has lost are the users, for the module is one that may be replaced.
LEMMA ReloadFinishKeeps ==
    ASSUME MInv, ReloadFinish
    PROVE  MInv'
<1> USE DEF MInv
<1> DEFINE n == Top.name
           a == Top.obj
<1>1. /\ Loading /\ Top.op = "reload" /\ Top.todo = {}
      /\ life' = [life EXCEPT ![a] = "live"] /\ modules_map' = [modules_map EXCEPT ![n] = a]
      /\ stack' = <<>> /\ DOMAIN stack' = {}
      /\ deps' = deps /\ name_of' = name_of /\ recycled' = recycled /\ graph' = graph /\ roots' = roots
      /\ hotfixs' = hotfixs /\ destruction' = destruction /\ hotfix_contexts' = hotfix_contexts
      /\ version' = version /\ next_version' = next_version /\ file' = file /\ call' = call
  BY DEF ReloadFinish, fileVars
<1>2. /\ call.op = "update" /\ LoadFrames /\ Len(stack) = 1 /\ ~Unloading
      /\ DOMAIN stack = {1} /\ Top = stack[1]
  <2>1. call.op = "update" /\ LoadFrames /\ Len(stack) = 1 /\ ~Unloading
    BY <1>1, WhoLoads
  <2> QED
    BY <2>1, Typed DEF Top, Last
<1>3. /\ n \in Names /\ a \in Addrs /\ Loaded(n) /\ n \in hotfix_contexts /\ name_of[a] = n
      /\ \A d \in deps[n] : Loaded(d) /\ Edge(modules_map[d], a)
      /\ modules_map[n] \in Addrs /\ deps \in [Names -> SUBSET Names]
      /\ stack[1].name = n /\ stack[1].obj = a /\ stack[1].op = "reload"
  <2>1. 1 \in DOMAIN stack /\ 1 \in 1 .. Len(stack)
    BY <1>2
  <2>2. /\ Loaded(n) /\ n \in hotfix_contexts /\ name_of[a] = n
        /\ \A d \in deps[n] : Loaded(d) /\ Edge(modules_map[d], a)
    BY <1>1, <1>2, <2>1 DEF LoadFrames
  <2> QED
    BY <1>1, <1>2, <2>1, <2>2, Typed
<1> HIDE DEF n, a
<1>4. n \notin deps[n]
  <2>1. \E m \in {n} : deps[m] \cap {n} = {}
    <3>1. deps \in Shapes /\ {n} \in SUBSET Names /\ {n} # {}
      BY <1>3 DEF Types
    <3> QED
      BY <3>1, AcyclicAssumption
  <2> QED
    BY <2>1
<1>5. /\ modules_map' \in [Names -> Addrs \cup {Null}] /\ life' \in [Addrs -> {"free", "made", "live", "quiet"}]
      /\ modules_map'[n] = a /\ life'[a] = "live"
      /\ \A u \in Names : u # n => modules_map'[u] = modules_map[u]
      /\ \A x \in Addrs : x # a => life'[x] = life[x]
  BY <1>1, <1>3 DEF Types
<1>6. \A u \in Names : Loaded(u)' <=> Loaded(u)
  BY <1>3, <1>5, NullAssumption DEF Loaded
<1>7. Types' /\ VersionsInv'
  <2>1. stack' \in Seq(Frames)
    BY <1>1
  <2> QED
    BY <1>1, <1>5, <2>1 DEF Types, VersionsInv
<1>8. GraphInv'
  <2>1. GraphShape(graph)' /\ \A e \in graph'.out : name_of'[e.to] \in Names /\ Right(e.from, e.to)'
    BY <1>1 DEF GraphInv, GraphShape, Right
  <2>2. \A u \in Names : Loaded(u)' => \A d \in deps'[u] : Loaded(d)' \/ d \in hotfix_contexts'
    <3> TAKE u \in Names
    <3> HAVE Loaded(u)'
    <3>1. Loaded(u) /\ deps[u] \subseteq Names
      BY <1>3, <1>6
    <3> QED
      BY <1>1, <1>6, <3>1 DEF GraphInv
  <2>3. \A x, y \in Names : Loaded(x)' /\ Loaded(y)' /\ x \in deps'[y] /\ x \notin hotfix_contexts' =>
            Edge(modules_map[x], modules_map[y])'
    <3> SUFFICES ASSUME NEW x \in Names, NEW y \in Names, Loaded(x)', Loaded(y)', x \in deps'[y],
                        x \notin hotfix_contexts
                 PROVE  Arc(modules_map'[x], modules_map'[y], Null) \in graph.out
      BY <1>1 DEF Edge
    <3>1. x \in deps[y] /\ x # n /\ modules_map'[x] = modules_map[x]
      BY <1>1, <1>3, <1>5
    <3>2. CASE y = n
      BY <1>3, <1>5, <3>1, <3>2 DEF Edge
    <3>3. CASE y # n
      BY <1>5, <1>6, <3>1, <3>3 DEF GraphInv, Edge
    <3> QED
      BY <3>2, <3>3
  <2> QED
    BY <2>1, <2>2, <2>3 DEF GraphInv
<1>9. LifeInv'
  <2>1. Reloaded' = {} /\ Pending' = {} /\ Pending = {}
    BY <1>1, <1>2 DEF Reloaded, Pending, Unloading
  <2>2. Reloaded = {n}
    <3>1. {j \in DOMAIN stack : stack[j].op = "reload"} = {1}
      BY <1>2, <1>3
    <3> QED
      BY <1>3, <3>1 DEF Reloaded
  <2>3. \A x \in Addrs : /\ Up(x) <=> \E u \in Names \ {n} : modules_map[u] = x
                         /\ life[x] = "made" <=> x = a
    <3>1. \A x : (\E k \in DOMAIN stack : stack[k].op # "unload" /\ stack[k].obj = x) <=> x = a
      BY <1>2, <1>3
    <3> QED
      BY <1>2, <2>1, <2>2, <3>1 DEF LifeInv
  <2>4. \A x \in Addrs : /\ Up(x)' <=> \E u \in Names : modules_map'[u] = x
                         /\ life'[x] # "made"
    <3> TAKE x \in Addrs
    <3>1. CASE x = a
      BY <1>3, <1>5, <3>1 DEF Up
    <3>2. CASE x # a
      <4>1. (\E u \in Names : modules_map'[u] = x) <=> \E u \in Names \ {n} : modules_map[u] = x
        BY <1>5, <3>2
      <4>2. life'[x] = life[x] /\ (Up(x)' <=> Up(x))
        BY <1>5, <3>2 DEF Up
      <4> QED
        BY <2>3, <3>2, <4>1, <4>2
    <3> QED
      BY <3>1, <3>2
  <2>5. Names \ Reloaded' = Names /\ Pending' = {} /\ DOMAIN stack' = {}
    BY <1>1, <2>1
  <2>6. \A u \in Names : Loaded(u)' => name_of'[modules_map'[u]] = u
    <3> TAKE u \in Names
    <3> HAVE Loaded(u)'
    <3>1. CASE u = n
      BY <1>1, <1>3, <1>5, <3>1
    <3>2. CASE u # n
      <4>1. u \in Names \ Reloaded /\ Loaded(u)
        BY <1>6, <2>2, <3>2
      <4>2. name_of[modules_map[u]] = u
        BY <1>2, <4>1, LoadedIsUp
      <4> QED
        BY <1>1, <1>5, <3>2, <4>2
    <3> QED
      BY <3>1, <3>2
  <2> QED
    BY <2>4, <2>5, <2>6 DEF LifeInv
<1>10. StackInv'
  <2>1. LoadFrames'
    BY <1>1 DEF LoadFrames, Apart
  <2> QED
    BY <1>1, <1>2, <2>1 DEF StackInv, Unloading
<1>11. RootsInv'
  <2>1. \A u : Entered(u) => u = n
    BY <1>2, <1>3 DEF Entered
  <2>2. \A u : ~Entered(u)'
    BY <1>1 DEF Entered
  <2>3. /\ \A u \in Names : Loaded(u) /\ deps[u] = {} => u \in roots
        /\ recycled = {} => \A u \in roots : u \in Names /\ Loaded(u) /\ deps[u] = {}
    BY <1>2, <1>3, <2>1 DEF RootsInv, Types
  <2> QED
    BY <1>1, <1>2, <1>6, <2>2, <2>3 DEF RootsInv
<1>12. HotfixInv'
  <2>1. \A h \in hotfixs : h \in Names /\ Loaded(h)
    <3>1. \A u : Entered(u) => u = n
      BY <1>2, <1>3 DEF Entered
    <3> QED
      BY <1>2, <1>3, <3>1, NamesAssumption DEF HotfixInv, Types
  <2> QED
    BY <1>1, <1>2, <1>6, <2>1 DEF HotfixInv
<1> QED
  BY <1>7, <1>8, <1>9, <1>10, <1>11, <1>12

\* An update that fails: nothing is kept but the types and what waits for nobody.
LEMMA UpdateFailsKeeps ==
    ASSUME MInv, NEW n \in Hotfixes, UpdateFails(n)
    PROVE  MInv'
<1> USE DEF MInv
<1>1. /\ call.op = "update" /\ stack = <<>> /\ n \in call.walk
      /\ life' = [life EXCEPT ![modules_map[n]] = "free"]
      /\ call' = [NoCall EXCEPT !.op = "broken"]
      /\ deps' = deps /\ name_of' = name_of /\ recycled' = recycled /\ modules_map' = modules_map
      /\ roots' = roots /\ hotfixs' = hotfixs /\ graph' = graph /\ destruction' = destruction
      /\ hotfix_contexts' = hotfix_contexts /\ stack' = stack
      /\ version' = version /\ next_version' = next_version /\ file' = file
  BY DEF UpdateFails, mapVars, fileVars
<1>2. call' \in Calls /\ call'.op = "broken" /\ ~Unloading'
  BY <1>1 DEF NoCall, Calls, Ops, Unloading
<1>3. life' \in [Addrs -> {"free", "made", "live", "quiet"}]
  BY <1>1 DEF Types
<1>4. Types' /\ VersionsInv' /\ GraphInv'
  <2>1. GraphInv'
    BY <1>1, QuietGraph
  <2> QED
    BY <1>1, <1>2, <1>3, <2>1 DEF Types, VersionsInv
<1>5. LifeInv' /\ StackInv' /\ RootsInv' /\ HotfixInv'
  BY <1>1, <1>2 DEF LifeInv, StackInv, RootsInv, HotfixInv
<1> QED
  BY <1>4, <1>5

\* Every step of a reload.
LEMMA ReloadKeeps ==
    ASSUME MInv, ReloadStep
    PROVE  MInv'
BY UpdateKeeps, ReplaceKeeps, ReloadFinishKeeps, UpdateFailsKeeps DEF ReloadStep

-----------------------------------------------------------------------------
(* The theorems.                                                           *)

\* A step that changes nothing.
LEMMA Stutters ==
    ASSUME MInv, UNCHANGED vars
    PROVE  MInv'
<1> USE DEF MInv
<1>1. /\ deps' = deps /\ life' = life /\ name_of' = name_of /\ modules_map' = modules_map
      /\ recycled' = recycled
      /\ roots' = roots /\ hotfixs' = hotfixs /\ graph' = graph /\ destruction' = destruction
      /\ hotfix_contexts' = hotfix_contexts /\ stack' = stack /\ call' = call
      /\ version' = version /\ next_version' = next_version /\ file' = file
  BY DEF vars, objVars, mapVars, fileVars
<1>2. Types' /\ VersionsInv'
  BY <1>1 DEF Types, VersionsInv
<1>3. GraphInv'
  BY <1>1, QuietGraph
<1>4. LifeInv' /\ RootsInv' /\ HotfixInv'
  BY <1>1 DEF LifeInv, RootsInv, HotfixInv, Pending, Reloaded, Unloading, Loaded, IsRoot, Entered,
              Up
<1>5. StackInv'
  BY <1>1 DEF StackInv, LoadFrames, UnloadFrames, EndlessFrames, DestructionInv, Apart, Unloading,
              Loaded, Edge, Up, Needed
<1> QED
  BY <1>2, <1>3, <1>4, <1>5

\* The invariant holds of every run.
THEOREM Invariance == Spec => []MInv
<1>1. MInv /\ [Next]_vars => MInv'
  <2> SUFFICES ASSUME MInv, [Next]_vars PROVE MInv'
    OBVIOUS
  <2>1. CASE UNCHANGED vars
    BY <2>1, Stutters
  <2> QED
    BY <2>1, LoadKeeps, UnloadKeeps, ReloadKeeps DEF Next
<1> QED
  BY <1>1, Initially, PTL DEF Spec

\* Between calls there is nothing but what is loaded, and it is alive.
LEMMA IdleIsLoaded ==
    ASSUME MInv, Idle
    PROVE  /\ \A x \in Addrs : Up(x) <=> \E n \in Names : modules_map[n] = x
           /\ \A x \in Addrs : life[x] # "made"
           /\ \A n \in Names : Loaded(n) => name_of[modules_map[n]] = n
           /\ stack = <<>>
<1>1. call.op = "none" /\ stack = <<>> /\ DOMAIN stack = {}
  BY DEF Idle, MInv, StackInv
<1>2. Pending = {} /\ Reloaded = {}
  BY <1>1 DEF Pending, Unloading, Reloaded
<1> QED
  BY <1>1, <1>2 DEF MInv, LifeInv

\* The types, and of the loaded objects the names, and that none of them was deleted.
LEMMA TypesOk ==
    ASSUME MInv
    PROVE  TypeInv
<1>1. ASSUME call.op # "broken", NEW n \in Names, Loaded(n), ~Replaced(n)
      PROVE  name_of[modules_map[n]] = n /\ Up(modules_map[n])
  <2>1. n \notin Reloaded
    BY <1>1 DEF Reloaded, Replaced
  <2>2. CASE call.op = "endless"
    BY <1>1, <2>2 DEF MInv, StackInv, EndlessFrames
  <2>3. CASE call.op # "endless"
    BY <1>1, <2>1, <2>3, LoadedIsUp
  <2> QED
    BY <2>2, <2>3
<1>2. \A i \in DOMAIN stack : stack[i].todo \subseteq Names \cup Addrs
  <2> SUFFICES ASSUME NEW i \in DOMAIN stack PROVE stack[i].todo \subseteq Names \cup Addrs
    OBVIOUS
  <2>1. stack[i] \in Frames
    BY Typed DEF MInv
  <2> QED
    BY <2>1 DEF Frames
<1>3. call.op \in {"none", "load", "unload", "destroy", "update", "broken", "endless"}
  BY Typed DEF MInv, Ops
<1>4. roots \subseteq Names /\ hotfixs \subseteq hotfix_contexts /\ recycled \subseteq Addrs
      /\ life \in [Addrs -> {"free", "made", "live", "quiet"}]
      /\ modules_map \in [Names -> Addrs \cup {Null}]
  BY DEF MInv, Types
<1> QED
  BY <1>1, <1>2, <1>3, <1>4 DEF TypeInv, Up

\* As above, of what is between calls.
LEMMA ClosedOk ==
    ASSUME MInv
    PROVE  ClosedAndOwned
<1> SUFFICES ASSUME Idle
             PROVE  /\ \A n \in Names : Loaded(n) =>
                          \A d \in deps[n] : Loaded(d) \/ d \in hotfix_contexts
                    /\ InUse = {modules_map[n] : n \in {m \in Names : Loaded(m)}}
  BY DEF ClosedAndOwned
<1>1. \A n \in Names : Loaded(n) => \A d \in deps[n] : Loaded(d) \/ d \in hotfix_contexts
  BY DEF MInv, GraphInv
<1>2. \A x \in Addrs : x \in InUse <=> \E n \in Names : modules_map[n] = x
  <2>1. \A x \in Addrs : life[x] \in {"free", "live", "quiet"}
    BY IdleIsLoaded DEF MInv, Types
  <2>2. \A x \in Addrs : x \in InUse <=> Up(x)
    BY <2>1 DEF InUse, Up
  <2> QED
    BY <2>2, IdleIsLoaded
<1>3. \A n \in Names : Loaded(n) => modules_map[n] \in Addrs
  BY Typed DEF MInv
<1>4. \A n \in Names : modules_map[n] \in Addrs => Loaded(n)
  BY NullAssumption DEF Loaded
<1>5. InUse \subseteq Addrs
  BY DEF InUse
<1>6. InUse = {modules_map[n] : n \in {m \in Names : Loaded(m)}}
  BY <1>2, <1>3, <1>4, <1>5
<1> QED
  BY <1>1, <1>6

\* As above: the graph is what the metadata says.
LEMMA GraphOk ==
    ASSUME MInv
    PROVE  GraphIsDeps
<1> SUFFICES ASSUME Idle, NEW a \in InUse, NEW b \in InUse
             PROVE  /\ name_of[a] \in deps[name_of[b]] \ hotfix_contexts =>
                          b \in Neighbors(graph, a) /\ a \in InvNeighbors(graph, b)
                    /\ b \in Neighbors(graph, a) \/ a \in InvNeighbors(graph, b) =>
                          name_of[a] \in deps[name_of[b]] \/ {a, b} \cap recycled # {}
  BY DEF GraphIsDeps
<1>1. GraphInv /\ GraphShape(graph)
  BY DEF MInv, GraphInv
<1>2. \A x \in InUse : x \in Addrs /\ \E n \in Names : modules_map[n] = x
  <2>1. \A x \in InUse : x \in Addrs /\ Up(x)
    BY IdleIsLoaded DEF MInv, Types, InUse, Up
  <2> QED
    BY <2>1, IdleIsLoaded
<1>3. PICK m \in Names : modules_map[m] = a
  BY <1>2
<1>4. PICK n \in Names : modules_map[n] = b
  BY <1>2
<1>5. Loaded(m) /\ Loaded(n) /\ name_of[a] = m /\ name_of[b] = n
  <2>1. Loaded(m) /\ Loaded(n)
    BY <1>2, <1>3, <1>4, NullAssumption DEF Loaded
  <2> QED
    BY <1>3, <1>4, <2>1, IdleIsLoaded
<1>6. m \in deps[n] /\ m \notin hotfix_contexts => Edge(a, b)
  BY <1>1, <1>3, <1>4, <1>5 DEF GraphInv
<1>7. Edge(a, b) => m \in deps[n] \/ a \in recycled \/ b \in recycled
  <2> SUFFICES ASSUME Edge(a, b) PROVE Right(a, b)
    BY <1>5 DEF Right
  <2>1. Arc(a, b, Null) \in graph.out /\ Arc(a, b, Null).from = a /\ Arc(a, b, Null).to = b
    BY DEF Edge, Arc
  <2> QED
    BY <1>1, <2>1 DEF GraphInv
<1>8. (b \in Neighbors(graph, a) <=> Edge(a, b)) /\ (a \in InvNeighbors(graph, b) <=> Edge(a, b))
  BY <1>1, NeighborsAreEdges
<1> QED
  BY <1>5, <1>6, <1>7, <1>8

\* As above: the roots, where destroy starts.
LEMMA RootsOk ==
    ASSUME MInv
    PROVE  RootsAreRoots
<1> SUFFICES ASSUME Idle
             PROVE  /\ {n \in Names : Loaded(n) /\ deps[n] = {}} \subseteq roots
                    /\ recycled = {} => roots = {n \in Names : Loaded(n) /\ deps[n] = {}}
  BY DEF RootsAreRoots
<1>1. call.op = "none" /\ \A n : ~Entered(n)
  BY IdleIsLoaded DEF Idle, Entered
<1>2. roots \subseteq Names
  BY DEF MInv, Types
<1> QED
  BY <1>1, <1>2 DEF MInv, RootsInv

\* ModuleManagerImpl, between calls: modules_map is closed under dependencies and has every
\* object there is, the graph has the arcs that the metadata asks for, and roots are the
\* loaded modules without dependencies.  What update may have replaced is left out of what
\* must be there, and recycled addresses of what must not.
THEOREM MapAndGraph == Spec => []MapAndGraphAreDeps
<1>1. MInv => MapAndGraphAreDeps
  BY TypesOk, ClosedOk, GraphOk, RootsOk DEF MapAndGraphAreDeps
<1> QED
  BY <1>1, Invariance, PTL

\* on_load comes when the dependencies are there, and alive.
LEMMA LoadsInOrder ==
    ASSUME MInv, Next
    PROVE  LoadsAfterDependencies
<1> USE DEF MInv
<1> SUFFICES ASSUME NEW b \in Addrs, life[b] # "live", life'[b] = "live", NEW d \in deps[name_of[b]]
             PROVE  Loaded(d) /\ Up(modules_map[d])
  BY DEF LoadsAfterDependencies, Up
<1>0. life \in [Addrs -> {"free", "made", "live", "quiet"}]
  BY DEF Types
<1>1. OnLoad \/ ReloadFinish
  <2>1. LoadStep => OnLoad
    BY <1>0 DEF LoadStep, load, LoadDependency, Enter, objVars
  <2>2. ~UnloadStep
    BY <1>0 DEF UnloadStep, unload, destroy, Start, UnloadNext, UnloadUser, UnloadSelf,
                DestroyNext, UnloadReturns, objVars
  <2>3. ReloadStep => ReloadFinish
    BY <1>0 DEF ReloadStep, enable_hotfix_for_module, update, UpdateSkips, Replace, UpdateFails,
                UpdateReturns, objVars
  <2> QED
    BY <2>1, <2>2, <2>3 DEF Next
<1>2. Loading /\ Top.todo = {} /\ b = Top.obj
  <2>1. CASE OnLoad
    BY <1>0, <2>1 DEF OnLoad, Ready
  <2>2. CASE ReloadFinish
    BY <1>0, <2>2 DEF ReloadFinish
  <2> QED
    BY <1>1, <2>1, <2>2
<1>3. /\ LoadFrames /\ call.op \in {"load", "update"}
      /\ Len(stack) \in DOMAIN stack /\ Top = stack[Len(stack)] /\ Top.name \in Names
      /\ DOMAIN stack = 1 .. Len(stack)
  <2>1. stack # <<>> /\ LoadFrames /\ call.op \in {"load", "update"}
    BY <1>2, WhoLoads
  <2> QED
    BY <2>1, Typed DEF Top, Last
<1>4. name_of[b] = Top.name /\ \A e \in deps[Top.name] : e \in Names /\ Loaded(e)
  <2>1. deps[Top.name] \subseteq Names
    BY <1>3, Typed
  <2> QED
    BY <1>2, <1>3, <2>1 DEF LoadFrames
<1>5. d \notin Reloaded
  <2>1. CASE OnLoad
    <3>1. Head(stack).op = "load"
      BY <1>0, <1>2, <2>1 DEF OnLoad
    <3>2. call.op = "load"
      BY <1>2, <1>3, <3>1, WhoLoads
    <3> QED
      BY <3>2, NothingReloaded
  <2>2. CASE ReloadFinish
    <3>1. Len(stack) = 1
      BY <1>2, <2>2, WhoLoads DEF ReloadFinish
    <3>2. \A k \in DOMAIN stack : stack[k].name = Top.name
      BY <1>3, <3>1
    <3>3. d # Top.name
      <4>1. deps \in Shapes /\ {Top.name} \in SUBSET Names /\ {Top.name} # {}
        BY <1>3 DEF Types
      <4>2. \E m \in {Top.name} : deps[m] \cap {Top.name} = {}
        BY <4>1, AcyclicAssumption
      <4> QED
        BY <1>4, <4>2
    <3> QED
      BY <3>2, <3>3 DEF Reloaded
  <2> QED
    BY <1>1, <2>1, <2>2
<1> QED
  BY <1>3, <1>4, <1>5, LoadedIsUp

\* on_unload of a module that was not replaced comes when nothing alive depends on it.
LEMMA UnloadsInOrder ==
    ASSUME MInv, Next
    PROVE  UnloadsBeforeDependencies
<1> USE DEF MInv
<1> SUFFICES ASSUME NEW a \in InUse, life'[a] = "free", name_of[a] \notin hotfix_contexts,
                    NEW b \in InUse \ {a}, name_of[a] \in deps[name_of[b]]
             PROVE  FALSE
  BY DEF UnloadsBeforeDependencies
<1>0. /\ life \in [Addrs -> {"free", "made", "live", "quiet"}]
      /\ a \in Addrs /\ life[a] # "free" /\ b \in Addrs /\ life[b] # "free" /\ a # b
  BY DEF Types, InUse
<1>1. DestroyNext \/ \E n \in Hotfixes : Replace(n) \/ UpdateFails(n)
  <2>1. ~LoadStep
    BY <1>0 DEF LoadStep, load, LoadDependency, Enter, OnLoad, objVars
  <2>2. UnloadStep => DestroyNext
    BY <1>0 DEF UnloadStep, unload, destroy, Start, UnloadNext, UnloadUser, UnloadSelf,
                UnloadReturns, objVars
  <2>3. ReloadStep => \E n \in Hotfixes : Replace(n) \/ UpdateFails(n)
    BY <1>0 DEF ReloadStep, enable_hotfix_for_module, update, UpdateSkips, ReloadFinish,
                UpdateReturns, objVars
  <2> QED
    BY <2>1, <2>2, <2>3 DEF Next
<1>2. CASE DestroyNext
  <2> DEFINE i == call.done + 1
             D == Len(destruction)
             m == destruction[i]
  <2>1. /\ Unloading /\ stack = <<>> /\ call.done < D
        /\ life' = [life EXCEPT ![m.obj] = "free"]
    BY <1>2 DEF DestroyNext
  <2>2. DestructionInv /\ Reloaded = {} /\ call.op \notin {"broken", "endless"}
    BY <2>1, WhoUnloads
  <2>3. a = m.obj
    BY <1>0, <2>1
  <2>4. D \in Nat /\ call.done \in Nat /\ i \in 1 .. D
    BY <2>1, Typed
  <2>5. \A k \in 1 .. D : /\ name_of[destruction[k].obj] = destruction[k].name
                          /\ destruction[k].name \in Names
                          /\ ~Loaded(destruction[k].name)
                          /\ \A j \in 1 .. k - 1 :
                                destruction[j].name \notin deps[destruction[k].name] \ hotfix_contexts
    BY <2>2, Typed DEF DestructionInv
  <2>6. name_of[a] = m.name /\ ~Loaded(m.name) /\ m.name \in Names
    BY <2>3, <2>4, <2>5
  <2>7. b \in Pending \/ \E n \in Names : modules_map[n] = b
    <3>1. life[b] # "made"
      <4>1. DOMAIN stack = {}
        BY <2>1
      <4> QED
        BY <1>0, <2>2, <4>1 DEF LifeInv
    <3>2. Up(b)
      BY <1>0, <3>1 DEF Up
    <3> QED
      BY <1>0, <2>2, <3>2 DEF LifeInv
  <2>8. CASE \E n \in Names : modules_map[n] = b
    <3> PICK n \in Names : modules_map[n] = b
      BY <2>8
    <3>1. Loaded(n)
      BY <1>0, NullAssumption DEF Loaded
    <3>2. name_of[b] = n
      BY <2>2, <3>1, LoadedIsUp
    <3> QED
      BY <2>6, <3>1, <3>2 DEF GraphInv
  <2>9. CASE b \in Pending
    <3>1. PICK k \in i .. D : b = destruction[k].obj
      BY <2>1, <2>9 DEF Pending
    <3>2. k # i
      BY <1>0, <2>3, <3>1
    <3>3. k \in 1 .. D /\ i \in 1 .. k - 1
      BY <2>4, <3>2
    <3>4. name_of[b] = destruction[k].name
          /\ destruction[i].name \notin deps[destruction[k].name] \ hotfix_contexts
      BY <2>5, <3>1, <3>3
    <3> QED
      BY <2>6, <3>4
  <2> QED
    BY <2>7, <2>8, <2>9
<1>3. ASSUME NEW n \in Hotfixes, Replace(n) \/ UpdateFails(n) PROVE FALSE
  <2>1. call.op = "update" /\ stack = <<>> /\ n \in call.walk
    BY <1>3 DEF Replace, UpdateFails
  <2>2. /\ n \in hotfix_contexts /\ modules_map[n] \in Addrs
        /\ name_of[modules_map[n]] = n
    BY <2>1, Updated
  <2>3. a = modules_map[n]
    <3>1. CASE UpdateFails(n)
      BY <1>0, <2>2, <3>1 DEF UpdateFails
    <3>2. CASE Replace(n)
      <4> PICK e \in Addrs : life' = [life EXCEPT ![modules_map[n]] = "free", ![e] = "made"]
        BY <3>2 DEF Replace
      <4> QED
        BY <1>0, <2>2
    <3> QED
      BY <1>3, <3>1, <3>2
  <2> QED
    BY <2>2, <2>3
<1> QED
  BY <1>1, <1>2, <1>3

\* What an unload has come to needs what is below it on the stack, but for recycled arcs.
LEMMA UnloadsWhatNeeds ==
    ASSUME MInv
    PROVE  UnloadsOnlyUsers
<1> USE DEF MInv
<1>1. ASSUME Unloading \/ call.op = "endless", NEW i \in DOMAIN stack
      PROVE  IF i = 1 THEN call.op = "unload" => stack[1].name = call.arg ELSE Needed(i)
  <2>1. i > 1 \/ i = 1
    BY Typed
  <2>2. CASE Unloading
    BY <1>1, <2>1, <2>2 DEF StackInv, UnloadFrames
  <2>3. CASE call.op = "endless"
    BY <1>1, <2>1, <2>3 DEF StackInv, EndlessFrames
  <2> QED
    BY <1>1, <2>2, <2>3
<1>2. call.op = "endless" => recycled # {}
  BY DEF StackInv, EndlessFrames
<1> QED
  BY <1>1, <1>2 DEF UnloadsOnlyUsers

\* A copy goes to a file of a version that the loaded library is not from.
LEMMA CopiesApart ==
    ASSUME MInv, Next
    PROVE  CopySparesLoaded
<1> SUFFICES ASSUME NEW n \in Names, next_version'[n] # next_version[n] PROVE file'[n] # file[n]
  BY DEF CopySparesLoaded
<1>1. VersionsInv
  BY DEF MInv
<1>2. PICK m \in Names : LoadHotfixModule(m)
  <2>1. LoadStep => \E m \in Names : LoadHotfixModule(m)
    BY DEF LoadStep, load, LoadDependency, Enter, OnLoad, fileVars
  <2>2. ~UnloadStep
    BY DEF UnloadStep, unload, destroy, Start, UnloadNext, UnloadUser, UnloadSelf,
           DestroyNext, UnloadReturns, fileVars
  <2>3. ReloadStep => \E m \in Names : LoadHotfixModule(m)
    BY NamesAssumption DEF ReloadStep, enable_hotfix_for_module, update, UpdateSkips, Replace,
                           ReloadFinish, UpdateFails, UpdateReturns, fileVars
  <2> QED
    BY <2>1, <2>2, <2>3 DEF Next
<1>3. m = n /\ file'[n] = version[n] /\ file[n] < version[n] /\ file[n] \in Int /\ version[n] \in Nat
  BY <1>1, <1>2 DEF LoadHotfixModule, VersionsInv
<1> QED
  BY <1>3

\* LoadModule, UnloadModule and the hot reload: on_load after the dependencies', on_unload
\* before them, an unload takes only what needs it, and no copy goes over a mapped file;
\* but for what a reload replaced, and for recycled addresses.
THEOREM Order == Spec => OrderFollowsDeps
<1> DEFINE A == /\ LoadsAfterDependencies /\ UnloadsBeforeDependencies /\ UnloadsOnlyUsers'
                /\ CopySparesLoaded
<1>1. MInv => UnloadsOnlyUsers
  BY UnloadsWhatNeeds
<1>2. MInv /\ UnloadsOnlyUsers' /\ [Next]_vars => [A]_vars
  BY LoadsInOrder, UnloadsInOrder, CopiesApart
<1> QED
  BY <1>1, <1>2, Invariance, PTL DEF Spec, OrderFollowsDeps
=============================================================================
