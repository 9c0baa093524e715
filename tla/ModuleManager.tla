---------------------------- MODULE ModuleManager ----------------------------
(***************************************************************************)
(* ModuleManagerImpl: loads modules after their dependencies, unloads them *)
(* with everything that depends on them, and replaces hot reloadable ones. *)
(* One thread calls it; LoadModule and UnloadModule recurse through user   *)
(* callbacks, so stack holds their activations and each step is one visit. *)
(* A module object is known by its address, as in the dependency graph.    *)
(***************************************************************************)
EXTENDS DependencyGraph, Sequences, SequencesExt

CONSTANTS Names,       \* module names, each with a hash of its own
          Shapes,      \* what "dependencies" of the metadata may say, acyclic
          Hotfixes,    \* names that enable_hotfix_for_module is called with
          Addrs,       \* bound: addresses of module objects
          MaxVersion   \* bound: hot reloads of one module

Null == "nullptr"
NoFile == -1

ASSUME NamesAssumption == Shapes \subseteq [Names -> SUBSET Names] /\ Hotfixes \subseteq Names
ASSUME AcyclicAssumption ==
    \A d \in Shapes : \A S \in SUBSET Names : S # {} => \E n \in S : d[n] \cap S = {}
ASSUME NullAssumption == Null \notin Names /\ Null \notin Addrs
ASSUME BoundsAssumption == MaxVersion \in Nat

VARIABLES deps,          \* the metadata: direct dependencies of each name
          name_of,       \* IModule::name of the object at an address
          life,          \* of an address: free, made (not in modules_map yet), live,
                         \* or quiet: loaded by a reload, without on_load
          graph,         \* dependency_graph, an edge from dependency to user
          modules_map, roots, hotfixs, destruction,
          hotfix_contexts, version, next_version,   \* names enabled; ModuleContext
          file,          \* version of the library file the loaded module is from
          stack,         \* activations of LoadModule, UnloadModule, update's body
          call,          \* the exported function that runs, and its loop
          recycled       \* history: addresses the graph still had for an object of
                         \* one name when an object of another was made there

mapVars == <<modules_map, roots, hotfixs>>
objVars == <<name_of, life, recycled>>
fileVars == <<version, next_version, file>>
vars == <<deps, objVars, graph, mapVars, destruction, hotfix_contexts, fileVars, stack, call>>

NoCall == [op |-> "none", arg |-> Null, walk |-> {}, done |-> 0]

Init ==
    /\ deps \in Shapes
    /\ name_of = [a \in Addrs |-> Null] /\ life = [a \in Addrs |-> "free"]
    /\ graph = NoGraph
    /\ modules_map = [n \in Names |-> Null] /\ roots = {} /\ hotfixs = {}
    /\ destruction = <<>> /\ hotfix_contexts = {}
    /\ version = [n \in Names |-> 0] /\ next_version = [n \in Names |-> 1]
    /\ file = [n \in Names |-> NoFile]
    /\ stack = <<>> /\ call = NoCall /\ recycled = {}

Loaded(n) == modules_map[n] # Null
Top == Last(stack)
Idle == call.op = "none"

-----------------------------------------------------------------------------
(* LoadModule and ParseMetaData.                                           *)

Frame(op, n, a, todo) == [op |-> op, name |-> n, obj |-> a, todo |-> todo]

\* new: any free address, one that the graph still refers to as well.
Fresh(a) == life[a] = "free"
Recycle(a, n) ==
    recycled' = IF a \in NodesOf(graph) /\ name_of[a] # n THEN recycled \cup {a} ELSE recycled

\* LoadHotfixModule copies the library to a path with ctx.version in its name
\* and loads the copy.
SameVersion(n) == version[n]                       \* variant: version not advanced
NextVersion(n) == next_version[n]
LoadHotfixModule(n) ==
    /\ version[n] < MaxVersion
    /\ file' = [file EXCEPT ![n] = version[n]]
    /\ next_version' = [next_version EXCEPT ![n] = @ + 1]
    /\ version' = [version EXCEPT ![n] = NextVersion(n)]

\* A module that is not in modules_map: the object is made, and ParseMetaData
\* starts on its dependencies.
Enter(n) ==
    /\ \E a \in Addrs :
         /\ Fresh(a) /\ Recycle(a, n)
         /\ life' = [life EXCEPT ![a] = "made"] /\ name_of' = [name_of EXCEPT ![a] = n]
         /\ stack' = Append(stack, Frame("load", n, a, deps[n]))
    /\ roots' = IF deps[n] = {} THEN roots \cup {n} ELSE roots
    /\ IF n \in hotfix_contexts
       THEN hotfixs' = hotfixs \cup {n} /\ LoadHotfixModule(n)
       ELSE UNCHANGED <<hotfixs, fileVars>>
    /\ UNCHANGED <<deps, graph, modules_map, destruction, hotfix_contexts>>

load(n) ==
    /\ Idle /\ ~Loaded(n)
    /\ call' = [NoCall EXCEPT !.op = "load"]
    /\ Enter(n)

\* add_edge(dep_module, module), in the activation s of the module that asked.
Backwards(g, dep, user) == AddEdge(g, user, dep, Null)   \* variant: edge turned round
Depend(g, dep, user) == AddEdge(g, dep, user, Null)
Give(s, n, a) ==
    /\ stack' = Append(Front(s), [Last(s) EXCEPT !.todo = @ \ {n}])
    /\ graph' = Depend(graph, a, Last(s).obj)

Loading == stack # <<>> /\ Top.op \in {"load", "reload"}

LoadDependency(n) ==
    /\ Loading /\ n \in Top.todo
    /\ \/ /\ Loaded(n) /\ Give(stack, n, modules_map[n])
          /\ UNCHANGED <<deps, objVars, mapVars, destruction, hotfix_contexts, fileVars>>
       \/ ~Loaded(n) /\ Enter(n)
    /\ UNCHANGED call

\* on_load, once the dependencies are there, unless a reload brought us here;
\* then modules_map.emplace.
Eager(todo) == TRUE                                \* variant: on_load first
Ready(todo) == todo = {}
OnLoad ==
    /\ Loading /\ Top.op = "load" /\ Ready(Top.todo)
    /\ life' = [life EXCEPT ![Top.obj] = IF Head(stack).op = "load" THEN "live" ELSE "quiet"]
    /\ modules_map' = [modules_map EXCEPT ![Top.name] = Top.obj]
    /\ IF Len(stack) = 1
       THEN stack' = <<>> /\ call' = NoCall /\ UNCHANGED graph
       ELSE Give(Front(stack), Top.name, Top.obj) /\ UNCHANGED call
    /\ UNCHANGED <<deps, name_of, recycled, roots, hotfixs, destruction, hotfix_contexts,
                   fileVars>>

-----------------------------------------------------------------------------
(* UnloadModule and DestroyModules.                                        *)

Unloading == call.op \in {"unload", "destroy"}

Start(op, n, walk) ==
    /\ Idle /\ destruction' = <<>>
    /\ call' = [op |-> op, arg |-> n, walk |-> walk, done |-> 0]
    /\ UNCHANGED <<deps, objVars, graph, mapVars, hotfix_contexts, fileVars, stack>>

unload(n) == Start("unload", n, {n})
destroy == Start("destroy", Null, roots)

\* UnloadModule(n) on top of s: nothing for a name that is not loaded.
Visit(s, n) ==
    IF n = Null \/ ~Loaded(n) THEN s
    ELSE Append(s, Frame("unload", n, modules_map[n], Neighbors(graph, modules_map[n])))

UnloadNext ==
    /\ Unloading /\ stack = <<>>
    /\ \E n \in call.walk :
         /\ stack' = Visit(<<>>, n)
         /\ call' = [call EXCEPT !.walk = @ \ {n}]
    /\ UNCHANGED <<deps, objVars, graph, mapVars, destruction, hotfix_contexts, fileVars>>

\* The callback of foreach_neighbors reads node->name.  Of a deleted module the
\* old bytes may still be there, or others that are the name of nothing.
NameRead(a) == IF life[a] = "free" THEN {name_of[a], Null} ELSE {name_of[a]}

\* A name that is being unloaded is still in modules_map: the recursion comes to
\* the same neighbour again and does not end, and nothing that follows is modelled.
UnloadUser(a) ==
    /\ Unloading /\ stack # <<>> /\ a \in Top.todo
    /\ \E n \in NameRead(a) :
         /\ stack' = Visit(Append(Front(stack), [Top EXCEPT !.todo = @ \ {a}]), n)
         /\ call' = IF \E i \in DOMAIN stack : stack[i].name = n
                    THEN [call EXCEPT !.op = "endless"] ELSE call
    /\ UNCHANGED <<deps, objVars, graph, mapVars, destruction, hotfix_contexts, fileVars>>

\* The users are gone: out of modules_map, into destruction.
DestroyFirst(d, m) == <<m>> \o d                   \* variant: destroyed before users
DestroyLast(d, m) == Append(d, m)
NotErased(n) == modules_map                        \* variant: entry kept
Erased(n) == [modules_map EXCEPT ![n] = Null]
UnloadSelf ==
    /\ Unloading /\ stack # <<>> /\ Top.todo = {}
    /\ modules_map' = Erased(Top.name)
    /\ destruction' = DestroyLast(destruction, [obj |-> Top.obj, name |-> Top.name])
    /\ stack' = Front(stack)
    /\ UNCHANGED <<deps, objVars, graph, roots, hotfixs, hotfix_contexts, fileVars, call>>

\* One turn of DestroyModules: remove_vertex, on_unload, delete, and after that
\* the library.
DestroyNext ==
    /\ Unloading /\ stack = <<>> /\ call.walk = {} /\ call.done < Len(destruction)
    /\ LET m == destruction[call.done + 1]
       IN  /\ hotfixs' = hotfixs \ {m.name}
           /\ graph' = RemoveVertex(graph, m.obj)
           /\ life' = [life EXCEPT ![m.obj] = "free"]
           /\ file' = [file EXCEPT ![m.name] = NoFile]
    /\ call' = [call EXCEPT !.done = @ + 1]
    /\ UNCHANGED <<deps, name_of, recycled, modules_map, roots, destruction, hotfix_contexts,
                   version, next_version, stack>>

RootsKept(rs) == rs                                \* variant: root not erased
RootsLeft(rs) == rs \ {call.arg}
UnloadReturns ==
    /\ Unloading /\ stack = <<>> /\ call.walk = {} /\ call.done = Len(destruction)
    /\ roots' = IF call.op = "destroy" THEN {} ELSE RootsLeft(roots)
    /\ call' = NoCall
    /\ UNCHANGED <<deps, objVars, graph, modules_map, hotfixs, destruction,
                   hotfix_contexts, fileVars, stack>>

-----------------------------------------------------------------------------
(* Hot reload.                                                             *)

enable_hotfix_for_module(n) ==
    /\ Idle /\ hotfix_contexts' = hotfix_contexts \cup {n}
    /\ UNCHANGED <<deps, objVars, graph, mapVars, destruction, fileVars, stack, call>>

update ==
    /\ Idle /\ hotfixs # {}
    /\ call' = [NoCall EXCEPT !.op = "update", !.walk = hotfixs]
    /\ UNCHANGED <<deps, objVars, graph, mapVars, destruction, hotfix_contexts, fileVars, stack>>

UpdateSkips(n) ==                                  \* the file has not changed
    /\ call.op = "update" /\ stack = <<>> /\ n \in call.walk
    /\ call' = [call EXCEPT !.walk = @ \ {n}]
    /\ UNCHANGED <<deps, objVars, graph, mapVars, destruction, hotfix_contexts, fileVars, stack>>

\* The old object is deleted, then the new one made.  The old library stays
\* loaded in a local variable until the new one is.
Replace(n) ==
    /\ call.op = "update" /\ stack = <<>> /\ n \in call.walk
    /\ \E a \in Addrs :
         /\ (a = modules_map[n] \/ Fresh(a)) /\ Recycle(a, n)
         /\ life' = [life EXCEPT ![modules_map[n]] = "free", ![a] = "made"]
         /\ name_of' = [name_of EXCEPT ![a] = n]
         /\ stack' = <<Frame("reload", n, a, deps[n])>>
    /\ LoadHotfixModule(n)
    /\ call' = [call EXCEPT !.walk = @ \ {n}]
    /\ roots' = IF deps[n] = {} THEN roots \cup {n} ELSE roots
    /\ UNCHANGED <<deps, graph, modules_map, hotfixs, destruction, hotfix_contexts>>

\* modules_map[hash] = new_module; the state moves over, on_reload_finish.
ReloadFinish ==
    /\ Loading /\ Top.op = "reload" /\ Top.todo = {}
    /\ life' = [life EXCEPT ![Top.obj] = "live"]
    /\ modules_map' = [modules_map EXCEPT ![Top.name] = Top.obj]
    /\ stack' = <<>>
    /\ UNCHANGED <<deps, name_of, recycled, graph, roots, hotfixs, destruction,
                   hotfix_contexts, fileVars, call>>

\* The library is missing or broken: update is false.  The old object is gone
\* and modules_map still has it, so nothing that follows is modelled.
UpdateFails(n) ==
    /\ call.op = "update" /\ stack = <<>> /\ n \in call.walk
    /\ life' = [life EXCEPT ![modules_map[n]] = "free"]
    /\ call' = [NoCall EXCEPT !.op = "broken"]
    /\ UNCHANGED <<deps, name_of, recycled, graph, mapVars, destruction, hotfix_contexts,
                   fileVars, stack>>

UpdateReturns ==
    /\ call.op = "update" /\ stack = <<>> /\ call.walk = {}
    /\ call' = NoCall
    /\ UNCHANGED <<deps, objVars, graph, mapVars, destruction, hotfix_contexts, fileVars, stack>>

LoadStep == (\E n \in Names : load(n) \/ LoadDependency(n)) \/ OnLoad
UnloadStep == \/ \E n \in Names : unload(n)
              \/ \E a \in Addrs : UnloadUser(a)
              \/ destroy \/ UnloadNext \/ UnloadSelf \/ DestroyNext \/ UnloadReturns
ReloadStep == \/ \E n \in Hotfixes :
                   enable_hotfix_for_module(n) \/ UpdateSkips(n) \/ Replace(n)
                  \/ UpdateFails(n)
              \/ update \/ ReloadFinish \/ UpdateReturns

Next == LoadStep \/ UnloadStep \/ ReloadStep

Spec == Init /\ [][Next]_vars

-----------------------------------------------------------------------------
(* Properties.                                                             *)

InUse == {a \in Addrs : life[a] # "free"}

\* The module whose old object is gone and whose new one is not in modules_map yet.
Replaced(n) == \E i \in DOMAIN stack : stack[i].op = "reload" /\ stack[i].name = n

TypeInv ==
    /\ modules_map \in [Names -> Addrs \cup {Null}]
    /\ life \in [Addrs -> {"free", "made", "live", "quiet"}]
    /\ roots \subseteq Names /\ hotfixs \subseteq hotfix_contexts /\ recycled \subseteq Addrs
    /\ call.op \in {"none", "load", "unload", "destroy", "update", "broken", "endless"}
    /\ call.op # "broken" =>
          \A n \in Names : Loaded(n) /\ ~Replaced(n) =>
              name_of[modules_map[n]] = n /\ life[modules_map[n]] \in {"live", "quiet"}
    /\ \A i \in DOMAIN stack : stack[i].todo \subseteq Names \cup Addrs

\* Between calls every object there is is in modules_map, which holds what a loaded
\* module needs: all of it but modules that update may have replaced.
ClosedAndOwned ==
    Idle => /\ \A n \in Names : Loaded(n) =>
                   \A d \in deps[n] : Loaded(d) \/ d \in hotfix_contexts
            /\ InUse = {modules_map[n] : n \in {m \in Names : Loaded(m)}}

\* Between calls the graph has an edge, in both of its maps, from every loaded module
\* to everyone who needs it, but for modules that update may have replaced; and it has
\* no edge besides, but at recycled addresses.
GraphIsDeps ==
    Idle => \A a, b \in InUse :
        /\ name_of[a] \in deps[name_of[b]] \ hotfix_contexts =>
              b \in Neighbors(graph, a) /\ a \in InvNeighbors(graph, b)
        /\ b \in Neighbors(graph, a) \/ a \in InvNeighbors(graph, b) =>
              name_of[a] \in deps[name_of[b]] \/ {a, b} \cap recycled # {}

\* Between calls the loaded modules without dependencies are roots: what destroy
\* starts from; and roots has no other name, which dump_graphviz would not find in
\* modules_map, as long as no address was recycled.
RootsAreRoots ==
    Idle => LET without == {n \in Names : Loaded(n) /\ deps[n] = {}}
            IN  without \subseteq roots /\ (recycled = {} => roots = without)

\* Between calls modules_map, the graph and roots agree with the metadata.
MapAndGraphAreDeps == TypeInv /\ ClosedAndOwned /\ GraphIsDeps /\ RootsAreRoots

\* on_load of a module comes after its dependencies are in modules_map, and after
\* their on_load unless a reload loaded them.
LoadsAfterDependencies ==
    \A b \in Addrs : life[b] # "live" /\ life'[b] = "live" =>
        \A d \in deps[name_of[b]] : Loaded(d) /\ life[modules_map[d]] \in {"live", "quiet"}

\* on_unload of a module that update cannot have replaced comes before on_unload of
\* anything it depends on.
UnloadsBeforeDependencies ==
    \A a \in InUse : life'[a] = "free" /\ name_of[a] \notin hotfix_contexts =>
        \A b \in InUse \ {a} : name_of[a] \notin deps[name_of[b]]

\* unload visits the module it is told to and then, from each module, those that need
\* it and no others, but along edges of recycled addresses; and only these can lead it
\* round in a circle.
Needed(i) ==
    \/ stack[i - 1].name \in deps[stack[i].name]
    \/ ({stack[i - 1].obj} \cup Neighbors(graph, stack[i - 1].obj)) \cap recycled # {}
UnloadsOnlyUsers ==
    /\ Unloading \/ call.op = "endless" =>
          \A i \in DOMAIN stack :
              IF i = 1 THEN call.op = "unload" => stack[1].name = call.arg ELSE Needed(i)
    /\ call.op = "endless" => recycled # {}

\* A hot reload never copies a library over the file of one that is loaded.
CopySparesLoaded ==
    \A n \in Names : next_version'[n] # next_version[n] => file'[n] # file[n]

\* Every step of a load, an unload or a reload keeps the order of dependencies, and
\* no reload overwrites what is still mapped.
OrderFollowsDeps ==
    [][/\ LoadsAfterDependencies /\ UnloadsBeforeDependencies /\ UnloadsOnlyUsers'
       /\ CopySparesLoaded]_vars

\* tests/graph.cpp, "remove vertex": what was removed is nobody's neighbour.
RemovedIsGone == Idle => NodesOf(graph) \subseteq InUse
=============================================================================
