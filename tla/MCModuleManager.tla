--------------------------- MODULE MCModuleManager ---------------------------
(* Small dependency graphs for the runs of ModuleManager.                  *)
EXTENDS ModuleManager

CONSTANTS a, b, c

\* Every acyclic graph over three modules that names them in dependency order.
MCShapes == {d \in [Names -> SUBSET Names] :
                d[a] = {} /\ d[b] \subseteq {a} /\ d[c] \subseteq {a, b}}

\* What later steps can tell apart: not the names once at addresses nothing refers to,
\* not the last call's destruction, and of versions only their distances.
View == <<deps, modules_map, life, graph, roots, hotfixs, hotfix_contexts, stack, call, recycled,
          [x \in Addrs |-> IF x \in InUse \cup NodesOf(graph) THEN name_of[x] ELSE Null],
          IF Unloading THEN destruction ELSE <<>>,
          [n \in Names |-> <<next_version[n] - version[n],
                             IF file[n] = NoFile THEN 0 ELSE version[n] - file[n]>>]>>

Symmetric == Permutations(Addrs)
=============================================================================
