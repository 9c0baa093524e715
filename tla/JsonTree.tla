------------------------------ MODULE JsonTree ------------------------------
(***************************************************************************)
(* JSON values as plain trees, which is what the yyjson modules state      *)
(* their properties about: [t |-> "null"], [t |-> "num", sub, n] with the  *)
(* subtype and the 64 bits of a number, [t |-> "str", s], [t |-> "arr", e] *)
(* and [t |-> "obj", p] with p a sequence of [k, v].                       *)
(***************************************************************************)
EXTENDS SequencesExt, Integers

Null == [t |-> "null"]
Num(sub, n) == [t |-> "num", sub |-> sub, n |-> n]
Str(s) == [t |-> "str", s |-> s]
Arr(e) == [t |-> "arr", e |-> e]
Pair(k, v) == [k |-> k, v |-> v]
Obj(p) == [t |-> "obj", p |-> p]

IsCtn(x) == x.t \in {"arr", "obj"}
Size(x) == IF x.t = "arr" THEN Len(x.e) ELSE Len(x.p)

\* The values of a container, and the values and keys.
Values(x) == IF x.t = "arr" THEN x.e ELSE [i \in 1 .. Len(x.p) |-> x.p[i].v]
Kids(x) == IF x.t = "arr" THEN x.e
           ELSE FlattenSeq([i \in 1 .. Len(x.p) |-> <<Str(x.p[i].k), x.p[i].v>>])
RECURSIVE Nodes(_)
Nodes(x) == IF ~IsCtn(x) THEN 1
            ELSE FoldSeq(LAMBDA y, n : n + Nodes(y), 1, Values(x))

\* The 64 bits that are negative as a signed number; no other number here has
\* its high bit set.
MinusOne == 3

\* The same value: numbers are compared as numbers, the pairs of an object in
\* any order.
RECURSIVE Same(_, _)
Same(x, y) ==
    \/ x = y
    \/ /\ x.t = "num" /\ y.t = "num" /\ x.n = y.n /\ x.n # MinusOne
       /\ {x.sub, y.sub} = {"sint", "uint"}
    \/ /\ x.t = "arr" /\ y.t = "arr" /\ Len(x.e) = Len(y.e)
       /\ \A i \in DOMAIN x.e : Same(x.e[i], y.e[i])
    \/ /\ x.t = "obj" /\ y.t = "obj" /\ Len(x.p) = Len(y.p)
       /\ \A i \in DOMAIN x.p : \E j \in DOMAIN y.p :
             x.p[i].k = y.p[j].k /\ Same(x.p[i].v, y.p[j].v)

\* The immutable form, which the reader and imut_copy make: cells in
\* document order, where ofs leads behind the last descendant of a container.
RECURSIVE Flat(_)
Flat(x) ==
    IF ~IsCtn(x) THEN <<x>>
    ELSE LET below == FlattenSeq([i \in DOMAIN Kids(x) |-> Flat(Kids(x)[i])])
         IN <<[t |-> x.t, len |-> Size(x), ofs |-> Len(below) + 1]>> \o below

\* No object has a key twice.
RECURSIVE Unique(_)
Unique(x) == IsCtn(x) =>
    /\ x.t = "obj" => Cardinality({x.p[i].k : i \in DOMAIN x.p}) = Len(x.p)
    /\ \A i \in 1 .. Size(x) : Unique(Values(x)[i])
=============================================================================
