------------------------------- MODULE YYTree -------------------------------
(***************************************************************************)
(* The two forms of a JSON value in yyjson.  The immutable form is one     *)
(* array of cells in document order, where a container's ofs leads behind  *)
(* its last descendant.  The mutable form is a heap of cells, where the    *)
(* children of a container are a circular list.  This module translates    *)
(* the copies from each form to each, and the comparisons, and relates     *)
(* them to plain trees:                                                    *)
(*   [t |-> "null"], [t |-> "num", sub, n], [t |-> "str", s],              *)
(*   [t |-> "arr", e], [t |-> "obj", p] with p a sequence of [k, v].       *)
(***************************************************************************)
EXTENDS JsonTree

Sum(s) == FoldSeq(LAMBDA a, b : a + b, 0, s)

-----------------------------------------------------------------------------
(* Trees and what they look like in memory.                                *)

\* get_first, get_next; the cells of the children of the container at i.
Next_(f, i) == IF IsCtn(f[i]) THEN i + f[i].ofs ELSE i + 1
Count(c) == IF c.t = "obj" THEN 2 * c.len ELSE c.len
Children(f, i) ==
    LET g[j \in 1 .. Count(f[i])] == IF j = 1 THEN i + 1 ELSE Next_(f, g[j - 1])
    IN [j \in 1 .. Count(f[i]) |-> g[j]]

\* arr_get: a flat array is indexed, another one is walked.
arr_is_flat(f, i) == f[i].len + 1 = f[i].ofs
arr_get(f, i, idx) ==
    IF idx >= f[i].len THEN 0 ELSE IF arr_is_flat(f, i) THEN i + 1 + idx
    ELSE Children(f, i)[idx + 1]
arr_get_last(f, i) ==
    IF f[i].len = 0 THEN 0 ELSE IF arr_is_flat(f, i) THEN i + f[i].len
    ELSE Children(f, i)[f[i].len]

obj_getn(f, i, k) ==
    LET c == Children(f, i)
        hits == {j \in 1 .. f[i].len : f[c[2 * j - 1]].s = k}
    IN IF hits = {} THEN 0 ELSE c[2 * (CHOOSE j \in hits : \A l \in hits : j <= l)]

\* obj_iter_getn: from the iterator's position to the end, then from the first
\* key to that position; pos is the number of keys passed.  The result is the
\* position of the key, 0 if there is none.
obj_iter_getn(f, i, pos, k) ==
    LET c == Children(f, i)
        start == IF pos = f[i].len THEN 0 ELSE pos
        Hits(S) == {j \in S : f[c[2 * j - 1]].s = k}
        After == Hits(start + 1 .. f[i].len)
        Least(S) == CHOOSE j \in S : \A l \in S : j <= l
    IN IF After # {} THEN Least(After)
       ELSE IF start = 0 \/ Hits(1 .. pos) = {} THEN 0 ELSE Least(Hits(1 .. pos))

-----------------------------------------------------------------------------
(* Copies.  A heap is a sequence of cells [c, ptr, next], c the tag and    *)
(* payload as above, ptr and next 0 where nothing was written.             *)

\* The list of the children at ks: each leads to the next, the last to the first.
Ring(ks, j) == IF j = Len(ks) THEN ks[1] ELSE ks[j + 1]
\* The child a container points to: the last value, or the last key.
Tail_(c, ks) == IF ks = <<>> THEN 0 ELSE ks[IF c.t = "obj" THEN Len(ks) - 1 ELSE Len(ks)]
Payload(c) == IF IsCtn(c) THEN [t |-> c.t, len |-> c.len] ELSE c

\* yyjson_val_mut_copy: the same cells in the same order, then linked.
val_mut_copy(f) ==
    [i \in 1 .. Len(f) |->
       LET holds == {<<p, j>> \in (1 .. i - 1) \X (1 .. Len(f)) :
                        IsCtn(f[p]) /\ j <= Count(f[p]) /\ Children(f, p)[j] = i}
       IN [c |-> Payload(f[i]),
           ptr |-> IF IsCtn(f[i]) THEN Tail_(f[i], Children(f, i)) ELSE 0,
           next |-> IF holds = {} THEN 0
                    ELSE LET h == CHOOSE h \in holds : TRUE IN Ring(Children(f, h[1]), h[2])]]

\* The children of a mutable container in list order, from the tail on.
FromTail(h, a) ==
    LET g[j \in 1 .. Count(h[a].c)] == IF j = 1 THEN h[a].ptr ELSE h[g[j - 1]].next
    IN [j \in 1 .. Count(h[a].c) |-> g[j]]
TailFirst(h, a) == FromTail(h, a)                   \* variant: the order of the list
\* ... and in document order: after the last value, or after the last pair.
InOrder(h, a) ==
    LET r == FromTail(h, a) k == IF h[a].c.t = "obj" THEN 2 ELSE 1
    IN IF r = <<>> THEN r ELSE SubSeq(r, k + 1, Len(r)) \o SubSeq(r, 1, k)

\* yyjson_mut_val_mut_copy: the cell of a, then a copy of each child, the tail
\* first; the copies are appended to out and linked as they are made.
RECURSIVE mut_val_mut_copy(_, _, _)
mut_val_mut_copy(h, a, out) ==
    LET me == Len(out) + 1
        kids == FromTail(h, a)
        start == [out |-> Append(out, [c |-> h[a].c, ptr |-> 0, next |-> 0]), at |-> <<>>]
        Copy(s, k) == [out |-> mut_val_mut_copy(h, k, s.out), at |-> Append(s.at, Len(s.out) + 1)]
        end == FoldLeft(Copy, start, kids)
    IN IF ~IsCtn(h[a].c) \/ kids = <<>> THEN start.out
       ELSE [i \in 1 .. Len(end.out) |->
               IF i = me THEN [end.out[i] EXCEPT !.ptr = end.at[1]]
               ELSE IF \E j \in DOMAIN end.at : end.at[j] = i
               THEN [end.out[i] EXCEPT !.next =
                        Ring(end.at, CHOOSE j \in DOMAIN end.at : end.at[j] = i)]
               ELSE end.out[i]]

\* yyjson_mut_stat: how many cells and how many bytes of strings a copy needs.
RECURSIVE mut_stat(_, _)
mut_stat(h, a) ==
    LET c == h[a].c
        Bytes(x) == IF x.t = "str" THEN Len(x.s) + 1 ELSE 0
        subs == [j \in 1 .. Count(c) |-> LET k == FromTail(h, a)[j]
                    IN IF IsCtn(h[k].c)
                       THEN [vals |-> mut_stat(h, k).vals - 1, strs |-> mut_stat(h, k).strs]
                       ELSE [vals |-> 0, strs |-> Bytes(h[k].c)]]
    IN IF IsCtn(c)
       THEN [vals |-> 1 + Count(c) + Sum([j \in DOMAIN subs |-> subs[j].vals]),
             strs |-> Sum([j \in DOMAIN subs |-> subs[j].strs])]
       ELSE [vals |-> 1, strs |-> Bytes(c)]

\* yyjson_imut_copy: back to cells in document order; ofs is the number written.
RECURSIVE imut_copy(_, _)
imut_copy(h, a) ==
    LET ks == InOrder(h, a)
        below == FlattenSeq([j \in DOMAIN ks |-> imut_copy(h, ks[j])])
    IN IF ~IsCtn(h[a].c) THEN <<h[a].c>>
       ELSE <<[t |-> h[a].c.t, len |-> h[a].c.len, ofs |-> Len(below) + 1]>> \o below

-----------------------------------------------------------------------------
(* Comparisons.  form is "imut" or "mut", and tells how to read a value.   *)

Cell(form, mem, i) == IF form = "imut" THEN mem[i] ELSE mem[i].c
KidsAt(form, mem, i) == IF form = "imut" THEN Children(mem, i) ELSE InOrder(mem, i)

\* yyjson_mut_obj_iter_getn: once around from the iterator's position.
mut_obj_iter_getn(h, i, pos, k) ==
    LET ks == InOrder(h, i) n == h[i].c.len
        at(d) == ((pos + d - 1) % n) + 1
        hits == {d \in 1 .. n : h[ks[2 * at(d) - 1]].c.s = k}
    IN IF hits = {} THEN 0 ELSE at(CHOOSE d \in hits : \A e \in hits : d <= e)

num_equals(x, y) ==
    \/ x.sub = y.sub /\ x.n = y.n
    \/ {x.sub, y.sub} = {"sint", "uint"} /\ x.n = y.n /\ x.n # MinusOne

RECURSIVE equals(_, _, _, _, _)
equals(form, a, i, b, j) ==
    LET x == Cell(form, a, i)
        y == Cell(form, b, j)
        ks == IF form = "imut" THEN Children(a, i) ELSE FromTail(a, i)
        ls == IF form = "imut" THEN Children(b, j) ELSE FromTail(b, j)
        Find(pos, k) == IF form = "imut" THEN obj_iter_getn(b, j, pos, k)
                        ELSE mut_obj_iter_getn(b, j, pos, k)
        \* One pair of a: s carries the iterator of b and the verdict.
        Match(s, p) ==
            LET q == Find(s.pos, Cell(form, a, ks[2 * p - 1]).s)
            IN IF ~s.ok \/ q = 0 THEN [s EXCEPT !.ok = FALSE]
               ELSE [pos |-> q, ok |-> equals(form, a, ks[2 * p], b, KidsAt(form, b, j)[2 * q])]
    IN /\ x.t = y.t
       /\ CASE x.t = "num" -> num_equals(x, y)
            [] x.t = "str" -> x.s = y.s
            [] x.t = "null" -> TRUE
            [] x.t = "arr" -> x.len = y.len /\ \A p \in 1 .. x.len : equals(form, a, ks[p], b, ls[p])
            [] x.t = "obj" ->
                 x.len = y.len
                 /\ FoldLeft(Match, [pos |-> 0, ok |-> TRUE], [p \in 1 .. x.len |-> p]).ok

-----------------------------------------------------------------------------
(* A value that is copied from form to form.                               *)

VARIABLES tree,  \* the tree that was built (history)
          form,  \* "imut" or "mut"
          mem    \* the value in that form

vars == <<tree, form, mem>>

Scalars == {Null, Num("uint", 1), Num("sint", 1), Num("sint", MinusOne),
            Num("uint", MinusOne), Num("real", 1), Str(<<"a">>)}
Few == {Null, Str(<<"a", "b">>)}
Two(k, x, l, y) == Obj(<<Pair(<<k>>, x), Pair(<<l>>, y)>>)
KeyPairs == {<<"a", "b">>, <<"b", "a">>, <<"a", "a">>}
Inner == {Arr(<<>>), Obj(<<>>), Arr(<<Null>>)}
         \cup {Two(k[1], Null, k[2], Num("uint", 1)) : k \in KeyPairs}
Three(k, x, y) == Obj(<<Pair(<<k[1]>>, Null), Pair(<<k[2]>>, x), Pair(<<k[3]>>, y)>>)
Trees == Scalars \cup Inner
         \cup {Arr(<<x, y>>) : x \in Few \cup Inner, y \in Few \cup Inner}
         \cup {Two(k[1], x, k[2], y) : k \in KeyPairs, x \in Few \cup Inner, y \in Few}
         \cup {Three(<<"a", "b", "c">>, x, Num("real", 1)) : x \in Inner}
         \cup {Three(<<"a", "c", "b">>, Num("real", 1), x) : x \in Inner}

Init == tree \in Trees /\ form = "imut" /\ mem = Flat(tree)

ToMut == form = "imut" /\ form' = "mut" /\ mem' = val_mut_copy(mem) /\ UNCHANGED tree
CopyMut == form = "mut" /\ mem' = mut_val_mut_copy(mem, 1, <<>>) /\ UNCHANGED <<tree, form>>
\* yyjson_mut_val_imut_copy: pools of the size that mut_stat found; the copy
\* writes as many cells as it finds.
ToImut ==
    /\ form = "mut" /\ form' = "imut" /\ UNCHANGED tree
    /\ mem' = imut_copy(mem, 1)

Next == ToMut \/ CopyMut \/ ToImut

-----------------------------------------------------------------------------
(* Properties.                                                             *)

RECURSIVE Read(_, _, _)
Read(fm, x, i) ==
    LET ks == KidsAt(fm, x, i)
    IN CASE Cell(fm, x, i).t = "arr" -> Arr([j \in DOMAIN ks |-> Read(fm, x, ks[j])])
         [] Cell(fm, x, i).t = "obj" ->
              LET n == Cell(fm, x, i).len
              IN Obj([j \in 1 .. n |-> Pair(Cell(fm, x, ks[2 * j - 1]).s,
                                             Read(fm, x, ks[2 * j]))])
         [] OTHER -> Cell(fm, x, i)

RECURSIVE Bytes(_)
Bytes(x) == CASE x.t = "str" -> Len(x.s) + 1
              [] IsCtn(x) -> Sum([i \in DOMAIN Kids(x) |-> Bytes(Kids(x)[i])])
              [] OTHER -> 0

\* An immutable root as the getters show it.
Getters ==
    /\ tree.t = "arr" =>
          /\ \A i \in 1 .. Len(tree.e) : Read(form, mem, arr_get(mem, 1, i - 1)) = tree.e[i]
          /\ arr_get(mem, 1, Len(tree.e)) = 0
          /\ tree.e # <<>> => Read(form, mem, arr_get_last(mem, 1)) = Last(tree.e)
    /\ tree.t = "obj" =>
          /\ obj_getn(mem, 1, <<"z">>) = 0
          /\ \A i \in 1 .. Len(tree.p) :
                (\A j \in 1 .. i - 1 : tree.p[j].k # tree.p[i].k)
                => Read(form, mem, obj_getn(mem, 1, tree.p[i].k)) = tree.p[i].v

\* The copies: whatever copies are made one after another, the value reads as
\* the tree it was made of, keys and values in their order, the getters find
\* each of them, and the pools that are measured before a copy to the immutable
\* form hold exactly what it writes.
CopiesKeepTree ==
    /\ Read(form, mem, 1) = tree
    /\ form = "imut" => Getters
    /\ form = "mut" => mut_stat(mem, 1) = [vals |-> Len(Flat(tree)), strs |-> Bytes(tree)]

Others == {x \in Trees : Unique(x)}

\* unsafe_yyjson_equals and unsafe_yyjson_mut_equals: without duplicate keys two
\* values are equal exactly when they are the same value, the order of the pairs
\* of an object aside, however the cells of the mutable ones lie.
EqualMeansSame(flat, heap) ==
    tree \in DOMAIN flat => \A x \in DOMAIN flat :
        LET y == IF form = "imut" THEN flat[x] ELSE heap[x]
        IN /\ equals(form, mem, 1, y, 1) = Same(tree, x)
           /\ equals(form, y, 1, mem, 1) = Same(tree, x)
=============================================================================
