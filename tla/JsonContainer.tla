---------------------------- MODULE JsonContainer ----------------------------
(***************************************************************************)
(* What the mutable containers of yyjson promise: a container is a         *)
(* sequence, of values for an array and of [key, val] pairs for an object, *)
(* and an iterator is a position in it.  ret is the call that was last     *)
(* made, with its arguments and its result.  YYMutDoc implements this with *)
(* circular lists.                                                         *)
(***************************************************************************)
EXTENDS SequencesExt, Integers

CONSTANTS Keys, Vals, \* keys and values
          None        \* NULL

VARIABLES kind,    \* "arr" | "obj"
          items,   \* the content, in order
          pos,     \* the iterator or context of a pointer, None without one
          ret      \* the last call: name, arguments, result

vars == <<kind, items, pos, ret>>

IsObj == kind = "obj"

Item == IF IsObj THEN [key : Keys, val : Vals] ELSE Vals
ValOf(x) == IF IsObj THEN x.val ELSE x

Without(s, i, n) == SubSeq(s, 1, i) \o SubSeq(s, i + n + 1, Len(s))
Turned(s, i) == SubSeq(s, i + 1, Len(s)) \o SubSeq(s, 1, i)
HasKey(k) == \E i \in 1 .. Len(items) : items[i].key = k
FirstOf(k) == CHOOSE i \in 1 .. Len(items) :
                  items[i].key = k /\ \A j \in 1 .. i - 1 : items[j].key # k

Init == /\ kind \in {"arr", "obj"}
        /\ items \in UNION {[1 .. n -> Item] : n \in 0 .. 4}
        /\ pos = None /\ ret = <<"none">>

Does(call, s) == ret' = call /\ items' = s /\ pos' = None

Insert(i, x) == i <= Len(items) /\ Does(<<"insert", i, x>>, InsertAt(items, i + 1, x))
Replace(i, x) ==
    i < Len(items) /\ Does(<<"replace", i, x, items[i + 1]>>, [items EXCEPT ![i + 1] = x])
Delete(i) == i < Len(items) /\ Does(<<"remove", i, items[i + 1]>>, Without(items, i, 1))
RemoveRange(i, n) == i + n <= Len(items) /\ Does(<<"range", i, n>>, Without(items, i, n))
Rotate(i) == i < Len(items) /\ Does(<<"rotate", i>>, Turned(items, i))
Clear == Does(<<"clear">>, <<>>)

\* Of an object only.  put keeps the first pair of the key, or appends, and
\* drops the others; without a value it drops them all, as remove does.
Put(k, v) ==
    LET new == [key |-> k, val |-> v]
        rest(s) == SelectSeq(s, LAMBDA x : x.key # k)
    IN Does(<<"put", k, v>>,
            IF HasKey(k)
            THEN SubSeq(items, 1, FirstOf(k) - 1) \o <<new>> \o
                 rest(SubSeq(items, FirstOf(k) + 1, Len(items)))
            ELSE Append(items, new))
RemoveKey(k) ==
    Does(<<"removekey", k, IF HasKey(k) THEN items[FirstOf(k)].val ELSE None>>,
         SelectSeq(items, LAMBDA x : x.key # k))
ReplaceKey(k, v) ==
    Does(<<"replacekey", k, v, HasKey(k)>>,
         IF HasKey(k) THEN [items EXCEPT ![FirstOf(k)].val = v] ELSE items)
Rename(k, new) ==
    Does(<<"rename", k, new, HasKey(k)>>,
         [i \in 1 .. Len(items) |->
             IF items[i].key = k THEN [items[i] EXCEPT !.key = new] ELSE items[i]])

\* The next item of an iterator has pos[2] items in front of it, and it stops when it
\* has counted pos[3] up to their number.
Iterates == pos # None /\ pos[1] = "iter" /\ UNCHANGED items
IterInit == pos' = <<"iter", 0, 0>> /\ ret' = <<"iter">> /\ UNCHANGED items
IterNext ==
    /\ Iterates
    /\ IF pos[3] < Len(items)
       THEN pos' = <<"iter", (pos[2] + 1) % Len(items), pos[3] + 1>> /\ ret' = <<"next", items[pos[2] + 1]>>
       ELSE pos' = pos /\ ret' = <<"next", None>>
\* The item that it came to last goes.
IterRemove ==
    LET i == IF pos[2] = 0 THEN Len(items) ELSE pos[2]
    IN /\ pos # None /\ pos[1] = "iter" /\ pos[3] > 0
       /\ items' = Without(items, i - 1, 1)
       /\ pos' = <<"iter", IF i = Len(items) THEN 0 ELSE i - 1, pos[3] - 1>>
       /\ ret' = <<"iterremove", ValOf(items[i])>>
\* The search goes round from the iterator's position and moves it to the key. How many
\* items it finds afterwards is promised only if it did not go round the end.
IterGet(k) ==
    LET at(d) == ((pos[2] + d - 1) % Len(items)) + 1
        hits == {d \in 1 .. Len(items) : items[at(d)].key = k}
    IN /\ Iterates
       /\ IF hits = {} THEN pos' = pos /\ ret' = <<"get", k, None>>
          ELSE LET d == CHOOSE d \in hits : \A e \in hits : d <= e
                   counts == IF pos[3] + d <= Len(items) THEN {pos[3] + d} ELSE 0 .. Len(items)
               IN /\ \E c \in counts : pos' = <<"iter", at(d) % Len(items), c>>
                  /\ ret' = <<"get", k, items[at(d)].val>>

\* A context of a JSON pointer stands on the item at index pos[2], or on none.
Ctx(i) == <<"ctx", i>>
CtxGet(i) == /\ pos' = Ctx(IF i < Len(items) THEN i ELSE None) /\ ret' = <<"ctxget", i>>
             /\ UNCHANGED items
CtxAppend(x) ==
    LET i == IF pos[2] = None THEN Len(items) ELSE pos[2] + 1
    IN /\ pos # None /\ pos[1] = "ctx" /\ ret' = <<"ctxappend", x>>
       /\ items' = InsertAt(items, i + 1, x) /\ pos' = Ctx(i)
CtxReplace(v) ==
    /\ pos # None /\ pos[1] = "ctx" /\ pos[2] # None /\ pos' = pos
    /\ ret' = <<"ctxreplace", v, ValOf(items[pos[2] + 1])>>
    /\ items' = [items EXCEPT ![pos[2] + 1] = IF IsObj THEN [@ EXCEPT !.val = v] ELSE v]
CtxRemove ==
    /\ pos # None /\ pos[1] = "ctx" /\ pos[2] # None /\ pos' = Ctx(None)
    /\ ret' = <<"ctxremove", ValOf(items[pos[2] + 1])>> /\ items' = Without(items, pos[2], 1)

Call(name) == ret'[1] = name
Step ==
    \/ Call("insert") /\ \E i \in 0 .. Len(items), x \in Item : Insert(i, x)
    \/ Call("rotate") /\ \E i \in 0 .. Len(items) : Rotate(i)
    \/ Clear \/ IterInit
    \/ Call("next") /\ IterNext
    \/ Call("iterremove") /\ IterRemove
    \/ Call("ctxget") /\ \E i \in 0 .. Len(items) : CtxGet(i)
    \/ Call("ctxappend") /\ \E x \in Item : CtxAppend(x)
    \/ Call("ctxreplace") /\ \E v \in Vals : CtxReplace(v)
    \/ Call("ctxremove") /\ CtxRemove
    \/ /\ ~IsObj
       /\ \E i \in 0 .. Len(items) :
             \/ Call("remove") /\ Delete(i)
             \/ Call("replace") /\ \E x \in Item : Replace(i, x)
             \/ Call("range") /\ \E n \in 0 .. Len(items) : RemoveRange(i, n)
    \/ /\ IsObj
       /\ \E k \in Keys :
             \/ Call("removekey") /\ RemoveKey(k)
             \/ Call("get") /\ IterGet(k)
             \/ Call("put") /\ \E v \in Vals : Put(k, v)
             \/ Call("replacekey") /\ \E v \in Vals : ReplaceKey(k, v)
             \/ Call("rename") /\ \E new \in Keys : Rename(k, new)

Next == Step /\ UNCHANGED kind

Spec == Init /\ [][Next]_vars
=============================================================================
