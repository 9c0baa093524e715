------------------------------- MODULE YYMutDoc -------------------------------
(***************************************************************************)
(* The mutable containers of yyjson: the values of an array, or the keys   *)
(* and values of an object by turns, are a circular list through next, and *)
(* the container points to its last value (array) or last key (object).    *)
(* One container and a pool of cells; a removed cell may come back as a    *)
(* new value, with whatever next it had.                                   *)
(***************************************************************************)
EXTENDS SequencesExt, Integers

CONSTANTS MaxValues, MaxPairs,  \* bounds: of an array, of an object
          Keys, Data, \* strings of the keys, payloads of an object's values
          None        \* NULL

VARIABLES kind, \* the container: "arr" | "obj"
          m,    \* the memory: [next, str, data] per cell, ptr and len of the container
          it,   \* the iterator, or the context of a pointer; None without one
          ret   \* the last call: name, arguments, result

vars == <<kind, m, it, ret>>

IsObj == kind = "obj"
MaxLen == IF IsObj THEN MaxPairs ELSE MaxValues

KeyCells == 1 .. MaxLen                          \* in an array: the values
ValCells == IF IsObj THEN MaxLen + 1 .. 2 * MaxLen ELSE {}
Cells == KeyCells \cup ValCells

-----------------------------------------------------------------------------
(* Walking.                                                                *)

\* The cell i hops behind x, and s after n turns of Op.
Follow(mem, x, i) == LET f[j \in 0 .. i] == IF j = 0 THEN x ELSE mem.next[f[j - 1]] IN f[i]
Turns(Op(_), s, n) == LET f[j \in 0 .. n] == IF j = 0 THEN s ELSE Op(f[j - 1]) IN f[n]

\* The cell that leads out of the item at c, and the item after it.
Out(mem, c) == IF IsObj THEN mem.next[c] ELSE c
Hop(mem, c) == mem.next[Out(mem, c)]

\* arr_get, get_first, get_last: the item at index i.
arr_get(mem, i) == IF i < mem.len THEN Follow(mem, mem.ptr, i + 1) ELSE None
arr_get_first(mem) == IF mem.len > 0 THEN mem.next[mem.ptr] ELSE None
arr_get_last(mem) == IF mem.len > 0 THEN mem.ptr ELSE None

\* The cells of the items in order, as every reader of the container finds them.
Walk(mem) == [i \in 1 .. mem.len |-> Turns(LAMBDA c : Hop(mem, c), mem.ptr, i)]

obj_getn(mem, k) ==
    LET w == Walk(mem)
        hits == {i \in 1 .. mem.len : mem.str[w[i]] = k}
    IN IF hits = {} THEN None ELSE mem.next[w[CHOOSE i \in hits : \A j \in hits : i <= j]]

-----------------------------------------------------------------------------
(* Arrays.                                                                 *)

LinkAfter(mem, prev, v) ==
    [mem EXCEPT !.next = [@ EXCEPT ![prev] = v, ![v] = mem.next[prev]], !.len = @ + 1]
Alone(mem, v) == [mem EXCEPT !.next[v] = v, !.ptr = v, !.len = 1]

arr_insert(mem, v, i) ==
    IF mem.len = 0 THEN Alone(mem, v)
    ELSE IF i = mem.len THEN [LinkAfter(mem, mem.ptr, v) EXCEPT !.ptr = v]
    ELSE LinkAfter(mem, Follow(mem, mem.ptr, i), v)
arr_append(mem, v) ==
    IF mem.len = 0 THEN Alone(mem, v) ELSE [LinkAfter(mem, mem.ptr, v) EXCEPT !.ptr = v]
arr_prepend(mem, v) == IF mem.len = 0 THEN Alone(mem, v) ELSE LinkAfter(mem, mem.ptr, v)

arr_replace(mem, i, v) ==
    LET prev == Follow(mem, mem.ptr, i)
        old == mem.next[prev]
    IN IF mem.len > 1
       THEN [mem EXCEPT !.next = [@ EXCEPT ![prev] = v, ![v] = mem.next[old]],
                        !.ptr = IF old = @ THEN v ELSE @]
       ELSE [mem EXCEPT !.next[v] = v, !.ptr = v]

\* Variant: the last value goes and the container still points to it.
KeepsPtr(mem, i) ==
    LET prev == Follow(mem, mem.ptr, i)
    IN [mem EXCEPT !.next[prev] = mem.next[mem.next[prev]], !.len = @ - 1]
arr_remove(mem, i) ==
    LET prev == Follow(mem, mem.ptr, i)
        old == mem.next[prev]
    IN IF mem.len > 1
       THEN [mem EXCEPT !.next[prev] = mem.next[old], !.ptr = IF old = @ THEN prev ELSE @,
                        !.len = @ - 1]
       ELSE [mem EXCEPT !.len = 0]

arr_remove_first(mem) ==
    IF mem.len > 1 THEN [mem EXCEPT !.next[mem.ptr] = Follow(mem, mem.ptr, 2), !.len = @ - 1]
    ELSE [mem EXCEPT !.len = 0]
arr_remove_last(mem) ==
    LET prev == Follow(mem, mem.ptr, mem.len - 1)
    IN IF mem.len > 1
       THEN [mem EXCEPT !.next[prev] = mem.next[mem.ptr], !.ptr = prev, !.len = @ - 1]
       ELSE [mem EXCEPT !.len = 0]

arr_remove_range(mem, i, n) ==
    LET prev == Follow(mem, mem.ptr, i)
        next == Follow(mem, prev, n + 1)
    IN IF n = 0 THEN mem
       ELSE IF n = mem.len THEN [mem EXCEPT !.len = 0]
       ELSE [mem EXCEPT !.next[prev] = next, !.len = @ - n,
                        !.ptr = IF i + n = mem.len THEN prev ELSE @]

arr_rotate(mem, i) == [mem EXCEPT !.ptr = Follow(mem, @, i)]
clear(mem) == [mem EXCEPT !.len = 0]

-----------------------------------------------------------------------------
(* Iterators.                                                              *)

iter_init(mem) ==
    [idx |-> 0, max |-> mem.len, cur |-> IF mem.len > 0 THEN mem.ptr ELSE None, pre |-> None]
iter_next(mem, i) ==
    IF i.idx < i.max
    THEN [i EXCEPT !.pre = i.cur, !.cur = Hop(mem, @), !.idx = @ + 1] ELSE i
iter_remove(mem, i) ==
    [mem EXCEPT !.ptr = IF i.idx = i.max THEN i.pre ELSE @,
                !.len = i.max - 1,
                !.next[Out(mem, i.pre)] = Hop(mem, i.cur)]
Removed(i) == [i EXCEPT !.idx = @ - 1, !.max = @ - 1, !.cur = i.pre]

\* The search tries max keys from the one after cur on.  An index beyond max is
\* taken back by max + 1, one more than the keys that were passed.
iter_getn(mem, i, k) ==
    LET at(d) == Turns(LAMBDA c : Hop(mem, c), i.cur, d)
        hits == {d \in 1 .. i.max : mem.str[at(d)] = k}
        d == CHOOSE d \in hits : \A e \in hits : d <= e
        idx == i.idx + d
    IN IF hits = {} THEN i
       ELSE [i EXCEPT !.idx = IF idx > i.max THEN idx - (i.max + 1) ELSE idx,
                      !.pre = at(d - 1), !.cur = at(d)]

-----------------------------------------------------------------------------
(* The context of a JSON pointer: pre is the item before the one it stands *)
(* on, None if there is none.                                              *)

\* ptr_mut_arr_get and ptr_mut_obj_get: pre of the item at index i.
ptr_mut_get(mem, i) ==
    [pre |-> IF i < mem.len THEN Turns(LAMBDA c : Hop(mem, c), mem.ptr, i) ELSE None]
\* The item is the cell h, which the cell t of its value ends.
ptr_ctx_append(mem, ctx, h, t) ==
    LET at == IF ctx.pre = None THEN mem.ptr ELSE Hop(mem, ctx.pre)
        linked == [mem.next EXCEPT ![h] = t]
    IN IF mem.len = 0
       THEN [mem |-> [mem EXCEPT !.next = [linked EXCEPT ![t] = h], !.ptr = h, !.len = 1],
             pre |-> h]
       ELSE [mem |-> [mem EXCEPT !.next = [linked EXCEPT ![t] = mem.next[Out(mem, at)],
                                                         ![Out(mem, at)] = h],
                                 !.ptr = IF ctx.pre = None \/ @ = at THEN h ELSE @,
                                 !.len = @ + 1],
             pre |-> at]
ptr_ctx_replace(mem, ctx, v) ==
    LET cur == Hop(mem, ctx.pre)
    IN IF IsObj
       THEN [mem |-> [mem EXCEPT !.next = [@ EXCEPT ![cur] = v, ![v] = Hop(mem, cur)]],
             pre |-> ctx.pre]
       ELSE IF ctx.pre = cur THEN [mem |-> [mem EXCEPT !.next[v] = v, !.ptr = v], pre |-> v]
       ELSE [mem |-> [mem EXCEPT !.next = [@ EXCEPT ![v] = mem.next[cur], ![ctx.pre] = v],
                                 !.ptr = IF @ = cur THEN v ELSE @],
             pre |-> ctx.pre]
ptr_ctx_remove(mem, ctx) ==
    LET cur == Hop(mem, ctx.pre)
    IN [mem EXCEPT !.next[Out(mem, ctx.pre)] = Hop(mem, cur), !.len = @ - 1,
                   !.ptr = IF @ = cur THEN ctx.pre ELSE @]

-----------------------------------------------------------------------------
(* Objects.                                                                *)

obj_add(mem, k, v) ==
    LET last == mem.next[mem.ptr]
    IN [mem EXCEPT !.next = IF mem.len > 0
                            THEN [@ EXCEPT ![last] = k, ![v] = mem.next[last], ![k] = v]
                            ELSE [@ EXCEPT ![v] = k, ![k] = v],
                   !.ptr = k, !.len = @ + 1]

\* unsafe_yyjson_mut_obj_remove: one turn per pair, s carries its locals.
obj_remove(mem, key) ==
    LET start == [mem |-> mem, pre |-> mem.ptr, cur |-> Hop(mem, mem.ptr), i |-> 0,
                  n |-> mem.len, removed |-> None]
        Turn(s) ==
            LET next == Hop(s.mem, s.cur)
            IN IF s.mem.str[s.cur] = key
               THEN [s EXCEPT !.removed = IF @ = None THEN s.mem.next[s.cur] ELSE @,
                              !.cur = next,
                              !.mem.next[s.mem.next[s.pre]] = next,
                              !.mem.ptr = IF s.i + 1 = s.n THEN s.pre ELSE @,
                              !.n = @ - 1]
               ELSE [s EXCEPT !.pre = s.cur, !.cur = next, !.i = @ + 1]
        end == Turns(Turn, start, mem.len)
    IN IF mem.len = 0 THEN [mem |-> mem, removed |-> None]
       ELSE [mem |-> [end.mem EXCEPT !.len = end.n], removed |-> end.removed]

\* yyjson_mut_obj_remove_strn: the same by an iterator.
obj_remove_strn(mem, key) ==
    LET Turn(s) ==
            LET i == iter_next(s.mem, s.it)
            IN IF s.mem.str[i.cur] = key
               THEN [mem |-> iter_remove(s.mem, i), it |-> Removed(i),
                     removed |-> IF s.removed = None THEN s.mem.next[i.cur] ELSE s.removed]
               ELSE [s EXCEPT !.it = i]
    IN Turns(Turn, [mem |-> mem, it |-> iter_init(mem), removed |-> None], mem.len)

\* yyjson_mut_obj_put: v takes the place of the value of the first key that fits;
\* v = None stands for a null value.
obj_put(mem, key, k, v) ==
    LET Turn(s) ==
            LET i == iter_next(s.mem, s.it)
            IN IF s.mem.str[i.cur] # key THEN [s EXCEPT !.it = i]
               ELSE IF ~s.replaced /\ v # None
               THEN [mem |-> [s.mem EXCEPT !.next = [@ EXCEPT ![v] = Hop(s.mem, i.cur),
                                                              ![i.cur] = v]],
                     it |-> i, replaced |-> TRUE]
               ELSE [s EXCEPT !.mem = iter_remove(s.mem, i), !.it = Removed(i)]
        end == Turns(Turn, [mem |-> mem, it |-> iter_init(mem), replaced |-> FALSE], mem.len)
    IN IF ~end.replaced /\ v # None THEN obj_add(end.mem, k, v) ELSE end.mem

obj_rotate(mem, i) == [mem EXCEPT !.ptr = Follow(mem, @, 2 * i)]
obj_insert(mem, k, v, i) ==
    IF mem.len > i THEN [obj_add(obj_rotate(mem, i), k, v) EXCEPT !.ptr = mem.ptr]
    ELSE obj_add(mem, k, v)
\* The payload is copied into the old value's cell.
obj_replace(mem, key, d) ==
    IF obj_getn(mem, key) = None THEN mem ELSE [mem EXCEPT !.data[obj_getn(mem, key)] = d]
obj_rename_key(mem, key, new) ==
    [mem EXCEPT !.str = [c \in KeyCells |->
        IF mem.str[c] = key /\ \E i \in 1 .. mem.len : Walk(mem)[i] = c THEN new ELSE mem.str[c]]]

-----------------------------------------------------------------------------
(* The calls a user makes.                                                 *)

\* Cells in use, and the ones a new value or pair may be put into.
InUse == LET w == Walk(m) IN {w[i] : i \in 1 .. m.len} \cup
             IF IsObj THEN {m.next[w[i]] : i \in 1 .. m.len} ELSE {}
FreeVals == KeyCells \ InUse
Least(S) == CHOOSE x \in S : \A y \in S : x <= y
NewKey == Least(KeyCells \ InUse)
NewVal == Least(ValCells \ InUse)
Fits == KeyCells \ InUse # {}
\* A key and a value made of a string and a payload.
Made(k, d) == [m EXCEPT !.str[NewKey] = k, !.data[NewVal] = d]

\* arr_with_* and obj_with_*: the first n cells, linked in order.
arr_with(n) ==
    [next |-> [c \in Cells |-> IF c < n THEN c + 1 ELSE IF c = n THEN 1 ELSE None],
     ptr |-> IF n > 0 THEN n ELSE None, len |-> n, str |-> <<>>, data |-> <<>>]
obj_with(keys, vals) ==
    LET n == Len(keys)
    IN [next |-> [c \in Cells |-> IF c <= n THEN c + MaxLen
                                  ELSE IF c \in MaxLen + 1 .. MaxLen + n
                                  THEN ((c - MaxLen) % n) + 1 ELSE None],
        ptr |-> IF n > 0 THEN n ELSE None, len |-> n,
        str |-> [c \in KeyCells |-> IF c <= n THEN keys[c] ELSE None],
        data |-> [c \in ValCells |-> IF c <= MaxLen + n THEN vals[c - MaxLen] ELSE None]]

Init ==
    /\ kind \in {"arr", "obj"}
    /\ m \in IF IsObj
             THEN {obj_with(keys, [i \in 1 .. Len(keys) |-> CHOOSE d \in Data : TRUE]) :
                       keys \in UNION {[1 .. n -> Keys] : n \in 0 .. MaxLen}}
             ELSE {arr_with(n) : n \in 0 .. MaxLen}
    /\ it = None /\ ret = <<"none">>

\* What a cell holds that is in no list is never read again: a call that did
\* would follow None, which has no next.
Scrubbed(mem) ==
    LET w == Walk(mem)
        used == {w[i] : i \in 1 .. mem.len}
        vals == IF IsObj THEN {mem.next[c] : c \in used} ELSE {}
    IN [mem EXCEPT !.next = [c \in Cells |-> IF c \in used \cup vals THEN @[c] ELSE None],
                   !.ptr = IF mem.len = 0 THEN None ELSE @,
                   !.str = [c \in DOMAIN @ |-> IF c \in used THEN @[c] ELSE None],
                   !.data = [c \in DOMAIN @ |-> IF c \in vals THEN @[c] ELSE None]]

\* A change other than by the iterator ends the iteration.
Does(call, mem) == m' = Scrubbed(mem) /\ ret' = call /\ it' = None

ArrModify ==
    /\ ~IsObj
    /\ \E i \in 0 .. m.len :
          \/ \E v \in FreeVals : Does(<<"insert", i, v>>, arr_insert(m, v, i))
          \/ \E v \in FreeVals :
                i < m.len /\ Does(<<"replace", i, v, arr_get(m, i)>>, arr_replace(m, i, v))
          \/ i < m.len /\ Does(<<"remove", i, arr_get(m, i)>>, arr_remove(m, i))
          \/ i < m.len /\ Does(<<"rotate", i>>, arr_rotate(m, i))
          \/ \E n \in 0 .. m.len - i : Does(<<"range", i, n>>, arr_remove_range(m, i, n))
    \/ /\ ~IsObj /\ m.len > 0
       /\ \/ Does(<<"remove", 0, arr_get_first(m)>>, arr_remove_first(m))
          \/ Does(<<"remove", m.len - 1, arr_get_last(m)>>, arr_remove_last(m))

\* arr_add_*: a new value at the end; arr_prepend: one at the front.
ArrAdd ==
    /\ ~IsObj
    /\ \E v \in FreeVals : \/ Does(<<"insert", m.len, v>>, arr_append(m, v))
                           \/ Does(<<"insert", 0, v>>, arr_prepend(m, v))

\* obj_add_*: a new pair at the end, whether or not its key is there already.
ObjAdd ==
    /\ IsObj /\ Fits
    /\ \E k \in Keys, d \in Data :
          Does(<<"insert", m.len, [key |-> k, val |-> d]>>, obj_add(Made(k, d), NewKey, NewVal))

ValueAt(c) == IF c = None THEN None ELSE m.data[c]

ObjModify ==
    /\ IsObj
    /\ \E k \in Keys :
          \/ Fits /\ \E d \in Data, i \in 0 .. m.len :
                Does(<<"insert", i, [key |-> k, val |-> d]>>,
                     obj_insert(Made(k, d), NewKey, NewVal, i))
          \/ Fits /\ \E d \in Data :
                Does(<<"put", k, d>>, obj_put(Made(k, d), k, NewKey, NewVal))
          \/ LET gone == obj_remove(m, k)
             IN Does(<<"removekey", k, ValueAt(gone.removed)>>, gone.mem)
          \/ LET gone == obj_remove_strn(m, k)
             IN Does(<<"removekey", k, ValueAt(gone.removed)>>, gone.mem)
          \/ Does(<<"removekey", k, ValueAt(obj_getn(m, k))>>, obj_put(m, k, None, None))
          \/ \E d \in Data :
                Does(<<"replacekey", k, d, obj_getn(m, k) # None>>, obj_replace(m, k, d))
          \/ \E new \in Keys :
                Does(<<"rename", k, new, obj_getn(m, k) # None>>, obj_rename_key(m, k, new))
    \/ /\ IsObj
       /\ \E i \in 0 .. m.len - 1 : Does(<<"rotate", i>>, obj_rotate(m, i))

Clear == Does(<<"clear">>, clear(m))

Iterates == it # None /\ "idx" \in DOMAIN it
IterInit == it = None /\ it' = iter_init(m) /\ ret' = <<"iter">> /\ UNCHANGED m
IterNext ==
    /\ Iterates /\ UNCHANGED m
    /\ it' = iter_next(m, it)
    /\ ret' = <<"next", IF it.idx = it.max THEN None
                        ELSE IF IsObj
                        THEN [key |-> m.str[it'.cur], val |-> m.data[m.next[it'.cur]]]
                        ELSE it'.cur>>
\* Only a value that the iterator has just come to can be removed by it: pre is
\* not moved back.
OnValue == ret[1] \in {"next", "get"} /\ ret[Len(ret)] # None
\* Behind a search that went round, an index that is too low may hide that the last
\* key goes, or show another one as the last: the container would point to a key that
\* is gone, or be turned. The model stops in front of that.
KnowsLast == it.idx = it.max <=> it.cur = m.ptr
IterRemove ==
    /\ Iterates /\ 0 < it.idx /\ it.idx <= it.max
    /\ OnValue /\ KnowsLast
    /\ m' = Scrubbed(iter_remove(m, it)) /\ it' = Removed(it)
    /\ ret' = <<"iterremove", IF IsObj THEN m.data[m.next[it.cur]] ELSE it.cur>>
\* A search that goes round the end leaves idx one too low: next finds an item twice.
IterGet ==
    /\ IsObj /\ Iterates /\ it.cur # None /\ UNCHANGED m
    /\ \E k \in Keys :
          LET found == \E i \in 1 .. m.len : m.str[Walk(m)[i]] = k
          IN /\ it' = iter_getn(m, it, k)
             /\ ret' = <<"get", k, IF found THEN m.data[m.next[it'.cur]] ELSE None>>

\* A pointer is resolved to an item, or to the place behind the last one, and the
\* container is changed through the context.
ValAt(c) == IF IsObj THEN m.data[m.next[c]] ELSE c
CtxGet == /\ it = None /\ UNCHANGED m
          /\ \E i \in 0 .. m.len : it' = ptr_mut_get(m, i) /\ ret' = <<"ctxget", i>>
HasCtx == it # None /\ "idx" \notin DOMAIN it
CtxAppend ==
    /\ HasCtx /\ Fits
    /\ \E k \in IF IsObj THEN Keys ELSE {None}, d \in IF IsObj THEN Data ELSE FreeVals :
          LET new == IF IsObj THEN ptr_ctx_append(Made(k, d), it, NewKey, NewVal)
                     ELSE ptr_ctx_append(m, it, d, d)
          IN /\ m' = Scrubbed(new.mem) /\ it' = [pre |-> new.pre]
             /\ ret' = <<"ctxappend", IF IsObj THEN [key |-> k, val |-> d] ELSE d>>
CtxReplace ==
    /\ HasCtx /\ it.pre # None
    /\ IsObj => ValCells \ InUse # {}
    /\ \E d \in IF IsObj THEN Data ELSE FreeVals :
          LET new == IF IsObj THEN ptr_ctx_replace([m EXCEPT !.data[NewVal] = d], it, NewVal)
                     ELSE ptr_ctx_replace(m, it, d)
          IN /\ m' = Scrubbed(new.mem) /\ it' = [pre |-> new.pre]
             /\ ret' = <<"ctxreplace", d, ValAt(Hop(m, it.pre))>>
CtxRemove ==
    /\ HasCtx /\ it.pre # None
    /\ m' = Scrubbed(ptr_ctx_remove(m, it)) /\ it' = [pre |-> None]
    /\ ret' = <<"ctxremove", ValAt(Hop(m, it.pre))>>

Next == /\ \/ ArrModify \/ ArrAdd \/ ObjAdd \/ ObjModify \/ Clear
           \/ IterInit \/ IterNext \/ IterRemove \/ IterGet
           \/ CtxGet \/ CtxAppend \/ CtxReplace \/ CtxRemove
        /\ UNCHANGED kind

Spec == Init /\ [][Next]_vars

\* Which arguments were passed last makes no difference to what comes next.
View == <<kind, m, it, OnValue>>

-----------------------------------------------------------------------------
(* Properties.                                                             *)

Item(c) == IF IsObj THEN [key |-> m.str[c], val |-> m.data[m.next[c]]] ELSE c

\* What a user thinks of: the items in order, and where the iterator or the
\* context stands; YYMutDoc implements JsonContainer with these.
Items == LET w == Walk(m) IN [i \in 1 .. m.len |-> Item(w[i])]
\* Of an iterator: the number of items in front of the next one, and its count.
Position == IF it = None THEN None
            ELSE IF Iterates
            THEN <<"iter", IF m.len = 0 \/ it.cur = m.ptr THEN 0
                           ELSE CHOOSE i \in 1 .. m.len : Walk(m)[i] = it.cur, it.idx>>
            ELSE <<"ctx", IF it.pre = None THEN None
                          ELSE CHOOSE i \in 0 .. m.len - 1 : Walk(m)[i + 1] = Hop(m, it.pre)>>
=============================================================================
