------------------------------ MODULE YYPointer ------------------------------
(***************************************************************************)
(* JSON Pointer, JSON Patch and JSON Merge Patch of yyjson on one document.*)
(* Pointers are strings, sequences of characters, read token by token as   *)
(* the code does; what a call does to the tree is compared with RFC 6901,  *)
(* 6902 and 7386.  The lists underneath are in YYMutDoc.                   *)
(***************************************************************************)
EXTENDS JsonTree

CONSTANTS MaxNodes,  \* bound: nodes of the document
          SafeDig,   \* digits of an index that are sure to fit (USIZE_SAFE_DIG)
          None       \* NULL

VARIABLES doc,  \* the root of the document, None without one
          ret   \* the last call: its name, arguments, error and result

vars == <<doc, ret>>

-----------------------------------------------------------------------------
(* Tokens.                                                                 *)

Token(raw, rest) ==
    LET tildes == {i \in DOMAIN raw : raw[i] = "~"}
    IN [raw |-> raw, len |-> Len(raw) - Cardinality(tildes), rest |-> rest,
        bad |-> \E i \in tildes : i = Len(raw) \/ raw[i + 1] \notin {"0", "1"}]
\* ptr_next_token: the token after the "/" at the head of p and what follows it,
\* or bad where "~" is not followed by 0 or 1.
next_token(p) ==
    LET Cut(end) == Token(SubSeq(p, 2, end - 1), SubSeq(p, end, Len(p)))
    IN Cut(Min({i \in 2 .. Len(p) : p[i] = "/"} \cup {Len(p) + 1}))

Digits == <<"0", "1", "2", "3", "4", "5", "6", "7", "8", "9">>
DigitOf(c) == CHOOSE d \in 0 .. 9 : Digits[d + 1] = c
IsDigit(c) == \E d \in 1 .. 10 : Digits[d] = c
USIZE_MAX == 1000

\* ptr_token_to_idx: None if the token is not an index.
token_to_idx(tok) ==
    LET s == SubSeq(tok.raw, 1, tok.len)
        num == FoldLeft(LAMBDA n, c : 10 * n + DigitOf(c), 0, s)
    IN IF tok.len = 0 \/ tok.len > SafeDig THEN None
       ELSE IF s[1] = "0" THEN IF tok.len > 1 THEN None ELSE 0
       ELSE IF s[1] = "-" THEN IF tok.len > 1 THEN None ELSE USIZE_MAX
       ELSE IF \E i \in DOMAIN s : ~IsDigit(s[i]) THEN None ELSE num

\* ptr_token_eq and ptr_new_key read an escaped token in one pass.
RECURSIVE new_key(_)
new_key(raw) ==
    IF raw = <<>> THEN <<>>
    ELSE IF Head(raw) # "~" THEN <<Head(raw)>> \o new_key(Tail(raw))
    ELSE <<IF raw[2] = "0" THEN "~" ELSE "/">> \o new_key(SubSeq(raw, 3, Len(raw)))
\* Variant: the characters after "~" are taken for the key's.
KeepsRaw(key, tok) == key = tok.raw
token_eq(key, tok) ==
    LET Eats(s, c) ==
            IF ~s.ok \/ s.raw = <<>> THEN [s EXCEPT !.ok = FALSE]
            ELSE IF Head(s.raw) = "~"
            THEN [ok |-> c = (IF s.raw[2] = "0" THEN "~" ELSE "/"),
                  raw |-> SubSeq(s.raw, 3, Len(s.raw))]
            ELSE [ok |-> c = Head(s.raw), raw |-> Tail(s.raw)]
    IN Len(key) = tok.len /\ FoldLeft(Eats, [ok |-> TRUE, raw |-> tok.raw], key).ok

-----------------------------------------------------------------------------
(* Reading.                                                                *)

First(S) == IF S = {} THEN 0 ELSE Min(S)
\* ptr_arr_get, ptr_obj_get and their mutable forms: the place of the token's
\* value, 0 without one.
find(x, tok) ==
    CASE x.t = "arr" -> First({i \in DOMAIN x.e : token_to_idx(tok) = i - 1})
      [] x.t = "obj" -> First({i \in DOMAIN x.p : token_eq(x.p[i].k, tok)})
      [] OTHER -> 0
\* The next token of p with the place in x that it leads to.
step(x, p) ==
    LET Found(tok) == [i |-> IF tok.bad THEN 0 ELSE find(x, tok)] @@ tok IN Found(next_token(p))
\* idx_is_last of ptr_mut_arr_get: one past the last value.
idx_is_last(x, tok) ==
    IF x.e = <<>> THEN tok.raw \in {<<"0">>, <<"-">>}
    ELSE token_to_idx(tok) \in {Len(x.e), USIZE_MAX}

At(x, i) == Values(x)[i]
With(x, i, v) == IF x.t = "arr" THEN [x EXCEPT !.e[i] = v] ELSE [x EXCEPT !.p[i].v = v]
Add(x, k, v) == [x EXCEPT !.p = Append(@, Pair(k, v))]

Fail(e) == [err |-> e, val |-> None, old |-> None]
Gives(x, old) == [err |-> "none", val |-> x, old |-> old]
\* A result of a call on a child, put into the parent by F.
Above(r, F(_)) == IF r.err # "none" THEN r ELSE Gives(F(r.val), r.old)

RECURSIVE getx(_, _)
getx(x, p) ==
    LET Get(tok) ==
            IF tok.bad THEN Fail("syntax") ELSE IF tok.i = 0 THEN Fail("resolve")
            ELSE IF tok.rest = <<>> THEN Gives(x, At(x, tok.i)) ELSE getx(At(x, tok.i), tok.rest)
    IN Get(step(x, p))

-----------------------------------------------------------------------------
(* Writing.  Each gives the error, the new tree and the value that was     *)
(* replaced or removed.                                                    *)

\* The objects that putx creates on the way, empty but for the next.
RECURSIVE Created(_, _)
Created(p, v) ==
    LET Create(tok) ==
            IF tok.bad THEN Fail("syntax")
            ELSE Above(IF tok.rest = <<>> THEN Gives(v, None) ELSE Created(tok.rest, v),
                       LAMBDA below : Add(Obj(<<>>), new_key(tok.raw), below))
    IN Create(next_token(p))

\* yyjson_mut_obj_put at the i-th pair: the others of its key go.
PutAt(x, i, v) ==
    [x EXCEPT !.p = SubSeq(x.p, 1, i - 1)
                    \o (IF v = None THEN <<>> ELSE <<Pair(x.p[i].k, v)>>)
                    \o SelectSeq(SubSeq(x.p, i + 1, Len(x.p)), LAMBDA y : y.k # x.p[i].k)]

\* Variant: a value is put behind the one at its index.
PutBehind(x, tok, v, insert) ==
    LET i == tok.i
    IN IF x.t = "obj" THEN IF i = 0 \/ insert THEN Gives(Add(x, new_key(tok.raw), v), None)
                           ELSE Gives(PutAt(x, i, v), At(x, i))
       ELSE IF i = 0 THEN Fail("resolve")
       ELSE IF insert THEN Gives([x EXCEPT !.e = InsertAt(@, i + 1, v)], None)
       ELSE Gives(With(x, i, v), At(x, i))
\* The last token of putx.
PutLast(x, tok, v, insert) ==
    LET i == tok.i
    IN IF x.t = "obj"
       THEN IF i = 0 \/ insert THEN Gives(Add(x, new_key(tok.raw), v), None)
            ELSE Gives(PutAt(x, i, v), At(x, i))
       ELSE IF i # 0 /\ insert THEN Gives([x EXCEPT !.e = InsertAt(@, i, v)], None)
       ELSE IF i # 0 THEN Gives(With(x, i, v), At(x, i))
       ELSE IF insert /\ idx_is_last(x, tok) THEN Gives([x EXCEPT !.e = Append(@, v)], None)
       ELSE Fail("resolve")

\* putx past the last parent that exists: in an object the rest hangs below a new
\* key, in an array below a new object at its end.
PutBelow(x, tok, v, create, insert) ==
    IF ~create \/ (x.t = "arr" /\ ~(insert /\ idx_is_last(x, tok))) THEN Fail("resolve")
    ELSE IF x.t = "arr" /\ next_token(tok.rest).bad THEN Fail("resolve")
    ELSE Above(Created(tok.rest, v),
               LAMBDA below : IF x.t = "arr" THEN [x EXCEPT !.e = Append(@, below)]
                              ELSE Add(x, new_key(tok.raw), below))

RECURSIVE putx(_, _, _, _, _)
putx(x, p, v, create, insert) ==
    LET Put(tok) ==
            IF tok.bad THEN Fail("syntax")
            ELSE IF ~IsCtn(x) THEN Fail("resolve")
            ELSE IF tok.rest = <<>> THEN PutLast(x, tok, v, insert)
            ELSE IF tok.i = 0 THEN PutBelow(x, tok, v, create, insert)
            ELSE Above(putx(At(x, tok.i), tok.rest, v, create, insert),
                       LAMBDA below : With(x, tok.i, below))
    IN Put(step(x, p))

\* replacex and removex (v = None): getx, then put of the object or the context.
RECURSIVE changex(_, _, _)
changex(x, p, v) ==
    LET Change(tok) ==
            IF tok.bad THEN Fail("syntax") ELSE IF tok.i = 0 THEN Fail("resolve")
            ELSE IF tok.rest # <<>>
            THEN Above(changex(At(x, tok.i), tok.rest, v), LAMBDA below : With(x, tok.i, below))
            ELSE Gives(IF x.t = "obj" THEN PutAt(x, tok.i, v)
                       ELSE IF v = None THEN [x EXCEPT !.e = RemoveAt(@, tok.i)]
                       ELSE With(x, tok.i, v), At(x, tok.i))
    IN Change(step(x, p))
replacex(x, p, v) == changex(x, p, v)
removex(x, p) == changex(x, p, None)

\* The checks every call makes first; Do is the call on a pointer with a "/".
Checked(p, empty, r) ==
    IF p = <<>> THEN empty ELSE IF Head(p) # "/" THEN Fail("syntax") ELSE r

\* mut_ptr_getx, addx, removex, replacex on a value.
ptr_get(x, p) == Checked(p, Gives(x, x), getx(x, p))
ptr_add(x, p, v, create) == Checked(p, Fail("set_root"), putx(x, p, v, create, TRUE))
ptr_remove(x, p) == Checked(p, Fail("set_root"), removex(x, p))
ptr_replace(x, p, v) == Checked(p, Fail("set_root"), replacex(x, p, v))

\* ... and on a document, whose root may be missing, set or removed.
doc_get(p) == IF doc = None THEN Fail("null_root") ELSE ptr_get(doc, p)
doc_put(p, v, create, insert) ==
    LET root == IF doc = None THEN Obj(<<>>) ELSE doc
    IN Checked(p, IF insert /\ doc # None THEN Fail("set_root") ELSE Gives(v, doc),
               IF doc = None /\ ~create THEN Fail("null_root")
               ELSE putx(root, p, v, create, insert))
doc_replace(p, v) ==
    IF doc = None THEN Fail(IF p = <<>> THEN "resolve" ELSE "null_root")
    ELSE Checked(p, Gives(v, doc), replacex(doc, p, v))
doc_remove(p) ==
    IF doc = None THEN Fail("null_root") ELSE Checked(p, Gives(None, doc), removex(doc, p))

-----------------------------------------------------------------------------
(* Patches.                                                                *)

\* yyjson_patch: an operation has op, path, from and value, None where the member
\* is missing; s is the copy that is patched, or the error and the operation's
\* index.
PatchOp(s, o) ==
    LET Then(r) == IF r.err = "none" THEN [s EXCEPT !.root = r.val, !.n = @ + 1]
                   ELSE [s EXCEPT !.err = "pointer"]
        Put(x, v) == IF o.path = <<>> THEN Gives(v, None) ELSE ptr_add(x, o.path, v, FALSE)
        Found(r, F(_)) == IF r.err # "none" THEN Then(r) ELSE F(r)
        missing == o.path = None \/ (o.op \in {"add", "replace", "test"} /\ o.value = None)
                   \/ (o.op \in {"move", "copy"} /\ o.from = None)
    IN IF s.err # "none" THEN s
       ELSE IF missing THEN [s EXCEPT !.err = "missing_key"]
       ELSE CASE o.op = "add" -> Then(Put(s.root, o.value))
              [] o.op = "remove" -> Then(ptr_remove(s.root, o.path))
              [] o.op = "replace" ->
                   Then(IF o.path = <<>> THEN Gives(o.value, None)
                        ELSE ptr_replace(s.root, o.path, o.value))
              [] o.op = "move" ->
                   IF o.from = <<>> /\ o.path = <<>> THEN Then(Gives(s.root, None))
                   ELSE Found(ptr_remove(s.root, o.from), LAMBDA moved : Then(Put(moved.val, moved.old)))
              [] o.op = "copy" ->
                   Found(ptr_get(s.root, o.from), LAMBDA found : Then(Put(s.root, found.old)))
              [] o.op = "test" ->
                   Found(ptr_get(s.root, o.path),
                         LAMBDA found : IF Same(o.value, found.old) THEN Then(Gives(s.root, None))
                                        ELSE [s EXCEPT !.err = "equal"])
              [] OTHER -> [s EXCEPT !.err = "invalid_member"]
patch(orig, ops) == FoldLeft(PatchOp, [err |-> "none", root |-> orig, n |-> 0], ops)

obj_getn(x, k) ==
    LET hits == {i \in DOMAIN x.p : x.p[i].k = k}
    IN IF hits = {} THEN None ELSE x.p[CHOOSE i \in hits : \A j \in hits : i <= j].v

\* Variant: an object of the patch takes the place of the member.
TakesWhole(orig, pat) ==
    IF pat.t # "obj" THEN pat
    ELSE Obj((IF orig = None \/ orig.t # "obj" THEN <<>>
              ELSE SelectSeq(orig.p, LAMBDA y : obj_getn(pat, y.k) = None))
             \o SelectSeq(pat.p, LAMBDA y : y.v # Null))
\* yyjson_merge_patch: what the patch leaves alone, then what it brings.
RECURSIVE merge_patch(_, _)
merge_patch(orig, pat) ==
    LET base == IF orig = None \/ orig.t # "obj" THEN Obj(<<>>) ELSE orig
        kept == SelectSeq(base.p, LAMBDA y : obj_getn(pat, y.k) = None)
        brought == SelectSeq(pat.p, LAMBDA y : y.v # Null)
    IN IF pat.t # "obj" THEN pat
       ELSE Obj(kept \o [i \in DOMAIN brought |->
                 Pair(brought[i].k, merge_patch(obj_getn(base, brought[i].k), brought[i].v))])

-----------------------------------------------------------------------------
(* The calls.                                                              *)

\* Pointers, among them bad escapes, indices with leading zeros or too many
\* digits, and "-"; and the values that are put.
P1(a) == <<"/", a>>
P2(a, b) == <<"/", a, "/", b>>
Ptrs == {<<>>, <<"a">>, <<"/">>, P1("a"), P1("0"), P1("1"), P1("-"), P1("~"), P2("a", "a"),
         P2("a", "0"), P2("0", "-"), P2("-", "a"), P2("1", "~"), <<"/", "~", "0">>,
         <<"/", "~", "1">>, <<"/", "~", "0", "1">>, <<"/", "0", "0">>,
         <<"/", "0", "0", "0">>, <<"/", "a", "/", "a", "~">>}
Vals == {Null, Arr(<<>>), Obj(<<>>), Obj(<<Pair(<<"~", "1">>, Null)>>)}
One(k, x) == Obj(<<Pair(k, x)>>)
Docs == {None, Null, Arr(<<Null>>), Arr(<<Arr(<<>>), Null>>), One(<<"a">>, Arr(<<Null>>)),
         One(<<"/">>, Null), One(<<"~">>, Null), One(<<"~", "1">>, Null), One(<<>>, Null),
         Obj(<<Pair(<<"a">>, One(<<"a">>, Null)), Pair(<<"0">>, Null), Pair(<<"a">>, Null)>>)}

Init == doc \in Docs /\ ret = [call |-> "none"]

Fits(x) == IF x = None THEN TRUE ELSE Nodes(x) <= MaxNodes
Does(name, p, v, r) ==
    /\ r.err = "none" => Fits(r.val)
    /\ doc' = IF r.err = "none" THEN r.val ELSE doc
    /\ ret' = [call |-> name, ptr |-> p, val |-> v, err |-> r.err, old |-> r.old]

PtrGet == \E p \in Ptrs : Does("get", p, None, doc_get(p))
PtrAdd == \E p \in Ptrs, v \in Vals, create \in BOOLEAN :
              Does("add", p, v, doc_put(p, v, create, TRUE))
PtrSet == \E p \in Ptrs, v \in Vals, create \in BOOLEAN :
              Does("set", p, v, doc_put(p, v, create, FALSE))
PtrReplace == \E p \in Ptrs, v \in Vals : Does("replace", p, v, doc_replace(p, v))
\* doc_ptr_set without a value removes as well.
PtrRemove == \E p \in Ptrs : Does("remove", p, None, doc_remove(p))

Op(op, path, from, value) == [op |-> op, path |-> path, from |-> from, value |-> value]
FewPtrs == {<<>>, P1("a"), P1("0"), P2("a", "0"), P1("-")}
Ops == [op : {"move", "copy"}, path : FewPtrs, from : FewPtrs, value : {None}]
       \cup [op : {"add", "replace", "test"}, path : FewPtrs, from : {None}, value : {Null}]
       \cup {Op("remove", p, None, None) : p \in FewPtrs}
       \cup {Op("add", P1("a"), None, None), Op("move", P1("a"), None, None),
             Op("test", None, None, Null), Op("frob", P1("a"), None, None)}
\* The original is left as it is, the patched copy becomes the document here.
Patch ==
    doc # None /\ \E o \in Ops : \E s \in {patch(doc, <<o>>)} :
        /\ s.err = "none" => Fits(s.root)
        /\ doc' = IF s.err = "none" THEN s.root ELSE doc
        /\ ret' = [call |-> "patch", op |-> o, err |-> s.err]
MergePatch ==
    doc # None /\ \E v \in Vals \cup {One(<<"a">>, One(<<"0">>, Null)), One(<<"a">>, Arr(<<>>))} :
        /\ Fits(merge_patch(doc, v)) /\ doc' = merge_patch(doc, v)
        /\ ret' = [call |-> "merge", val |-> v]

Next == PtrGet \/ PtrAdd \/ PtrSet \/ PtrReplace \/ PtrRemove \/ Patch \/ MergePatch

\* What was called last makes no difference to what comes next.
View == doc

-----------------------------------------------------------------------------
(* Properties, of states and of steps.  A location is a sequence of keys    *)
(* and indices from 1.                                                     *)

\* RFC 6901: split at "/", then "~1" is "/", then "~0" is "~".
Split(p) ==
    LET slashes == SetToSortSeq({i \in DOMAIN p : p[i] = "/"} \cup {Len(p) + 1}, <)
    IN [j \in 1 .. Len(slashes) - 1 |-> SubSeq(p, slashes[j] + 1, slashes[j + 1] - 1)]
Replaced(s, c, d) ==
    LET at == {i \in DOMAIN s : i < Len(s) /\ s[i] = "~" /\ s[i + 1] = c}
    IN FlattenSeq([i \in DOMAIN s |-> IF i \in at THEN <<d>> ELSE IF i - 1 \in at THEN <<>>
                                      ELSE <<s[i]>>])
Unescaped(s) == Replaced(Replaced(s, "1", "/"), "0", "~")
WellFormed(p) ==
    /\ p # <<>> => p[1] = "/"
    /\ \A i \in DOMAIN p : p[i] = "~" => i < Len(p) /\ p[i + 1] \in {"0", "1"}

Get(x, loc) ==
    LET Step(y, k) ==
            IF y = None THEN None
            ELSE IF y.t = "arr" THEN IF k \in DOMAIN y.e THEN y.e[k] ELSE None
            ELSE IF y.t = "obj" THEN obj_getn(y, k) ELSE None
    IN FoldLeft(Step, x, loc)
IndexNames == [i \in 1 .. MaxNodes |-> <<Digits[i]>>]
Located(x, p) ==
    LET Step(s, tok) ==
            LET y == IF s = None THEN None ELSE Get(x, s)
                at == {i \in DOMAIN IndexNames : IndexNames[i] = tok}
                k == IF y # None /\ y.t = "arr"
                     THEN IF at = {} THEN 0 ELSE CHOOSE i \in at : TRUE ELSE tok
            IN IF y = None \/ ~IsCtn(y) THEN None ELSE Append(s, k)
        Real(loc) == IF loc # None /\ Get(x, loc) # None THEN loc ELSE None
    IN IF x = None \/ ~WellFormed(p) THEN None
       ELSE Real(FoldLeft(Step, <<>>, [i \in DOMAIN Split(p) |-> Unescaped(Split(p)[i])]))

\* Pointers are read by RFC 6901, whatever escapes and numbers they hold.
PointerIsRfc6901 ==
    doc # None => \A p \in Ptrs : \A loc \in {Located(doc, p)}, r \in {doc_get(p)} :
        IF loc = None THEN r.err # "none" ELSE r.err = "none" /\ r.old = Get(doc, loc)

RECURSIVE Places(_)
Places(x) ==
    {<<>>} \cup UNION {{<<IF x.t = "arr" THEN i ELSE x.p[i].k>> \o q : q \in Places(Values(x)[i])} :
                          i \in IF IsCtn(x) THEN 1 .. Size(x) ELSE {}}

\* What was at q before is there afterwards, moved by d places if it is at or
\* behind loc in the same array; what is on the way to loc changes.
Stays(loc, d) ==
    LET n == Len(loc)
        InArray == n > 0 /\ Get(doc, Front(loc)).t = "arr"
        Behind(q) == InArray /\ Len(q) >= n /\ SubSeq(q, 1, n - 1) = Front(loc) /\ q[n] >= loc[n]
        Now(q) == IF Behind(q) THEN [q EXCEPT ![n] = @ + d] ELSE q
    IN \A q \in Places(doc) :
          \/ IsStrictPrefix(q, loc)
          \/ IsPrefix(loc, q) /\ ~(d = 1 /\ InArray)
          \/ Get(doc', Now(q)) = Get(doc, q)

\* replace, set and remove change what RFC 6902 says and nothing else; add in an
\* array moves what is behind.  Where there is no place yet see PutIsRead.  Nothing is
\* said of an "add" onto a key that an object has already: it should replace the member
\* (yyjson.h:4634), and puts a second one behind it.
ChangesOnlyThere ==
    doc # None /\ ret'.call \in {"replace", "set", "add", "remove"} /\ ret'.err = "none" =>
        \A loc \in {Located(doc, ret'.ptr)} \ {None, <<>>} :
            LET inArray == Get(doc, Front(loc)).t = "arr"
                v == Get(doc', loc)
            IN CASE ret'.call = "remove" -> /\ ret'.old = Get(doc, loc) /\ Stays(loc, -1)
                                            /\ ~inArray => v = None
                 [] ret'.call = "add" -> inArray => v = ret'.val /\ Stays(loc, 1)
                 [] OTHER -> v = ret'.val /\ ret'.old = Get(doc, loc) /\ Stays(loc, 0)

\* A value that add or set put where nothing was is found there, every parent
\* that was missing is there now, and what was there before still is.
PutIsRead ==
    doc # None /\ ret'.call \in {"set", "add"} /\ ret'.err = "none"
    /\ Located(doc, ret'.ptr) = None =>
        /\ "-" \notin Range(ret'.ptr) =>
              LET loc == Located(doc', ret'.ptr)
              IN loc # None /\ Get(doc', loc) = ret'.val
        /\ Nodes(doc') > Nodes(doc)
        /\ \A q \in Places(doc) :
              Get(doc', q) = Get(doc, q) \/ \E r \in Places(doc') : IsStrictPrefix(q, r)

\* RFC 7386: a member of the patch that is null is gone, any other is merged into
\* what was there, the rest stays.
RECURSIVE Merged(_, _)
Merged(x, v) ==
    IF v.t # "obj" THEN v
    ELSE LET old(k) == IF x # None /\ x.t = "obj" THEN obj_getn(x, k) ELSE None
             ks == {y.k : y \in Range(v.p)} \cup IF x # None /\ x.t = "obj"
                                                 THEN {y.k : y \in Range(x.p)} ELSE {}
             new(k) == LET w == obj_getn(v, k)
                       IN IF w = None THEN old(k) ELSE IF w = Null THEN None ELSE Merged(old(k), w)
         IN Obj(SetToSeq({Pair(k, new(k)) : k \in {j \in ks : new(j) # None}}))
MergeIsRfc7386 ==
    doc # None /\ ret'.call = "merge" /\ Unique(doc) => Same(doc', Merged(doc, ret'.val))
=============================================================================
