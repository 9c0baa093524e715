------------------------------ MODULE YYMemory ------------------------------
(***************************************************************************)
(* Memory in yyjson: the pool allocator, which cuts chunks out of one      *)
(* buffer, the dynamic allocator, which keeps what is freed in a list, and *)
(* the documents that take their pools of strings and values from either.  *)
(* The user's blocks and a document are used by turns, which bounds the     *)
(* ways a buffer can be cut up without leaving one out for a document.     *)
(* Sizes and addresses are in units of 8 bytes.                            *)
(***************************************************************************)
EXTENDS SequencesExt, Integers

CONSTANTS Total,     \* size of the pool allocator's buffer
          Sizes,     \* sizes that are asked for
          MaxBlocks, \* bound: blocks of the user at once
          MaxChunks, \* bound: chunks that libc gives
          MaxSpans,  \* bound: strings and values of a document
          None       \* NULL

\* yyjson_alc_pool_init asks for four headers; NULL is no address.
ASSUME MemBounds == Total \in Nat /\ Total >= 8 /\ Sizes \subseteq Nat /\ MaxChunks \in Nat /\ None \notin Int

VARIABLES alc,     \* "pool" or "dyn", the allocator in use
          mem,     \* its state
          held,    \* the user's blocks: address -> size asked for
          doc,     \* a mutable document, at None without one
          imdoc,   \* the blocks of an immutable document, none without one
          freeing  \* the blocks of a document that is being freed

memVars == <<alc, mem, held, doc, imdoc, freeing>>

Up(n, a) == ((n + a - 1) \div a) * a
Fail(s) == [mem |-> s, at |-> None]
Empty == [x \in {} |-> 0]
With(f, x, v) == [y \in DOMAIN f \cup {x} |-> IF y = x THEN v ELSE f[y]]
Drop(f, x) == [y \in DOMAIN f \ {x} |-> f[y]]
LeastOf(S) == CHOOSE n \in S : \A k \in S : n <= k

-----------------------------------------------------------------------------
(* The pool allocator: [size, hdr, free], hdr the size in the header of    *)
(* each chunk, free the list of free chunks by address.                    *)

Header == 2                                     \* sizeof(pool_chunk)
pool_size_align(n) == Up(n, Header) + Header

\* yyjson_alc_pool_init: the buffer begins skew units before an aligned address.
pool_init(size, skew) ==
    LET n == ((size - skew) \div Header) * Header
    IN [size |-> n, hdr |-> [c \in {0} |-> n - Header], free |-> <<0>>]

\* The first n units of chunk c stay in it, the rest becomes a chunk.
Split(h, c, n) == With(With(h, c, n), c + n, h[c] - n)

pool_malloc(p, size) ==
    LET n == pool_size_align(size)
        fits == {i \in DOMAIN p.free : p.hdr[p.free[i]] >= n}
        i == LeastOf(fits)
        cur == p.free[i]
        split == p.hdr[cur] >= n + 2 * Header
    IN IF size >= p.size \/ fits = {} THEN Fail(p)
       ELSE [at |-> cur,
             mem |-> IF split
                     THEN [p EXCEPT !.hdr = Split(@, cur, n), !.free[i] = cur + n]
                     ELSE [p EXCEPT !.free = RemoveAt(@, i)]]

\* Where the walk along the free list ends: next is the first chunk behind cur, at n + 1,
\* and prev the one at n.
Passed(p, cur) ==
    LeastOf({n \in 0 .. Len(p.free) : n < Len(p.free) => p.free[n + 1] >= cur})

\* Chunk d becomes part of chunk c, which it follows.
Merged(h, c, d) == [x \in DOMAIN h \ {d} |-> IF x = c THEN h[c] + h[d] ELSE h[x]]

\* The first half of pool_free, and a variant of the whole: a chunk is merged with the
\* one above it, but not with the one below.
MergesUp(p, cur) ==
    LET n == Passed(p, cur)
    IN IF n < Len(p.free) /\ cur + p.hdr[cur] = p.free[n + 1]
       THEN [p EXCEPT !.hdr = Merged(@, cur, p.free[n + 1]), !.free[n + 1] = cur]
       ELSE [p EXCEPT !.free = InsertAt(@, n + 1, cur)]
pool_free(p, cur) ==
    LET n == Passed(p, cur)
        q == MergesUp(p, cur)
        prev == q.free[n]
    IN IF n > 0 /\ prev + q.hdr[prev] = cur
       THEN [q EXCEPT !.hdr = Merged(@, prev, cur), !.free = RemoveAt(@, n + 1)]
       ELSE q

\* What is copied when a chunk moves is all its memory, slack included, which need
\* not fit when the block grows by less than the slack.  What the headers hold after
\* that is undefined: the model stops in front of such a call.
CopyFits(p, cur, new) == p.hdr[cur] <= new.mem.hdr[new.at]

\* A chunk grows into the free one above it, at i of the free list.
grown_in_place(p, cur, i, n) ==
    LET next == p.free[i]
        whole == Merged(p.hdr, cur, next)
    IN IF whole[cur] - n > 2 * Header
       THEN [p EXCEPT !.hdr = Split(whole, cur, n), !.free[i] = cur + n]
       ELSE [p EXCEPT !.hdr = whole, !.free = RemoveAt(@, i)]
pool_realloc(p, cur, old, size) ==
    LET n == pool_size_align(size)
        i == Passed(p, cur) + 1
        merges == /\ i <= Len(p.free)
                  /\ cur + p.hdr[cur] = p.free[i] /\ p.hdr[cur] + p.hdr[p.free[i]] >= n
        new == pool_malloc(p, n - Header)
    IN IF size >= p.size THEN Fail(p)
       ELSE IF pool_size_align(old) = n THEN [mem |-> p, at |-> cur]
       ELSE IF merges THEN [mem |-> grown_in_place(p, cur, i, n), at |-> cur]
       ELSE IF new.at = None THEN new
       ELSE [mem |-> pool_free(new.mem, cur), at |-> new.at]

-----------------------------------------------------------------------------
(* The dynamic allocator: [size, free, used], the size of every chunk that *)
(* libc gave, and the two lists.                                           *)

dyn_init == [size |-> Empty, free |-> <<>>, used |-> <<>>]
dyn_size_align(n) == Up(n + Header, 4)

\* dyn_chunk_list_remove.
Unlinked(list, c) == RemoveAt(list, CHOOSE i \in DOMAIN list : list[i] = c)
\* The i-th free chunk is taken into use.
Reused(d, i) == [d EXCEPT !.free = RemoveAt(@, i), !.used = <<d.free[i]>> \o @]

\* The outcome of a call of libc: ok, or out of memory.
dyn_malloc(d, size, ok) ==
    LET n == dyn_size_align(size)
        fits == {i \in DOMAIN d.free : d.size[d.free[i]] >= n}
        news == 1 .. MaxChunks \ DOMAIN d.size
        last == Len(d.free)
    IN IF d.free = <<>>
       THEN IF ~ok \/ news = {} THEN Fail(d)
            ELSE [at |-> LeastOf(news),
                  mem |-> [d EXCEPT !.size = With(@, LeastOf(news), n),
                                    !.used = <<LeastOf(news)>> \o @]]
       ELSE IF fits # {}
       THEN [mem |-> Reused(d, LeastOf(fits)), at |-> d.free[LeastOf(fits)]]
       ELSE IF ok
       THEN [mem |-> [Reused(d, last) EXCEPT !.size = With(@, d.free[last], n)],
             at |-> d.free[last]]
       ELSE Fail(d)
dyn_realloc(d, c, size, ok) ==
    LET n == dyn_size_align(size)
    IN IF d.size[c] >= n THEN [mem |-> d, at |-> c]
       ELSE [at |-> IF ok THEN c ELSE None,
             mem |-> [d EXCEPT !.used = <<c>> \o Unlinked(@, c),
                               !.size = IF ok THEN With(@, c, n) ELSE @]]
dyn_free(d, c) ==
    LET n == LeastOf({k \in 0 .. Len(d.free) : k < Len(d.free) => d.size[d.free[k + 1]] >= d.size[c]})
    IN [d EXCEPT !.used = Unlinked(@, c), !.free = InsertAt(@, n + 1, c)]

-----------------------------------------------------------------------------
(* What the callers see.                                                   *)

Malloc(s, size, ok) == IF alc = "pool" THEN pool_malloc(s, size) ELSE dyn_malloc(s, size, ok)
Realloc(s, c, old, size, ok) ==
    IF alc = "pool" THEN pool_realloc(s, c, old, size) ELSE dyn_realloc(s, c, size, ok)
Free(s, c) == IF alc = "pool" THEN pool_free(s, c) ELSE dyn_free(s, c)

-----------------------------------------------------------------------------
(* Documents.  A pool of strings or values: its chunks, the last one first,*)
(* what is used and the size of that one, and the size of the next; spans  *)
(* (history) is what was given out of it, and room the size of the chunk.  *)

DocSize == 2
ValSize == 3
Pool(size) == [chunks |-> <<>>, cur |-> 0, end |-> 0, chunk_size |-> size, spans |-> {}]

\* unsafe_yyjson_str_pool_grow and val_pool_grow: a chunk of at least need and
\* its header; the next one will be twice the size, up to max.
Grown(s, pool, need, hdr, max, ok) ==
    LET size == IF need + hdr > pool.chunk_size THEN need + hdr ELSE pool.chunk_size
        new == Malloc(s, size, ok)
        next == IF 2 * pool.chunk_size < max THEN 2 * pool.chunk_size ELSE max
    IN [mem |-> new.mem, at |-> new.at,
        pool |-> IF new.at = None THEN pool
                 ELSE [pool EXCEPT !.chunks = <<new.at>> \o @, !.cur = hdr, !.end = size,
                                   !.chunk_size = IF next < @ THEN max ELSE next]]
StrHeader == 2
StrMax == 8
ValMax == 9
str_pool_grow(s, pool, len, ok) == Grown(s, pool, len, StrHeader, StrMax, ok)
val_pool_grow(s, pool, count, ok) == Grown(s, pool, count * ValSize, ValSize, ValMax, ok)

Taken(pool, n) == [pool EXCEPT !.cur = @ + n,
                               !.spans = @ \cup {[at |-> Head(pool.chunks),
                                                  from |-> pool.cur, n |-> n,
                                                  room |-> pool.end]}]
mut_str_alc(s, pool, len, ok) ==
    LET new == IF pool.end - pool.cur <= len THEN str_pool_grow(s, pool, len + 1, ok)
               ELSE [mem |-> s, at |-> 0, pool |-> pool]
    IN IF new.at = None THEN new ELSE [new EXCEPT !.pool = Taken(@, len + 1)]
mut_val(s, pool, count, ok) ==
    LET new == IF pool.end - pool.cur < count * ValSize THEN val_pool_grow(s, pool, count, ok)
               ELSE [mem |-> s, at |-> 0, pool |-> pool]
    IN IF new.at = None THEN new ELSE [new EXCEPT !.pool = Taken(@, count * ValSize)]

\* The first chunks of a new document have the size StrInit and ValInit, or what
\* set_str_pool_size and set_val_pool_size asked for.
StrInit == 4
ValInit == 6
NoneYet == [at |-> None, str |-> Pool(StrInit), val |-> Pool(ValInit)]

-----------------------------------------------------------------------------
(* The calls.                                                              *)

MemInit ==
    /\ alc \in {"pool", "dyn"}
    /\ mem \in IF alc = "pool" THEN {pool_init(Total, skew) : skew \in 0 .. 1} ELSE {dyn_init}
    /\ held = Empty /\ doc = NoneYet /\ imdoc = <<>> /\ freeing = <<>>

\* The pool allocator never asks libc.
Outcomes == IF alc = "pool" THEN {TRUE} ELSE BOOLEAN

NoDoc == doc.at = None /\ imdoc = <<>> /\ freeing = <<>>

UserMalloc ==
    /\ NoDoc /\ Cardinality(DOMAIN held) < MaxBlocks
    /\ \E size \in Sizes, ok \in Outcomes :
          LET new == Malloc(mem, size, ok)
          IN /\ mem' = new.mem
             /\ held' = IF new.at = None THEN held ELSE With(held, new.at, size)
    /\ UNCHANGED <<alc, doc, imdoc, freeing>>
UserRealloc ==
    /\ NoDoc
    /\ \E c \in DOMAIN held, size \in Sizes, ok \in Outcomes :
          LET new == Realloc(mem, c, held[c], size, ok)
          IN /\ size > held[c]
             /\ new.at # c /\ new.at # None => CopyFits(mem, c, new)
             /\ mem' = new.mem
             /\ held' = IF new.at = None THEN held ELSE With(Drop(held, c), new.at, size)
    /\ UNCHANGED <<alc, doc, imdoc, freeing>>
UserFree ==
    /\ NoDoc
    /\ \E c \in DOMAIN held : mem' = Free(mem, c) /\ held' = Drop(held, c)
    /\ UNCHANGED <<alc, doc, imdoc, freeing>>

DocNew ==
    /\ NoDoc /\ Cardinality(DOMAIN held) < 2
    /\ \E ok \in Outcomes :
          LET new == Malloc(mem, DocSize, ok)
          IN /\ mem' = new.mem
             /\ doc' = [NoneYet EXCEPT !.at = new.at]
    /\ UNCHANGED <<alc, held, imdoc, freeing>>
SetPoolSize ==
    /\ doc.at # None /\ doc.str.chunks = <<>> /\ doc.val.chunks = <<>>
    /\ \/ doc.str.chunk_size = StrInit
          /\ \E len \in Sizes : doc' = [doc EXCEPT !.str.chunk_size = len + StrHeader]
       \/ doc.val.chunk_size = ValInit
          /\ doc' = [doc EXCEPT !.val.chunk_size = 3 * ValSize]
    /\ UNCHANGED <<alc, mem, held, imdoc, freeing>>
Spans == Cardinality(doc.str.spans) + Cardinality(doc.val.spans)
NewStr ==
    /\ doc.at # None /\ Spans < MaxSpans
    /\ \E len \in Sizes, ok \in Outcomes :
          LET new == mut_str_alc(mem, doc.str, len, ok)
          IN mem' = new.mem /\ doc' = [doc EXCEPT !.str = new.pool]
    /\ UNCHANGED <<alc, held, imdoc, freeing>>
NewVal ==
    /\ doc.at # None /\ Spans < MaxSpans
    /\ \E count \in 1 .. 2, ok \in Outcomes :
          LET new == mut_val(mem, doc.val, count, ok)
          IN mem' = new.mem /\ doc' = [doc EXCEPT !.val = new.pool]
    /\ UNCHANGED <<alc, held, imdoc, freeing>>

\* yyjson_mut_doc_free and yyjson_doc_free give one block back after the other: the
\* chunks of strings, those of values, the document.  Release is one turn of their
\* loops; no other call comes between, as all of them want NoDoc or a document.
Release ==
    /\ freeing # <<>>
    /\ mem' = Free(mem, Head(freeing)) /\ freeing' = Tail(freeing)
    /\ UNCHANGED <<alc, held, doc, imdoc>>
DocFree ==
    /\ doc.at # None /\ doc' = NoneYet
    /\ freeing' = doc.str.chunks \o doc.val.chunks \o <<doc.at>>
    /\ UNCHANGED <<alc, mem, held, imdoc>>

\* yyjson_mut_val_imut_copy: one block for the document and its values, one for
\* its strings if there are any; without the second the first goes back.
imut_alloc(s, vals, strs, ok1, ok2) ==
    LET a == Malloc(s, DocSize + 2 * vals, ok1)
        b == Malloc(a.mem, strs, ok2)
    IN IF a.at = None THEN [mem |-> a.mem, doc |-> <<>>]
       ELSE IF strs = 0 THEN [mem |-> a.mem, doc |-> <<a.at>>]
       ELSE IF b.at = None THEN [mem |-> Free(b.mem, a.at), doc |-> <<>>]
       ELSE [mem |-> b.mem, doc |-> <<b.at, a.at>>]
ImutCopy ==
    /\ NoDoc
    /\ \E vals \in 1 .. 2, strs \in Sizes \cup {0}, ok1 \in Outcomes, ok2 \in Outcomes :
          LET new == imut_alloc(mem, vals, strs, ok1, ok2)
          IN mem' = new.mem /\ imdoc' = new.doc
    /\ UNCHANGED <<alc, held, doc, freeing>>
ImDocFree ==
    /\ imdoc # <<>> /\ imdoc' = <<>> /\ freeing' = imdoc
    /\ UNCHANGED <<alc, mem, held, doc>>

MemNext == UserMalloc \/ UserRealloc \/ UserFree \/ DocNew \/ SetPoolSize \/ NewStr \/ NewVal
           \/ DocFree \/ ImutCopy \/ ImDocFree \/ Release

MemSpec == MemInit /\ [][MemNext]_memVars

-----------------------------------------------------------------------------
(* Properties.                                                             *)

\* The blocks of the document there is, or of the one being freed.
Lent == IF doc.at # None THEN doc.str.chunks \o doc.val.chunks \o <<doc.at>>
        ELSE IF imdoc # <<>> THEN imdoc ELSE freeing
Owned == DOMAIN held \cup Range(Lent)
EndOf(p, c) == c + p.hdr[c]

\* The pool: the chunks cover the buffer without a gap or an overlap, those that
\* nobody owns are the free list, in the order of their addresses, no two of
\* them side by side.
Tiles(p, owned) ==
    /\ 0 \in DOMAIN p.hdr
    /\ \A c \in DOMAIN p.hdr : EndOf(p, c) = p.size - Header \/ EndOf(p, c) \in DOMAIN p.hdr
    /\ \A c, d \in DOMAIN p.hdr : c < d => EndOf(p, c) <= d
    /\ Range(p.free) = DOMAIN p.hdr \ owned /\ owned \subseteq DOMAIN p.hdr
    /\ \A i, j \in DOMAIN p.free : i < j => EndOf(p, p.free[i]) < p.free[j]

OnlyOnce(list) == \A i, j \in DOMAIN list : list[i] = list[j] => i = j

\* The dynamic allocator: every chunk of libc is once in one of the two lists, in the
\* used one exactly when somebody owns it, and the free ones are sorted by size,
\* so that the last one is the one to enlarge.
Lists(d, owned) ==
    /\ OnlyOnce(d.used) /\ Range(d.used) = owned /\ owned \subseteq DOMAIN d.size
    /\ OnlyOnce(d.free) /\ Range(d.free) = DOMAIN d.size \ owned
    /\ \A i, j \in DOMAIN d.free : i < j => d.size[d.free[i]] <= d.size[d.free[j]]

\* Nothing is lost, no block has two owners, and each is as large as was asked for.
Room(s, c) == (IF alc = "pool" THEN s.hdr[c] ELSE s.size[c]) - Header
BlocksKept ==
    /\ IF alc = "pool" THEN Tiles(mem, Owned) ELSE Lists(mem, Owned)
    /\ OnlyOnce(Lent) /\ DOMAIN held \cap Range(Lent) = {}
    /\ \A c \in DOMAIN held : Room(mem, c) >= held[c]

\* Strings and values of a document lie side by side in its chunks, each in its
\* own place, inside the block that the allocator gave.
SpansApart ==
    \A pool \in {doc.str, doc.val} : \A s \in pool.spans :
        /\ s.at \in Range(pool.chunks)
        /\ s.from + s.n <= s.room /\ s.room <= Room(mem, s.at)
        /\ \A t \in pool.spans : s.at = t.at /\ s # t =>
              s.from + s.n <= t.from \/ t.from + t.n <= s.from

\* Both allocators keep each block apart from the others, inside their memory and
\* as large as was asked for; nothing is lost, and what a document takes from its
\* chunks does not overlap.  This holds up to the first realloc in the pool that
\* moves a block into a chunk smaller than the old one with its slack: memcpy then
\* writes over the header behind the new chunk, and such calls are no steps here
\* (CopyFits).
BlocksApart == BlocksKept /\ SpansApart
=============================================================================
