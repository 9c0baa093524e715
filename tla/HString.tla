------------------------------ MODULE HString ------------------------------
(* The string of hana/container: short texts in the object itself, long ones *)
(* in a block on the heap, in one union. The object is modelled by its cells, *)
(* which the short text shares with pointer, size and capacity of the long    *)
(* one; what the string should hold is kept beside it in `text`.              *)
EXTENDS Integers, Sequences, FiniteSets, FiniteSetsExt, SequencesExt

CONSTANTS
  Letters,     \* bytes, all greater than zero
  MaxLen,      \* bound on the length of all texts together
  Reserves,    \* the capacities asked for
  None

VARIABLES str,    \* name -> its object, None when it is not alive
          text,   \* name -> what it should hold
          blocks, \* number of blocks on the heap
          broken  \* a size was lost, or something outside of an object or a block
          \* was written: nothing is said of what is called afterwards

vars == <<str, text, blocks, broken>>

Names  == {"x", "y"}
Edited == "x"        \* the other one is only made, moved, copied and swapped

SSOSize     == 4
SSOCapacity == SSOSize - 1
SizeCell    == 1     \* the cell of the short text that the long size lies in

\* Sizes are rounded to words of two bytes, and grow by at least one.
make_aligned(n) == ((n - 1) \div 2) * 2 + 2
get_grow(n)     == make_aligned((n \div 2) + n) + 1
get_reserve(n)  == make_aligned(n)

-----------------------------------------------------------------------------
(* One string: [sso, size, cap, mem]; mem covers 0 .. SSOSize - 1 or the      *)
(* block, of which cap is one less. None in mem is a byte that is not known.  *)

capacity(s) == IF s.sso THEN SSOCapacity ELSE s.cap

Content(s) == [i \in 1 .. s.size |-> s.mem[i - 1]]

reset == [sso |-> TRUE, size |-> 0, cap |-> None, mem |-> [i \in 0 .. SSOSize - 1 |-> 0]]

Block(n) == [i \in 0 .. n - 1 |-> None]

\* n cells from src to dst, read before they are written.
Moved(dst, at, src, from, n) ==
  [i \in DOMAIN dst |-> IF i \in at .. at + n - 1 THEN src[from + i - at] ELSE dst[i]]

Put(dst, at, v) == [i \in DOMAIN dst |-> IF i \in at .. at + Len(v) - 1 THEN v[i - at + 1] ELSE dst[i]]

Fits(dst, at, n) == at + n <= Cardinality(DOMAIN dst)

\* The terminator is written and the size kept where the form keeps it. Behind
\* the terminator of a long text nothing is known any more.
set_size(s, n) ==
  [s EXCEPT !.size = n,
            !.mem = [i \in DOMAIN s.mem |-> IF i = n THEN 0 ELSE IF i > n /\ ~s.sso THEN None ELSE s.mem[i]]]

\* A new block holds the first `keep` cells. The size of a string that was short
\* is what its cells happen to say until set_size is called.
helper_reserve(s, count, grown, keep) ==
  IF count <= capacity(s) THEN s
  ELSE [sso |-> FALSE, cap |-> grown - 1,
        size |-> IF s.sso THEN s.mem[SizeCell] ELSE s.size,
        mem |-> Moved(Block(grown), 0, s.mem, 0, keep)]

do_assign(s, v) ==
  LET r == helper_reserve(s, Len(v), get_reserve(Len(v) + 1), 0)
  IN  set_size([r EXCEPT !.mem = Put(r.mem, 0, v)], Len(v))

\* Variant: the size is read again behind reserve.
SizeReadLate(s, v) ==
  LET n == s.size + Len(v)
      r == helper_reserve(s, n, get_grow(n + 1), s.size)
  IN  set_size([r EXCEPT !.mem = Put(r.mem, r.size, v)], n)

do_append(s, v) ==
  LET n == s.size + Len(v)
      r == helper_reserve(s, n, get_grow(n + 1), s.size)
  IN  set_size([r EXCEPT !.mem = Put(r.mem, s.size, v)], n)

helper_insert(s, at, v) ==
  LET n    == s.size + Len(v)
      cap  == get_grow(n + 1)
      rest == s.size - at + 1
      r    == IF n > capacity(s)
              THEN [sso |-> FALSE, size |-> s.size, cap |-> cap - 1,
                    mem |-> Moved(Moved(Block(cap), 0, s.mem, 0, at), at + Len(v), s.mem, at, rest)]
              ELSE [s EXCEPT !.mem = Moved(s.mem, at + Len(v), s.mem, at, rest)]
  IN  set_size([r EXCEPT !.mem = Put(r.mem, at, v)], n)

do_erase(s, at, count) ==
  LET n == Min({count, s.size - at})
  IN  set_size([s EXCEPT !.mem = Moved(s.mem, at, s.mem, at + n, s.size - at - n)], s.size - n)

do_replace(s, pos, count, v) ==
  LET n    == (s.size + Len(v)) - count
      cap  == get_grow(n + 1)
      rest == s.size - pos - count
      r    == IF n > capacity(s)
              THEN [sso |-> FALSE, size |-> s.size, cap |-> cap - 1,
                    mem |-> Moved(Put(Moved(Block(cap), 0, s.mem, 0, pos), pos, v),
                                  pos + Len(v), s.mem, pos + count, rest)]
              ELSE [s EXCEPT !.mem = Put(Moved(s.mem, pos + Len(v), s.mem, pos + count, rest), pos, v)]
  IN  set_size(r, n)

do_reserve(s, n) == helper_reserve(s, n, get_reserve(n + 1), s.size + 1)

\* The fill of resize begins behind the text and is as long as the whole text
\* is to be.
Overfills(s, n) == s.size < n /\ ~Fits(do_reserve(s, n).mem, s.size, n)

do_resize(s, n, fill) ==
  LET r == do_reserve(s, n)
  IN  set_size([r EXCEPT !.mem = IF fill # None /\ s.size < n
                                 THEN Put(r.mem, s.size, [i \in 1 .. n |-> fill]) ELSE r.mem], n)

\* The constructor that fills does not reset the object: the form it finds is
\* whatever was there. This is what it leaves when that is a short one; where it
\* takes the object for a long one it writes wherever the pointer there leads.
filled(n, ch) ==
  LET r == helper_reserve([reset EXCEPT !.mem = Block(SSOSize)], n, get_reserve(n + 1), 0)
  IN  set_size([r EXCEPT !.mem = Put(r.mem, 0, [i \in 1 .. n |-> ch])], n)

concat(views, sep) ==
  LET total == FoldLeft(LAMBDA k, v : k + Len(v), 0, views) + (Len(sep) * (Len(views) - 1))
  IN  FoldLeftDomain(LAMBDA r, i : do_append(IF i = 1 THEN r ELSE do_append(r, sep), views[i]),
                     do_reserve(reset, total), views)

-----------------------------------------------------------------------------
Views == {<<>>, <<Min(Letters), Max(Letters)>>} \cup {<<ch>> : ch \in Letters}

Alive == {n \in Names : str[n] # None}
Others(n) == FoldFunctionOnSet(LAMBDA t, k : k + Len(t), 0, text, Names \ {n})

\* String n is left as r, and should now hold t.
Leaves(n, r, t) ==
  /\ Len(t) + Others(n) <= MaxLen
  /\ str' = [str EXCEPT ![n] = r]
  /\ text' = [text EXCEPT ![n] = t]
  /\ blocks' = blocks + (IF r.sso THEN 0 ELSE 1)
                       - (IF n \in Alive /\ ~str[n].sso THEN 1 ELSE 0)
Becomes(n, r, t) == Leaves(n, r, t) /\ UNCHANGED broken

Breaks == broken' = TRUE /\ UNCHANGED <<str, text, blocks>>

NewFrom(n, v) == n \notin Alive /\ Becomes(n, do_assign(reset, v), v)

NewFilled(n, k, ch) ==
  /\ n \notin Alive
  /\ \/ Becomes(n, filled(k, ch), [i \in 1 .. k |-> ch])
     \/ Breaks

NewJoined(n, views, sep, skip_empty) ==
  LET kept == IF skip_empty THEN SelectSeq(views, LAMBDA v : v # <<>>) ELSE views
  IN  /\ n \notin Alive /\ kept # <<>>
      /\ LET r == concat(kept, sep) IN Becomes(n, r, Content(r))

NewSubstr(n, m, pos, count) ==
  /\ n \notin Alive /\ m \in Alive /\ pos <= str[m].size
  /\ LET last == Min({pos + count, str[m].size})
     IN  Becomes(n, do_assign(reset, SubSeq(Content(str[m]), pos + 1, last)), SubSeq(text[m], pos + 1, last))

Swapped(n, m, s, t) == /\ str'  = [str  EXCEPT ![n] = s, ![m] = str[n]]
                       /\ text' = [text EXCEPT ![n] = t, ![m] = text[n]]

\* Moving is a swap with a string that was reset, and destroyed before that.
Moves(n, m) == /\ m \in Alive
               /\ str'  = IF n = m THEN [str EXCEPT ![n] = reset]
                          ELSE [str EXCEPT ![n] = str[m], ![m] = reset]
               /\ text' = IF n = m THEN [text EXCEPT ![n] = <<>>]
                          ELSE [text EXCEPT ![n] = text[m], ![m] = <<>>]
               /\ blocks' = blocks - (IF n \in Alive /\ ~str[n].sso THEN 1 ELSE 0)
               /\ UNCHANGED broken

NewMoved(n, m)   == n \notin Alive /\ Moves(n, m)
AssignMoved(n, m) == n \in Alive /\ Moves(n, m)

swap(n, m) == /\ {n, m} \subseteq Alive
              /\ Swapped(n, m, str[m], text[m])
              /\ UNCHANGED <<blocks, broken>>

Delete(n) == /\ n \in Alive
             /\ str'  = [str  EXCEPT ![n] = None]
             /\ text' = [text EXCEPT ![n] = <<>>]
             /\ blocks' = blocks - (IF str[n].sso THEN 0 ELSE 1)
             /\ UNCHANGED broken

assign(n, v) == n \in Alive /\ Becomes(n, do_assign(str[n], v), v)

append(n, v) == n \in Alive /\ Becomes(n, do_append(str[n], v), text[n] \o v)

insert(n, at, v) ==
  /\ n \in Alive /\ at <= str[n].size
  /\ Becomes(n, helper_insert(str[n], at, v), SubSeq(text[n], 1, at) \o v \o SubSeq(text[n], at + 1, Len(text[n])))

replace(n, pos, count, v) ==
  /\ n \in Alive /\ pos + count <= str[n].size
  /\ Becomes(n, do_replace(str[n], pos, count, v),
             SubSeq(text[n], 1, pos) \o v \o SubSeq(text[n], pos + count + 1, Len(text[n])))

erase(n, at, count) ==
  /\ n \in Alive /\ at < str[n].size
  /\ Becomes(n, do_erase(str[n], at, count),
             SubSeq(text[n], 1, at) \o SubSeq(text[n], at + count + 1, Len(text[n])))

remove_suffix(n, count) ==
  /\ n \in Alive /\ count \in 1 .. str[n].size
  /\ Becomes(n, do_erase(str[n], str[n].size - count, count), SubSeq(text[n], 1, Len(text[n]) - count))

\* A prefix given as a view goes only when the string starts with it.
remove_prefix(n, v) ==
  /\ n \in Alive /\ 0 < str[n].size /\ IsPrefix(v, Content(str[n]))
  /\ Becomes(n, do_erase(str[n], 0, Len(v)), SubSeq(text[n], Len(v) + 1, Len(text[n])))

\* How many of the characters at the one end, and at the other, are in chs.
Leading(t, chs)  == Max({k \in 0 .. Len(t) : \A i \in 1 .. k : t[i] \in chs})
Trailing(t, chs) == Leading(Reverse(t), chs)

\* Nothing is erased, and no terminator written, where nothing is to go.
TrimmedStart(s, chs) ==
  LET count == Leading(Content(s), chs) IN IF count = 0 THEN s ELSE do_erase(s, 0, count)
TrimmedEnd(s, chs) ==
  LET count == Trailing(Content(s), chs) IN IF count = 0 THEN s ELSE do_erase(s, s.size - count, count)

trim_start(n, chs) ==
  n \in Alive /\ Becomes(n, TrimmedStart(str[n], chs), SubSeq(text[n], Leading(text[n], chs) + 1, Len(text[n])))
trim_end(n, chs) ==
  n \in Alive /\ Becomes(n, TrimmedEnd(str[n], chs), SubSeq(text[n], 1, Len(text[n]) - Trailing(text[n], chs)))
trim(n, chs) ==
  n \in Alive /\ Becomes(n, TrimmedEnd(TrimmedStart(str[n], chs), chs),
                        SubSeq(text[n], Leading(text[n], chs) + 1, Len(text[n]) - Trailing(text[n], chs)))

pop_back(n, count) ==
  /\ n \in Alive /\ count <= str[n].size
  /\ Becomes(n, set_size(str[n], str[n].size - count), SubSeq(text[n], 1, Len(text[n]) - count))

reverse(n, from, count) ==
  /\ n \in Alive /\ from < str[n].size /\ count <= str[n].size - from
  /\ LET part == SubSeq(Content(str[n]), from + 1, from + count)
     IN  Becomes(n, [str[n] EXCEPT !.mem = Put(@, from, Reverse(part))],
                 SubSeq(text[n], 1, from) \o Reverse(SubSeq(text[n], from + 1, from + count))
                   \o SubSeq(text[n], from + count + 1, Len(text[n])))

\* The size of a short text that moves to a block is not set.
reserve(n, k) ==
  /\ n \in Alive
  /\ LET r == do_reserve(str[n], k)
     IN  Leaves(n, r, text[n]) /\ broken' = (r.size # str[n].size)

release(n, k) == /\ n \in Alive
                 /\ Becomes(n, set_size(do_reserve(str[n], k), 0), <<>>)

\* Without a filler the new part is what lies there.
resize(n, k, fill) ==
  /\ n \in Alive /\ k <= MaxLen
  /\ fill = None => k <= str[n].size + 1    \* a bound: one unknown byte at a time
  /\ IF fill # None /\ Overfills(str[n], k) THEN Breaks
     ELSE LET r == do_resize(str[n], k, fill)
              i0 == Min({k, Len(text[n])})
          IN  Becomes(n, r, SubSeq(text[n], 1, i0)
                              \o [i \in 1 .. k - i0 |-> IF fill # None THEN fill ELSE r.mem[i0 + i - 1]])

Init == /\ str = [n \in Names |-> None]
        /\ text = [n \in Names |-> <<>>]
        /\ blocks = 0
        /\ broken = FALSE

Next ==
  /\ ~broken
  /\ \/ \E n, m \in Names :
          \/ \E v \in Views : NewFrom(n, v)
          \/ n # m /\ (NewMoved(n, m) \/ swap(n, m))
          \/ AssignMoved(n, m)
          \/ Delete(n)
          \/ \E pos, count \in 0 .. MaxLen : n # m /\ NewSubstr(n, m, pos, count)
     \/ \E n \in {Edited} :
          \/ \E v \in Views : assign(n, v) \/ append(n, v) \/ remove_prefix(n, v)
          \/ \E chs \in SUBSET Letters \ {{}} : trim_start(n, chs) \/ trim_end(n, chs) \/ trim(n, chs)
          \/ \E k \in 0 .. MaxLen, ch \in Letters : NewFilled(n, k, ch)
          \/ \E k \in 0 .. MaxLen, ch \in {Max(Letters), None} : resize(n, k, ch)
          \/ \E v \in [1 .. 3 -> {<<>>, <<Min(Letters)>>}], sep \in {<<>>, <<Max(Letters)>>}, skip \in BOOLEAN :
               NewJoined(n, v, sep, skip)
          \/ \E at \in 0 .. MaxLen, v \in Views : insert(n, at, v)
          \/ \E pos \in 0 .. MaxLen, count \in 0 .. 2, v \in Views : replace(n, pos, count, v)
          \/ \E at \in 0 .. MaxLen, count \in 0 .. MaxLen : erase(n, at, count) \/ reverse(n, at, count)
          \/ \E count \in 0 .. MaxLen : remove_suffix(n, count) \/ pop_back(n, count)
          \/ \E k \in Reserves : reserve(n, k) \/ release(n, k)

-----------------------------------------------------------------------------
\* Whatever is called in whatever order, whether the text lies in the object or
\* in a block and moves between them: a string holds what it should, with the
\* terminator behind it, inside its cells, and there is one block for each
\* string that does not hold its text itself. That is so until one of these is
\* called: reserve of a short text that moves to a block and whose size is not what
\* lies there, resize of a text that is not empty to so much that its fill, which
\* is as long as the whole text is to be, does not fit behind it, or the constructor
\* that fills, where the flag in its memory says that the object is a long one.
HoldsText ==
  broken \/ /\ \A n \in Alive :
                 LET s == str[n]
                 IN  /\ s.size = Len(text[n])
                     /\ s.size <= capacity(s)
                     /\ Content(s) = text[n]
                     /\ s.mem[s.size] = 0
                     /\ DOMAIN s.mem = 0 .. (IF s.sso THEN SSOSize - 1 ELSE s.cap)
            /\ blocks = Cardinality({n \in Alive : ~str[n].sso})

\* "str.reserve(10086); CHECK_EQ(str.size(), long_literal.size());" (tests/string.cpp:311)
ReserveKeepsSize == \A n \in Alive : str[n].size = Len(text[n])

============================================================================
