---------------------------- MODULE HStringView ----------------------------
(* The view of hana/container: an interval of a store that calls make        *)
(* narrower, and that split takes apart piece by piece. Searching is that of *)
(* the standard string view.                                                 *)
EXTENDS Unicode

CONSTANTS Stores,      \* the texts, each a record of Unicode
          Marks,       \* delimiters and sets of characters, never empty
          Limits       \* of split, None is no limit

VARIABLES view,        \* the view
          job,         \* what split was asked for, None when it is not running
          rest,        \* what split has not looked at
          pieces       \* what it has handed out

vars == <<view, job, rest, pieces>>

-----------------------------------------------------------------------------
sub(v, pos, count) == [v EXCEPT !.from = v.from + pos, !.size = Min({count, v.size - pos})]
empty(v)  == sub(v, 0, 0)

Finds(v, p) == {i \in 0 .. v.size - Len(p) : SubSeq(units(v), i + 1, i + Len(p)) = p}
find(v, p)  == IF Finds(v, p) = {} THEN None ELSE Min(Finds(v, p))

starts_with(v, p) == v.size >= Len(p) /\ SubSeq(units(v), 1, Len(p)) = p
ends_with(v, p)   == v.size >= Len(p) /\ SubSeq(units(v), v.size - Len(p) + 1, v.size) = p

count(v, p) ==
  LET from[i \in 0 .. v.size] ==
        LET hit == find(sub(v, i, v.size), p)
        IN  IF hit = None THEN 0 ELSE 1 + from[i + hit + Len(p)]
  IN  from[0]


partition(v, p) ==
  LET hit == find(v, p)
  IN  IF hit = None THEN [left |-> v, right |-> empty(v)]
      ELSE [left |-> sub(v, 0, hit), right |-> sub(v, hit + Len(p), v.size)]

-----------------------------------------------------------------------------
(* Trimming walks with a cursor until it meets a character that stays.       *)

Holds(cs, s) == Len(s) <= Len(cs) /\ \E i \in 1 .. Len(cs) - Len(s) + 1 : SubSeq(cs, i, i + Len(s) - 1) = s

\* characters.contains(cursor.ref()): a bad sequence is in nothing.
Strips(v, cs, c) == c.len # None /\ Holds(cs, ref(v, c))

Keeps(v, cs, c) == IF cs = None THEN c.len # None ELSE ~Strips(v, cs, c)

\* The walk: the first cursor that stays, None in front of and behind the text.
Stays(v, cs, step(_), c0, out(_)) ==
  LET walk[k \in 0 .. v.size + Len(v.store)] ==
        IF k = 0 THEN c0
        ELSE LET c == walk[k - 1] IN IF out(c) \/ Keeps(v, cs, c) THEN c ELSE step(c)
      c == walk[v.size + Len(v.store)]
  IN  IF out(c) THEN None ELSE c

\* cs = None: whatever is bad is trimmed.
From(v, c) == IF v.size = 0 \/ c = None THEN empty(v) ELSE sub(v, c.index, v.size)
trim_start(v, cs) == From(v, Stays(v, cs, LAMBDA d : Forth(v, d), Begin(v), LAMBDA d : reach_end(v, d)))

LastKept(v, cs) == Stays(v, cs, LAMBDA d : Adjusted(v, d.index - 1), End(v), LAMBDA d : d.index < 0)
UpTo(v, last) == sub(v, 0, IF last < 0 THEN v.size ELSE last)
\* Variant: one unit of the character that stays is kept.
EndsAtHead(v, c) == IF v.size = 0 \/ c = None THEN empty(v) ELSE sub(v, 0, c.index + 1)

\* The length of a bad sequence is the largest size: the sum wraps to one unit
\* less, and at the first unit to everything.
EndsBehind(v, c) == IF v.size = 0 \/ c = None THEN empty(v)
                    ELSE UpTo(v, c.index + (IF c.len = None THEN -1 ELSE c.len))
trim_end(v, cs) == EndsBehind(v, LastKept(v, cs))

trim(v, cs) == trim_end(trim_start(v, cs), cs)

-----------------------------------------------------------------------------
(* The calls.                                                                *)

Narrows(v) == /\ job = None
              /\ view' = v
              /\ UNCHANGED <<job, rest, pieces>>

remove_prefix(n) == n <= view.size /\ Narrows(sub(view, n, view.size))
remove_suffix(n) == n <= view.size /\ Narrows(sub(view, 0, view.size - n))

RemovesPrefix(p) == Narrows(IF starts_with(view, p) THEN sub(view, Len(p), view.size) ELSE view)
RemovesSuffix(p) == Narrows(IF ends_with(view, p) THEN sub(view, 0, view.size - Len(p)) ELSE view)

Trims(cs) == Narrows(trim_start(view, cs)) \/ Narrows(trim_end(view, cs))

subview(pos, n) == pos <= view.size /\ Narrows(sub(view, pos, n))
last_view(n)    == n <= view.size /\ Narrows(sub(view, view.size - n, n))

Takes(p) == \E v \in {partition(view, p).left, partition(view, p).right} : Narrows(v)

split(p, cull_empty, limit) ==
  /\ job = None
  /\ job' = [delimiter |-> p, cull |-> cull_empty, limit |-> limit, done |-> FALSE]
  /\ rest' = view
  /\ pieces' = <<>>
  /\ UNCHANGED view

\* One round. The function of split_each may ask to stop.
SplitRound ==
  /\ job # None /\ ~job.done
  /\ LET cut  == partition(rest, job.delimiter)
         adds == ~job.cull \/ cut.left.size > 0
         n    == Len(pieces) + (IF adds THEN 1 ELSE 0)
         ends == cut.right.size = 0 \/ (job.limit # None /\ n >= job.limit)
     IN  /\ pieces' = IF adds THEN Append(pieces, units(cut.left)) ELSE pieces
         /\ rest' = IF ends THEN rest ELSE cut.right
         /\ job' = [job EXCEPT !.done = ends]
  /\ UNCHANGED view

SplitStops == /\ job # None /\ ~job.done /\ pieces # <<>>
              /\ job' = None /\ rest' = None /\ pieces' = <<>>
              /\ UNCHANGED view

Init == view \in Stores /\ job = None /\ rest = None /\ pieces = <<>>

Next == \/ \E n \in 1 .. 2 : remove_prefix(n) \/ remove_suffix(n) \/ subview(1, n) \/ last_view(n)
        \/ \E p \in Marks : RemovesPrefix(p) \/ RemovesSuffix(p) \/ Trims(p) \/ Takes(p)
        \/ Trims(None)
        \/ \E p \in Marks, cull \in BOOLEAN, limit \in Limits : split(p, cull, limit)
        \/ SplitRound \/ SplitStops

-----------------------------------------------------------------------------
Characters(v) == [k \in DOMAIN Walk(v) |-> ref(v, Walk(v)[k])]

In(cs, s) == \E k \in DOMAIN cs : cs[k] = s

\* A well-formed view with an ASCII byte in front of it loses at each end exactly
\* the longest run of characters it was asked to trim, and where bad bytes lie
\* between characters, trimming the bad ones leaves characters at both ends.  Nothing is
\* said of characters trimmed beside a bad unit: where that one is the last, trim_end
\* cuts one unit more or nothing (see the README).
TrimsExactly ==
  job = None =>
    /\ WellFormed(view) /\ At(view, -1) < 128 =>
         \A p \in Marks :
           LET cs    == Characters([view EXCEPT !.store = p, !.from = 0, !.size = Len(p)])
               was   == Characters(view)
               now   == Characters(trim(view, p))
               stays == {k \in DOMAIN was : ~In(cs, was[k])}
           IN  now = IF stays = {} THEN <<>> ELSE SubSeq(was, Min(stays), Max(stays))
    /\ (\A k \in DOMAIN Walk(view) : Walk(view)[k].len # None => IsUtf8(ref(view, Walk(view)[k]))) =>
         LET left == Walk(trim(view, None))
         IN  left # <<>> => left[1].len # None /\ Last(left).len # None

Join(ps, p) == FoldLeftDomain(LAMBDA s, k : s \o (IF k = 1 THEN <<>> ELSE p) \o ps[k], <<>>, ps)

\* What the pieces should be: the text between the delimiters, an empty end left
\* out.
SplitParts(v, p) ==
  LET from[i \in 0 .. v.size] ==
        LET cut == partition(sub(v, i, v.size), p)
        IN  <<units(cut.left)>> \o (IF cut.right.size = 0 THEN <<>> ELSE from[v.size - cut.right.size])
  IN  from[0]

\* The pieces joined with the delimiter are the text again, but for a delimiter
\* at its end; none has the delimiter in it; there are as many as count says; a
\* limit hands out the first ones, and culling leaves out the empty ones and no
\* other.
SplitJoins ==
  job # None /\ job.done =>
    LET p   == job.delimiter
        all == SplitParts(view, p)
    IN  /\ job.limit = None /\ ~job.cull =>
             /\ units(view) \in {Join(pieces, p), Join(pieces, p) \o p}
             /\ count(view, p) = Len(pieces) - (IF units(view) = Join(pieces, p) THEN 1 ELSE 0)
             /\ \A k \in DOMAIN pieces : ~Holds(pieces[k], p)
        /\ LET kept == IF job.cull THEN SelectSeq(all, LAMBDA s : s # <<>>) ELSE all
           IN  pieces = IF job.limit = None THEN kept ELSE SubSeq(kept, 1, Min({job.limit, Len(kept)}))

============================================================================
