---------------------------- MODULE UnicodeWalk ----------------------------
(* A cursor walks over a text, forwards from its beginning or backwards from *)
(* its end, as the iterators and ranges of hana/unicode do.                  *)
EXTENDS Unicode

CONSTANT Texts

VARIABLES text,    \* [kind, store, from, size]
          cursor,  \* [index, len], len = None for a bad sequence
          seen,    \* the cursors walked so far
          way      \* "forth" | "back"

vars == <<text, cursor, seen, way>>

move_next == /\ way = "forth"
             /\ ~reach_end(text, cursor)
             /\ cursor' = Forth(text, cursor)
             /\ seen' = Append(seen, cursor)
             /\ UNCHANGED <<text, way>>

\* The way back stops at the index in front of the text and nowhere else.  From there
\* on and beyond it reads what is stored in front; bound: the model's store ends.
InStore(i) == i >= - text.from

move_prev == /\ way = "back"
             /\ ~reach_begin(cursor) /\ InStore(cursor.index - 1)
             /\ cursor' = Adjusted(text, cursor.index - 1)
             /\ seen' = <<cursor>> \o seen
             /\ UNCHANGED <<text, way>>

Init == /\ text \in Texts
        /\ way \in {"forth", "back"}
        /\ cursor = CASE text.kind = 32 -> [index |-> text.size, len |-> None]  \* not walked
                      [] text.kind # 32 /\ way = "forth" -> Begin(text)
                      [] OTHER -> End(text)
        /\ seen = <<>>

Next == move_next \/ move_prev

-----------------------------------------------------------------------------
Done == IF way = "forth" THEN reach_end(text, cursor) ELSE cursor.index < 0

\* Whatever the bytes are, a walk forwards cuts the whole text into sequences,
\* none of which reaches behind the end; the index of a unit in code points and
\* the way back agree with the walk, and on well-formed text the walk backwards
\* and the strict decoder cut it the same way.
WalksAgree ==
  LET begins == [k \in DOMAIN seen |-> seen[k].index]
  IN  Done /\ text.kind # 32 =>
              /\ \A k \in DOMAIN seen : seen[k].index + Units(seen[k]) <= text.size
              /\ way = "back" /\ WellFormed(text) =>
                   SelectSeq(seen, LAMBDA c : c.index >= 0) = Walk(text)
              /\ way = "forth" =>
                   /\ FlattenSeq([k \in DOMAIN seen |-> ref(text, seen[k])]) = units(text)
                   /\ \A i \in 0 .. text.size - 1 :
                        code_point_index(text, i) = Cardinality({k \in DOMAIN begins : begins[k] <= i}) - 1
                   /\ \A k \in DOMAIN begins : code_unit_index(text, k - 1) = begins[k]
                   /\ text.kind = 8 /\ WellFormed(text) =>
                        \A k \in DOMAIN seen :
                          LET s == SubSeq(units(text), begins[k] + 1, text.size)
                          IN  decode_utf(s) = [len |-> Units(seen[k]), value |-> CodePoint8(ref(text, seen[k]))]

\* A head with nothing but trailing units between it and the text, which has room for
\* all of them: a character of several units ends in front of the text, or is cut by it.
CharacterInFront ==
  \E k \in 2 .. text.from : /\ \A j \in 1 .. k - 1 : seq_len(text, - j) = 0
                            /\ seq_len(text, - k) \in k .. k + text.size

\* The walk backwards ends in front of the text, unless a character of several units
\* stands there: then, whatever the text is, it steps over that index and does not end.
LeavesOnlyOverCharacter ==
  way = "back" /\ text.kind # 32 /\ cursor.index < 0 =>
      (cursor.index < -1 <=> CharacterInFront)

\* The strict decoder accepts exactly the characters of the encoding and skips
\* the longest beginning of one when it meets something else.
DecodesUtf8 ==
  text.kind = 8 /\ text.size > 0 =>
    LET s == units(text)
        d == decode_utf(s)
    IN  IF d.value = None
        THEN (\A n \in 1 .. text.size : ~IsUtf8(SubSeq(s, 1, n))) /\ d.len = MaximalSubpart(s)
        ELSE IsUtf8(SubSeq(s, 1, d.len)) /\ d.value = CodePoint8(SubSeq(s, 1, d.len))

\* A text of UTF-16 or UTF-32 is written in exactly the bytes it was measured
\* to need, and what was written of a well-formed one decodes to its code points;
\* UTF-8 text measured for UTF-16 and UTF-32 gets the units it needs there.
ConvertsExactly ==
  IF text.kind = 8
  THEN WellFormed(text) =>
         LET points == Decoded(units(text))
         IN  to_size32(text) = Len(points) /\ to_size16(text) = Len(FlattenSeq([k \in DOMAIN points |-> Utf16Of(points[k])]))
  ELSE /\ text_size(text) = Len(parse_to_utf8(text))
       /\ text.kind = 16 /\ WellFormed(text) =>
            Decoded(parse_to_utf8(text)) = [k \in DOMAIN Walk(text) |-> CodePoint16(ref(text, Walk(text)[k]))]
       /\ text.kind = 32 /\ (\A k \in DOMAIN units(text) : Scalar(units(text)[k])) =>
            Decoded(parse_to_utf8(text)) = units(text)

============================================================================
