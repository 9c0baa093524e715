------------------------------ MODULE Unicode ------------------------------
(* The text algorithms of hana/unicode: sequence lengths, the cursor over    *)
(* UTF-8 and UTF-16 text, indices in code points, the strict decoder and the *)
(* conversions to UTF-8.                                                     *)
(*                                                                           *)
(* A text is a view into a store: `size` units behind the first `from` ones. *)
(* from is at least one, because the walk backwards reads the unit in front  *)
(* of the text, and the store begins with a unit that heads a sequence.      *)
(* Bytes from 0xF8 on do not occur (see the README).                         *)
EXTENDS Integers, Sequences, FiniteSets, FiniteSetsExt, SequencesExt

CONSTANT None

At(t, i) == t.store[t.from + i + 1]
units(t) == SubSeq(t.store, t.from + 1, t.from + t.size)

\* A sum of unsigned indices: below zero it wraps far behind every size.
Fits(t, k) == k \in 0 .. t.size

-----------------------------------------------------------------------------
utf8_maximum_code_point(n) == <<127, 2047, 65535, 2097151>>[n]

utf16_is_leading_surrogate(u)  == u \in 55296 .. 56319
utf16_is_trailing_surrogate(u) == u \in 56320 .. 57343

\* Length by the code point, also for the first unit of UTF-16.
utf8_seq_len32(ch) ==
  IF ch > utf8_maximum_code_point(3) THEN 4
  ELSE CHOOSE n \in 1 .. 3 : /\ ch <= utf8_maximum_code_point(n)
                             /\ n = 1 \/ ch > utf8_maximum_code_point(n - 1)


utf8_seq_len16(u) == IF u \in 55296 .. 57343 THEN 4 ELSE utf8_seq_len32(u)

utf8_seq_len(b) ==
  CASE b < 128 -> 1 [] b < 192 -> 0 [] b < 224 -> 2 [] b < 240 -> 3 [] OTHER -> 4

utf16_seq_len(u) == CASE utf16_is_leading_surrogate(u)  -> 2
                      [] utf16_is_trailing_surrogate(u) -> 0
                      [] OTHER -> 1

utf16_seq_len8(b) == LET n == utf8_seq_len(b) IN IF n <= 3 THEN Min({n, 1}) ELSE 2

seq_len(t, i) == IF t.kind = 8 THEN utf8_seq_len(At(t, i)) ELSE utf16_seq_len(At(t, i))

\* Variant: the head must lie nearer by one.
HeadTooNear(t, i) ==
  LET heads == {j \in 0 .. (i - 1) : seq_len(t, j) # 0}
      n     == seq_len(t, i)
  IN  IF n # 0 THEN <<i, IF Fits(t, i + n) THEN n ELSE 0>>
      ELSE IF heads = {} \/ seq_len(t, Max(heads)) < i - Max(heads) + 2 THEN <<i, 0>>
      ELSE <<Max(heads), seq_len(t, Max(heads))>>

\* The head of the sequence that unit i lies in, with its length; length 0
\* means that i is a bad unit.
utf8_adjust_index_to_head(t, i) ==
  LET n     == seq_len(t, i)
      heads == {j \in (IF i > 0 THEN 0 ELSE - t.from) .. (i - 1) : seq_len(t, j) # 0}
  IN  CASE n # 0 -> <<i, IF Fits(t, i + n) THEN n ELSE 0>>
        [] n = 0 /\ (i = 0 \/ heads = {}) -> <<i, 0>>
        [] OTHER -> LET head == Max(heads)
                        m    == seq_len(t, head)
                    IN  IF m < i - head + 1 \/ ~Fits(t, head + m) THEN <<i, 0>> ELSE <<head, m>>

utf16_adjust_index_to_head(t, i) ==
  LET n == seq_len(t, i)
  IN  CASE n # 0 -> <<i, IF Fits(t, i + n) THEN n ELSE 0>>
        [] n = 0 /\ i # 0 /\ seq_len(t, i - 1) = 2 -> <<i - 1, 2>>
        [] OTHER -> <<i, 0>>

adjust_index_to_head(t, i) ==
  IF t.kind = 8 THEN utf8_adjust_index_to_head(t, i) ELSE utf16_adjust_index_to_head(t, i)

-----------------------------------------------------------------------------
(* The cursor.                                                               *)

Bad(n) == IF n = 0 THEN None ELSE n

\* The constructor, and the end of move_next.
_try_parse_seq_len(t, i) ==
  LET n == seq_len(t, i)
  IN  [index |-> i,
       len   |-> IF i = t.size THEN None ELSE IF i + n > t.size THEN None ELSE Bad(n)]

Begin(t) == _try_parse_seq_len(t, 0)

Adjusted(t, i) == LET a == adjust_index_to_head(t, i) IN [index |-> a[1], len |-> Bad(a[2])]

End(t) == Adjusted(t, t.size - 1)

Units(c) == IF c.len = None THEN 1 ELSE c.len

reach_end(t, c) == c.index = t.size
reach_begin(c)  == c.index = -1

\* move_next with the length it had is left unparsed when it reaches the end.
Forth(t, c) == LET i == c.index + Units(c)
               IN  IF i = t.size THEN [c EXCEPT !.index = i] ELSE _try_parse_seq_len(t, i)

\* All cursors of a walk from the beginning.
Walk(t) == LET at[i \in 0 .. t.size] ==
                 IF i = t.size THEN <<>>
                 ELSE LET c == _try_parse_seq_len(t, i) IN <<c>> \o at[i + Units(c)]
           IN  at[0]

ref(t, c) == [u \in 1 .. Units(c) |-> At(t, c.index + u - 1)]

\* The number of steps of the counting loop until it is past unit i.
code_point_index(t, i) ==
  LET from[k \in 0 .. t.size] ==
        LET n == seq_len(t, k)
            m == IF n # 0 /\ k + n <= t.size THEN n ELSE 1
        IN  IF k + m > i THEN 1 ELSE 1 + from[k + m]
  IN  from[0] - 1

code_unit_index(t, p) ==
  LET after[q \in 0 .. p] ==
        IF q = 0 THEN 0
        ELSE LET k == after[q - 1]
                 n == seq_len(t, k)
             IN  IF n # 0 /\ k + n <= t.size THEN k + n ELSE k + 1
  IN  after[p]

-----------------------------------------------------------------------------
(* Code points and conversions.                                              *)

\* UTF8Seq(char32_t); casts drop what lies above a byte.
Utf8Of(ch) ==
  LET n      == utf8_seq_len32(ch)
      low(k) == (ch \div (64 ^ k)) % 64
  IN  IF n = 1 THEN <<ch>>
      ELSE [u \in 1 .. n |-> IF u = 1 THEN <<192, 224, 240>>[n - 1] + ch \div (64 ^ (n - 1))
                             ELSE 128 + low(n - u)]

\* UTF8Seq::operator char32_t: the trailing units are masked, not checked.
CodePoint8(s) ==
  IF s = <<>> THEN 0
  ELSE LET lead == s[1] % <<128, 32, 16, 8>>[Len(s)]
       IN  FoldLeft(LAMBDA v, b : (v * 64) + (b % 64), lead, Tail(s))

Utf16Of(ch) == IF ch <= 65535 THEN <<ch>>
               ELSE <<((ch - 65536) \div 1024) + 55296, (ch % 1024) + 56320>>

CodePoint16(s) == IF Len(s) = 1 THEN s[1]
                  ELSE ((s[1] % 1024) * 1024) + (s[2] % 1024) + 65536

\* Over the sequences of a text: the number of bytes, and the bytes.
text_size(t) ==
  IF t.kind = 32 THEN FoldLeft(LAMBDA n, ch : n + utf8_seq_len32(ch), 0, units(t))
  ELSE FoldLeft(LAMBDA n, c : n + (IF c.len = None THEN 1 ELSE utf8_seq_len16(At(t, c.index))), 0, Walk(t))

parse_to_utf8(t) ==
  IF t.kind = 32 THEN FlattenSeq([i \in 1 .. t.size |-> Utf8Of(units(t)[i])])
  ELSE FoldLeft(LAMBDA s, c : s \o (IF c.len = None THEN <<At(t, c.index) % 256>>
                                    ELSE Utf8Of(CodePoint16(ref(t, c)))), <<>>, Walk(t))

\* HStringView::to_size<char16_t> and <char32_t>.
to_size16(t) == FoldLeft(LAMBDA n, c : n + (IF c.len = None THEN 1 ELSE utf16_seq_len8(At(t, c.index))), 0, Walk(t))
to_size32(t) == Len(Walk(t))

-----------------------------------------------------------------------------
(* The strict decoder, which formatted output walks text with.               *)


\* What the second byte may be behind a leading byte.
Second(b) == CASE b = 224 -> 160 .. 255 [] b = 237 -> 0 .. 159
               [] b = 240 -> 144 .. 255 [] b = 244 -> 0 .. 143 [] OTHER -> 0 .. 255

\* The bytes of the next character and its value, None when it is not one.
decode_utf(s) ==
  LET b   == s[1]
      num == CASE b <= 127 -> 1 [] b \in 194 .. 223 -> 2 [] b \in 224 .. 239 -> 3
               [] b \in 240 .. 244 -> 4 [] OTHER -> 0
      bad == {k \in 2 .. num : k > Len(s) \/ s[k] \notin 128 .. 191}
  IN  CASE num <= 1 -> [len |-> 1, value |-> IF num = 1 THEN b ELSE None]
        [] num > 1 /\ Len(s) > 1 /\ s[2] \notin Second(b) -> [len |-> 1, value |-> None]
        [] num > 1 /\ (Len(s) = 1 \/ s[2] \in Second(b)) ->
             IF bad # {} THEN [len |-> Min(bad) - 1, value |-> None]
             ELSE [len |-> num, value |-> CodePoint8(SubSeq(s, 1, num))]

-----------------------------------------------------------------------------
(* What it should be: the definition of the encodings, from code points.     *)

Scalar(ch) == ch \in 0 .. 1114111 /\ ch \notin 55296 .. 57343

Trails(s) == \A k \in 2 .. Len(s) : s[k] \in 128 .. 191

IsUtf8(s) == /\ Len(s) \in 1 .. 4
             /\ utf8_seq_len(s[1]) = Len(s)
             /\ Trails(s)
             /\ Scalar(CodePoint8(s))
             /\ Len(s) = 1 \/ CodePoint8(s) > <<127, 2047, 65535>>[Len(s) - 1]

\* The longest beginning of s that a character can begin with; the bytes that
\* are missing range over 80..BF, whose ends suffice.
CanBegin(p) == \E n \in Len(p) .. 4, e \in {128, 191} :
                 IsUtf8(p \o [k \in 1 .. n - Len(p) |-> e])

MaximalSubpart(s) == LET p == {k \in 1 .. Min({4, Len(s)}) : CanBegin(SubSeq(s, 1, k))}
                     IN  IF p = {} THEN 1 ELSE Max(p)

\* Well-formed text: each sequence of its walk is a character.
WellFormed(t) ==
  \A k \in DOMAIN Walk(t) :
    LET s == ref(t, Walk(t)[k])
    IN  IF t.kind = 8 THEN IsUtf8(s)
        ELSE IF Len(s) = 1 THEN ~utf16_is_leading_surrogate(s[1]) /\ ~utf16_is_trailing_surrogate(s[1])
        ELSE utf16_is_leading_surrogate(s[1]) /\ utf16_is_trailing_surrogate(s[2])

Decoded(s) ==
  LET at[k \in 0 .. Len(s)] ==
        IF k = Len(s) THEN <<>>
        ELSE LET d == decode_utf(SubSeq(s, k + 1, Len(s))) IN <<d.value>> \o at[k + d.len]
  IN  at[0]

============================================================================
