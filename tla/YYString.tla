------------------------------ MODULE YYString ------------------------------
(***************************************************************************)
(* Strings of yyjson, byte by byte: the writer, which copies or escapes    *)
(* UTF-8, the reader, which unescapes it in place, and the test that tells *)
(* a string that ends too early from one that is wrong.                    *)
(***************************************************************************)
EXTENDS SequencesExt, Integers

CONSTANTS Jobs,   \* what to do: [op |-> "write", s, esc, slash, inv] or [op |-> "read", s, inv]
          None

VARIABLES job,    \* what is done
          ret     \* the result of the call, None before

vars == <<job, ret>>

Quote == 34
Backslash == 92
Letter_u == 117
HexOf == <<48, 49, 50, 51, 52, 53, 54, 55, 56, 57, 65, 66, 67, 68, 69, 70>>
\* The characters with an escape of their own, and its letter.
Short == (8 :> 98) @@ (9 :> 116) @@ (10 :> 110) @@ (12 :> 102) @@ (13 :> 114)
         @@ (34 :> 34) @@ (92 :> 92) @@ (47 :> 47)

-----------------------------------------------------------------------------
(* UTF-8.  The masks and patterns of the code, as arithmetic.              *)

Cont(b) == b \div 64 = 2
is_valid_seq_2(a, b) == a \div 32 = 6 /\ Cont(b) /\ (a % 32) \div 2 # 0
is_valid_seq_3(a, b, c) ==
    /\ a \div 16 = 14 /\ Cont(b) /\ Cont(c)
    /\ a % 16 # 0 \/ b \div 32 % 2 = 1                    \* b3_requ
    /\ ~(a % 16 = 13 /\ b \div 32 % 2 = 1)                \* b3_erro
is_valid_seq_4(a, b, c, d) ==
    /\ a \div 8 = 30 /\ Cont(b) /\ Cont(c) /\ Cont(d)
    /\ a % 8 # 0 \/ b \div 16 % 4 # 0                     \* b4_requ
    /\ a % 8 < 4 \/ (a % 4 = 0 /\ b \div 16 % 4 = 0)      \* b4_err0, b4_err1

\* The bytes from i on, with zeros behind the end.
At(s, i) == IF i \in 1 .. Len(s) THEN s[i] ELSE 0
\* The length of the multi-byte character at i, 0 if there is none.
Wide(s, i) ==
    IF is_valid_seq_3(At(s, i), At(s, i + 1), At(s, i + 2)) THEN 3
    ELSE IF is_valid_seq_2(At(s, i), At(s, i + 1)) THEN 2
    ELSE IF is_valid_seq_4(At(s, i), At(s, i + 1), At(s, i + 2), At(s, i + 3)) THEN 4 ELSE 0

-----------------------------------------------------------------------------
(* The writer.                                                             *)

\* What enc_table says of a byte: how many bytes its character has, and whether
\* it is copied, escaped, or wrong.
Kind(j, b) ==
    LET multi(n) == [n |-> n, do |-> IF j.esc THEN "hex" ELSE "copy"]
    IN CASE b \in DOMAIN Short /\ (b # 47 \/ j.slash) -> [n |-> 1, do |-> "short"]
         [] b < 32 -> [n |-> 1, do |-> "hex"]
         [] b < 128 -> [n |-> 1, do |-> "copy"]
         [] b \in 192 .. 223 -> multi(2)
         [] b \in 224 .. 239 -> multi(3)
         [] b \in 240 .. 247 -> multi(4)
         [] OTHER -> [n |-> 1, do |-> "wrong"]
Hex4(u) == <<Backslash, Letter_u, HexOf[u \div 4096 + 1], HexOf[(u \div 256 % 16) + 1],
             HexOf[(u \div 16 % 16) + 1], HexOf[(u % 16) + 1]>>
\* The code point of n bytes.
Decoded(c) ==
    CASE Len(c) = 1 -> c[1]
      [] Len(c) = 2 -> (c[1] % 32) * 64 + (c[2] % 64)
      [] Len(c) = 3 -> (c[1] % 16) * 4096 + (c[2] % 64) * 64 + (c[3] % 64)
      [] Len(c) = 4 -> (c[1] % 8) * 262144 + (c[2] % 64) * 4096 + (c[3] % 64) * 64 + (c[4] % 64)
\* Variant: the pair is made from the code point itself.
NoOffset(u) == IF u < 65536 THEN Hex4(u) ELSE Hex4(55296 + ((u \div 1024) % 1024)) \o Hex4(56320 + (u % 1024))
Escaped(u) ==
    IF u < 65536 THEN Hex4(u)
    ELSE Hex4(55296 + ((u - 65536) \div 1024)) \o Hex4(56320 + ((u - 65536) % 1024))

\* One character: its text and how many bytes it takes, or failure.
Char(j, i) ==
    LET k == Kind(j, j.s[i])
        c == SubSeq(j.s, i, i + k.n - 1)
        fits == i + k.n - 1 <= Len(j.s)
        valid == k.n = 1 \/ (fits /\ Wide(j.s, i) = k.n)
    IN IF ~valid \/ k.do = "wrong"
       THEN [ok |-> j.inv, n |-> 1, text |-> IF j.esc THEN Hex4(65533) ELSE <<j.s[i]>>]
       ELSE [ok |-> TRUE, n |-> k.n,
             text |-> CASE k.do = "copy" -> c
                        [] k.do = "short" -> <<Backslash, Short[c[1]]>>
                        [] k.do = "hex" -> Escaped(Decoded(c))]
RECURSIVE WriteFrom(_, _)
WriteFrom(j, i) ==
    IF i > Len(j.s) THEN [ok |-> TRUE, text |-> <<Quote>>]
    ELSE LET c == Char(j, i)
             rest == WriteFrom(j, i + c.n)
         IN [ok |-> c.ok /\ rest.ok, text |-> c.text \o rest.text]
write_str(j) == LET r == WriteFrom(j, 1) IN [r EXCEPT !.text = <<Quote>> \o @]

-----------------------------------------------------------------------------
(* The reader.  b is the buffer, src the next byte, dst where it goes to,  *)
(* 0 as long as nothing was unescaped.                                     *)

HexDigit(c) == CASE c \in 48 .. 57 -> c - 48 [] c \in 65 .. 70 -> c - 55 [] c \in 97 .. 102 -> c - 87
                 [] OTHER -> 16
\* The four digits at i as a number, -1 if they are not digits.
read_hex_u16(b, i) ==
    LET d == [k \in 0 .. 3 |-> HexDigit(At(b, i + k))]
    IN IF \E k \in 0 .. 3 : d[k] = 16 THEN -1 ELSE d[0] * 4096 + d[1] * 256 + d[2] * 16 + d[3]
\* The bytes of a code point.
Utf8(u) ==
    CASE u < 128 -> <<u>>
      [] u >= 128 /\ u < 2048 -> <<192 + u \div 64, 128 + (u % 64)>>
      [] u >= 2048 /\ u < 65536 -> <<224 + u \div 4096, 128 + (u \div 64 % 64), 128 + (u % 64)>>
      [] u >= 65536 -> <<240 + u \div 262144, 128 + (u \div 4096 % 64), 128 + (u \div 64 % 64), 128 + (u % 64)>>

Ok(b, end, dst) == [ok |-> TRUE, buf |-> b, end |-> end, len |-> dst - 2, at |-> 0]
Bad(b, at) == [ok |-> FALSE, buf |-> b, end |-> 0, len |-> 0, at |-> at]
Store(b, dst, c) == [i \in DOMAIN b |-> IF i \in dst .. dst + Len(c) - 1 THEN c[i - dst + 1] ELSE b[i]]

RECURSIVE ReadFrom(_, _, _, _)
\* n bytes pass as they are.
Pass(b, inv, src, dst, n) ==
    IF dst = 0 THEN ReadFrom(b, inv, src + n, 0)
    ELSE ReadFrom(Store(b, dst, SubSeq(b, src, src + n - 1)), inv, src + n, dst + n)
\* The escape at src; errors are found at the backslash.
Escape(b, inv, src, dst) ==
    LET c == At(b, src + 1)
        hi == read_hex_u16(b, src + 2)
        lo == read_hex_u16(b, src + 8)
        into(u, n) == ReadFrom(Store(b, dst, Utf8(u)), inv, src + n, dst + Len(Utf8(u)))
    IN IF c # Letter_u
       THEN IF \E k \in DOMAIN Short : Short[k] = c
            THEN into(CHOOSE k \in DOMAIN Short : Short[k] = c, 2) ELSE Bad(b, src)
       ELSE IF hi = -1 THEN Bad(b, src)
       ELSE IF hi \div 2048 # 27 THEN into(hi, 6)                       \* not D800..DFFF
       ELSE IF hi \div 1024 # 54 \/ At(b, src + 6) # Backslash \/ At(b, src + 7) # Letter_u
               \/ lo = -1 \/ lo \div 1024 # 55
       THEN Bad(b, src)
       ELSE into((hi - 55296) * 1024 + lo - 56320 + 65536, 12)
ReadFrom(b, inv, src, dst) ==
    LET c == At(b, src)
        to == IF dst = 0 THEN src ELSE dst
    IN IF c = Quote THEN Ok(Store(b, to, <<0>>), src + 1, to)
       ELSE IF c >= 128
       THEN IF Wide(b, src) > 0 THEN Pass(b, inv, src, dst, Wide(b, src))
            ELSE IF inv THEN Pass(b, inv, src, dst, 1) ELSE Bad(b, src)
       ELSE IF c = Backslash THEN Escape(b, inv, src, to)
       ELSE IF c < 32
       THEN IF ~inv \/ src > Len(b) THEN Bad(b, src) ELSE Pass(b, inv, src, to, 1)
       ELSE Pass(b, inv, src, dst, 1)
\* b[1] is the opening quote.
read_str(b, inv) == ReadFrom(b, inv, 2, 0)

\* The string ends inside what is wrong with it, at byte i.
TruncatedEscape(s) ==
    LET hi == read_hex_u16(s, 3)
        hex(i) == HexDigit(s[i]) # 16
    IN CASE Len(s) = 1 -> TRUE
         [] Len(s) \in 2 .. 5 -> s[2] = Letter_u /\ \A i \in 3 .. Len(s) : hex(i)
         [] Len(s) \in 6 .. 11 ->
              /\ s[2] = Letter_u /\ hi # -1 /\ hi \div 2048 = 27
              /\ Len(s) > 6 => s[7] = Backslash
              /\ Len(s) > 7 => s[8] = Letter_u
              /\ Len(s) > 8 => s[9] \in {68, 100}
              /\ Len(s) > 9 => s[10] \in 67 .. 70 \cup 99 .. 102
              /\ Len(s) > 10 => hex(11)
         [] OTHER -> FALSE
TruncatedChar(s) ==
    LET a == s[1]
        two(b) == a \div 8 = 30 /\ Cont(b) /\ (a % 8) * 4 + (b \div 16 % 4) \in 1 .. 16
    IN CASE Len(s) = 1 -> \/ a \div 32 = 6 /\ a % 32 > 1
                          \/ a \div 16 = 14
                          \/ a \div 8 = 30 /\ a % 8 <= 4
         [] Len(s) = 2 -> \/ a \div 16 = 14 /\ Cont(s[2])
                             /\ (a % 16) * 2 + (s[2] \div 32 % 2) \in 1 .. 31 \ {27}
                          \/ two(s[2])
         [] Len(s) = 3 -> two(s[2]) /\ Cont(s[3])
         [] OTHER -> FALSE
is_truncated(b, i) ==
    LET s == SubSeq(b, i, Len(b))
    IN i > Len(b) \/ (b[i] = Backslash /\ TruncatedEscape(s)) \/ (b[i] >= 128 /\ TruncatedChar(s))

-----------------------------------------------------------------------------

Init == job \in Jobs /\ ret = None
Write == job.op = "write" /\ ret = None /\ ret' = write_str(job) /\ UNCHANGED job
Read == job.op = "read" /\ ret = None /\ ret' = read_str(job.s, job.inv) /\ UNCHANGED job
Next == Write \/ Read

-----------------------------------------------------------------------------
(* Properties.  A string means a sequence of code points.                  *)

Legal(u) == u \in 0 .. 1114111 /\ u \notin 55296 .. 57343
\* s is the UTF-8 of legal code points.
RECURSIVE Well(_)
Well(s) ==
    s = <<>> \/ \E n \in 1 .. (IF Len(s) < 4 THEN Len(s) ELSE 4) :
                   /\ SubSeq(s, 1, n) = Utf8(Decoded(SubSeq(s, 1, n)))
                   /\ Legal(Decoded(SubSeq(s, 1, n))) /\ Well(SubSeq(s, n + 1, Len(s)))

\* Written with any flags, a string of legal characters is read back as it was;
\* another one is refused, or, where that is allowed, comes back with the bytes
\* that were wrong, or with U+FFFD for each of them, and then it is legal.  The
\* text is plain ASCII when characters are escaped, and never larger than the
\* room that the writer asks for.
WrittenIsRead ==
    job.op = "write" /\ ret # None =>
        LET back == read_str(ret.text, ~Well(job.s))
            bytes == SubSeq(back.buf, 2, back.len + 1)
        IN /\ ret.ok <=> Well(job.s) \/ job.inv
           /\ ret.ok => /\ back.ok /\ back.end = Len(ret.text) + 1
                        /\ Well(job.s) \/ ~job.esc => bytes = job.s
                        /\ job.esc => Well(bytes) /\ \A i \in DOMAIN ret.text : ret.text[i] < 128
                        /\ Len(ret.text) <= 6 * Len(job.s) + 2

\* What the inside of a string denotes: the bytes, or none if it is wrong; from
\* the code units that its escapes stand for, two of which may be one character.
RECURSIVE Denoted(_)
Denoted(s) ==
    LET then(u, n) == {Utf8(u) \o r : r \in Denoted(SubSeq(s, n + 1, Len(s)))}
        unit(i) == IF At(s, i) = Backslash /\ At(s, i + 1) = Letter_u THEN read_hex_u16(s, i + 2) ELSE -1
        plain == {n \in 1 .. 4 : n <= Len(s) /\ Well(SubSeq(s, 1, n)) /\ SubSeq(s, 1, n) = Utf8(Decoded(SubSeq(s, 1, n)))}
    IN IF s = <<>> THEN {<<>>}
       ELSE IF s[1] = Backslash
       THEN IF Legal(unit(1)) THEN then(unit(1), 6)
            ELSE IF unit(1) \in 55296 .. 56319 /\ unit(7) \in 56320 .. 57343
            THEN then((unit(1) % 1024) * 1024 + (unit(7) % 1024) + 65536, 12)
            ELSE UNION {then(k, 2) : k \in {k \in DOMAIN Short : Short[k] = At(s, 2)}}
       ELSE IF s[1] < 32 \/ s[1] = Quote THEN {}
       ELSE UNION {then(Decoded(SubSeq(s, 1, n)), n) : n \in plain}
Closed == {i \in 2 .. Len(job.s) : job.s[i] = Quote}

\* Reading in place gives what the text denotes, up to the quote that ends it and
\* with a terminator behind it, and leaves what follows that quote alone.
ReadsDenoted ==
    job.op = "read" /\ ~job.inv /\ ret # None =>
        /\ ret.ok => /\ Denoted(SubSeq(job.s, 2, ret.end - 2)) = {SubSeq(ret.buf, 2, ret.len + 1)}
                     /\ ret.buf[ret.len + 2] = 0
                     /\ \A i \in ret.end .. Len(job.s) : ret.buf[i] = job.s[i]
        /\ ~ret.ok => \A i \in Closed : Denoted(SubSeq(job.s, 2, i - 1)) = {}

\* Endings: one of these behind a string that ended too early makes it whole.
Rests == LET digits == {<<>>, <<48>>, <<48, 48>>, <<48, 48, 48>>, <<48, 48, 48, 48>>}
             low == {<<Backslash, Letter_u, 68, 67>>, <<Letter_u, 68, 67>>, <<68, 67>>, <<67>>, <<>>}
             conts == {<<>>, <<128>>, <<191>>} \cup {<<x, y>> : x, y \in {128, 144, 160, 191}}
                      \cup {<<x, 128, 128>> : x \in {128, 144, 191}}
         IN conts \cup digits \cup {<<Letter_u>> \o <<48, 48, 48, 48>>, <<Backslash>>}
            \cup {d \o l \o e : d \in digits, l \in low, e \in digits}
Whole(s) == \E r \in Rests : read_str(Append(s \o r, Quote), FALSE).ok
Unended == job.op = "read" /\ ~job.inv /\ ret # None /\ ret.ok = FALSE

\* A low surrogate that is nobody's second half, and may be taken for a high one.
LowAlone ==
    LET s == SubSeq(job.s, ret.at, Len(job.s))
        hex == {x \in 0 .. 255 : HexDigit(x) # 16}
        low == <<{Backslash}, {Letter_u}, {68, 100}, (67 .. 70) \cup (99 .. 102), hex, hex>>
    IN Len(s) \in 4 .. 11 /\ \A i \in DOMAIN s : s[i] \in (low \o low)[i]
\* A string is said to be truncated exactly when it only ended too early, or at a low
\* surrogate that no high one precedes.
CutIsTruncated == Unended => (is_truncated(job.s, ret.at) <=> Whole(job.s) \/ LowAlone)
\* "Returns true if the input is valid but truncated." (yyjson.c:4075)
TruncatedGoesOn == Unended => (is_truncated(job.s, ret.at) => Whole(job.s))
=============================================================================
