---------------------------- MODULE MCYYScalars -----------------------------
(* Strings and numbers for the runs of YYString and YYNumber.               *)
EXTENDS SequencesExt, Integers

(* Every string of up to three bytes, and of four behind F0, F4 and F7, over *)
(* the bytes at which the rules of UTF-8 change; and texts made of escapes   *)
(* and such bytes, whole and cut.                                            *)
Bytes == {10, 1, 34, 47, 92, 127, 128, 143, 144, 159, 160, 191, 193, 194, 224, 237, 239, 240, 244, 245}
Few == {97, 128, 143, 144, 191, 237}
Strings == {<<>>} \cup {<<a>> : a \in Bytes} \cup {<<a, b>> : a, b \in Bytes}
           \cup {<<a, b, c>> : a \in {194, 224, 237, 239, 244, 1}, b, c \in Bytes}
           \cup {<<a, b, c, d>> : a \in {240, 244, 247}, b, c, d \in Few}
           \cup {<<97, a, b, 128, 128>> : a \in {240, 244}, b \in Few}

\* \u followed by 0041, 00e9, 20AC, D83D, dE00, DC4, and short escapes.
Hex(d) == <<92, 117>> \o d
Atoms == {<<97>>, <<92, 110>>, <<92, 120>>, <<195, 169>>, <<237, 160, 128>>, <<240, 144, 128, 128>>, <<10>>, <<34>>,
          Hex(<<48, 48, 52, 49>>), Hex(<<48, 48, 101, 57>>), Hex(<<50, 48, 65, 67>>),
          Hex(<<68, 56, 51, 68>>), Hex(<<100, 69, 48, 48>>), Hex(<<68, 67, 52>>)}
Insides == Atoms \cup {a \o b : a, b \in Atoms} \cup {<<97>> \o a \o b \o <<97>> : a, b \in Atoms}
Cuts == UNION {{SubSeq(s, 1, n) : n \in 0 .. Len(s)} : s \in Insides}
Quoted == {<<34>> \o s : s \in Cuts} \cup {<<34>> \o s \o <<34, 97>> : s \in Insides}

StringJobs == [op : {"write"}, s : Strings, esc : BOOLEAN, slash : BOOLEAN, inv : BOOLEAN]
              \cup [op : {"read"}, s : Quoted, inv : BOOLEAN]

-----------------------------------------------------------------------------
(* Every float, written with each precision; the integers around the limits; *)
(* and texts: small decimals with every exponent, the middle between two     *)
(* floats to its last digit, a digit more or less, and with a tail that is   *)
(* longer than the reader looks at, with the point at different places.      *)
Edges == {0, 1, 9, 10, 99, 100, 1000, 8191, 8192, 8193, 9999, 10000, 16382, 16383}
Writes == [op : {"write"}, t : {"real"}, w : 0 .. 1439, prec : 0 .. 3]
          \cup [op : {"write"}, t : {"real"}, w : {8192, 8193, 8192 + 700, 9631}, prec : {0, 2}]
          \cup [op : {"write"}, t : {"uint", "sint"}, w : Edges, prec : {0}]

Num(n) == LET len == CHOOSE l \in 1 .. 9 : n < 10 ^ l /\ (l = 1 \/ n >= 10 ^ (l - 1))
          IN [i \in 1 .. len |-> (n \div 10 ^ (len - i)) % 10]
Plain == [neg |-> FALSE, dig |-> <<>>]
Expo(e) == [neg |-> e < 0, dig |-> Num(IF e < 0 THEN -e ELSE e)]
\* ds * 10^e with the point behind p of the digits, or none.
Put(ds, e, p, neg) ==
    [neg |-> neg, int |-> SubSeq(ds, 1, p), frac |-> SubSeq(ds, p + 1, Len(ds)),
     exp |-> LET k == e + Len(ds) - p IN IF k = 0 THEN Plain ELSE Expo(k)]
Small == {Put(Num(n), e, Len(Num(n)), FALSE) : n \in {1, 2, 5, 7, 49, 64, 99, 149, 638, 999}, e \in -16 .. 9}
         \cup {[neg |-> FALSE, int |-> <<0>>, frac |-> [i \in 1 .. z |-> 0] \o Num(n), exp |-> Plain]
                  : z \in {0, 1, 5}, n \in {0, 3, 149, 65535, 655359}}
         \cup {[neg |-> n, int |-> Num(i), frac |-> <<>>, exp |-> [neg |-> g, dig |-> d]]
                  : n, g \in BOOLEAN, i \in {0, 7}, d \in {<<0>>, <<0, 0, 0, 0, 1>>, <<9, 9, 9>>, <<1, 0, 0, 0>>}}
Integers == {[neg |-> n, int |-> Num(i), frac |-> <<>>, exp |-> Plain] : n \in BOOLEAN,
             i \in Edges \cup {16384, 16385, 20000, 32767, 65535, 99999, 100000, 4128767, 4128768, 4194304, 99999999}}

\* The digits of (2 m + 1) * 2^b, the middle above a float, and their exponent.
Middle(raw) ==
    LET e == raw \div 32
        m == 2 * (IF e = 0 THEN raw % 32 ELSE (raw % 32) + 32) + 1
        b == (IF e = 0 THEN 1 ELSE e) - 28
        k == IF b < 0 THEN 5 ELSE 2
        times(d, n) == LET c[i \in 0 .. Len(d)] == IF i = 0 THEN 0 ELSE (d[i] * n + c[i - 1]) \div 10
                       IN [i \in DOMAIN d |-> (d[i] * n + c[i - 1]) % 10]
                          \o (IF c[Len(d)] = 0 THEN <<>> ELSE Reverse(Num(c[Len(d)])))
    IN [ds |-> Reverse(FoldLeft(LAMBDA d, i : times(d, k), Reverse(Num(m)),
                                [i \in 1 .. IF b < 0 THEN -b ELSE b |-> i])),
        e |-> IF b < 0 THEN b ELSE 0]
Tail_(m, tail) == [ds |-> m.ds \o tail, e |-> m.e - Len(tail)]
Less(m) == [m EXCEPT !.ds[Len(m.ds)] = @ - 1]                \* the last one is not 0
Nines == [i \in 1 .. 24 |-> 9]
Far == [i \in 1 .. 24 |-> 0] \o <<1>>
Places(m) == {1, 22, Len(m.ds)} \cap 1 .. Len(m.ds)
Around(raw) == LET m == Middle(raw)
               IN {m, Tail_(m, <<1>>)} \cup (IF Last(m.ds) > 0 THEN {Less(m)} ELSE {})
Long(raw) == LET m == Middle(raw)
             IN {Tail_(m, Far), Tail_(m, <<0, 0>>)} \cup (IF Last(m.ds) > 0 THEN {Tail_(Less(m), Nines)} ELSE {})
Middles == UNION {UNION {{Put(m.ds, m.e, p, FALSE) : p \in Places(m)} : m \in Around(raw)} : raw \in 0 .. 1439}
Longs == UNION {UNION {{Put(m.ds, m.e, p, FALSE) : p \in Places(m)} : m \in Long(raw)}
                : raw \in {r \in 0 .. 1439 : r % 8 \in {0, 5, 7}}}
NumberJobs == Writes \cup [op : {"read"}, text : Small \cup Integers, big : BOOLEAN, inf : BOOLEAN]
              \cup [op : {"read"}, text : Middles \cup Longs, big : {FALSE}, inf : {TRUE}]
=============================================================================
