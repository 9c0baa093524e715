------------------------------ MODULE JsonText ------------------------------
(***************************************************************************)
(* What a JSON text means: its tokens, and the value they denote.          *)
(*                                                                         *)
(* A text is a sequence of symbols.  Longer tokens are cut where it        *)
(* matters: "t" "rue", "n" "ull", "n" "an", "i" "nf" "i" "ty" are true,    *)
(* null, nan and infinity, "EF" "BB" a character of two parts, which at    *)
(* the head of the text is a BOM, "Q" a quote, "B" a backslash.            *)
(***************************************************************************)
EXTENDS JsonTree

Spaces == {" ", "NL"}
Digits == {"0", "1"}
Infinity == <<"i", "nf", "i", "ty">>
Escapes == [c \in {"n", "t", "u1", "Q", "B", "/"} |->
               CASE c = "n" -> "NL" [] c = "t" -> "TAB" [] c = "u1" -> "CTL" [] OTHER -> c]

RECURSIVE Skip(_, _)
Skip(s, flg) ==
    LET ends == {i \in 4 .. Len(s) : s[i - 1] = "*" /\ s[i] = "/"}
        lines == {i \in 3 .. Len(s) : s[i] = "NL"} \cup {Len(s)}
        Least(S) == CHOOSE i \in S : \A j \in S : i <= j
    IN IF s = <<>> THEN s
       ELSE IF s[1] \in Spaces THEN Skip(Tail(s), flg)
       ELSE IF "COMMENTS" \in flg /\ IsPrefix(<<"/", "*">>, s) /\ ends # {}
       THEN Skip(SubSeq(s, Least(ends) + 1, Len(s)), flg)
       ELSE IF "COMMENTS" \in flg /\ IsPrefix(<<"/", "/">>, s)
       THEN Skip(SubSeq(s, Least(lines) + 1, Len(s)), flg) ELSE s

AllDigits(s) == \A i \in DOMAIN s : s[i] \in Digits
IsInt(s) == s # <<>> /\ AllDigits(s) /\ (s[1] = "0" => Len(s) = 1)
IsUInt(s) == s # <<>> /\ AllDigits(s)
Cuts(s) == {<<i, j>> \in (0 .. Len(s)) \X (0 .. Len(s)) : i <= j}
IsNumber(s, flg) ==
    LET t == IF s[1] = "-" THEN Tail(s) ELSE s
    IN \/ "INF" \in flg /\ t \in {<<"i", "nf">>, <<"i", "nf", "i", "ty">>, <<"n", "an">>}
       \/ \E c \in Cuts(t) :
            LET frac == SubSeq(t, c[1] + 1, c[2])
                exp == SubSeq(t, c[2] + 1, Len(t))
            IN /\ IsInt(SubSeq(t, 1, c[1]))
               /\ frac # <<>> => frac[1] = "." /\ IsUInt(Tail(frac))
               /\ exp # <<>> => /\ exp[1] = "e"
                                /\ \/ IsUInt(Tail(exp))
                                   \/ Len(exp) > 1 /\ exp[2] \in {"+", "-"} /\ IsUInt(SubSeq(exp, 3, Len(exp)))

\* What the inside of a string denotes: the set of it, or none.
RECURSIVE Unescaped(_, _)
Unescaped(s, flg) ==
    LET Then_(t, n) == {<<t>> \o u : u \in Unescaped(SubSeq(s, n + 1, Len(s)), flg)}
    IN IF s = <<>> THEN {<<>>}
       ELSE CASE s[1] = "Q" -> {}
              [] s[1] = "B" -> IF Len(s) > 1 /\ s[2] \in DOMAIN Escapes
                               THEN Then_(Escapes[s[2]], 2) ELSE {}
              [] s[1] = "EF" /\ Len(s) > 1 /\ s[2] = "BB" ->
                    {<<"EF">> \o u : u \in Then_("BB", 2)}
              [] s[1] \in {"EF", "BB", "NL"} -> IF "INV" \in flg THEN Then_(s[1], 1) ELSE {}
              [] OTHER -> Then_(s[1], 1)

Marks == {"[", "]", "{", "}", ",", ":"}
Mark(c) == [k |-> c]
\* The tokens that s, as a whole, can be.
TokenOf(s, flg) ==
    IF Len(s) = 1 /\ s[1] \in Marks THEN {Mark(s[1])}
    ELSE IF s = <<"t", "rue">> THEN {[k |-> "v", v |-> [t |-> "true"]]}
    ELSE IF s = <<"n", "ull">> THEN {[k |-> "v", v |-> Null]}
    ELSE IF Len(s) > 1 /\ s[1] = "Q" /\ s[Len(s)] = "Q"
    THEN {[k |-> "v", v |-> Str(u)] : u \in Unescaped(SubSeq(s, 2, Len(s) - 1), flg)}
    ELSE IF IsNumber(s, flg) THEN {[k |-> "v", v |-> Num("raw", s)]} ELSE {}

\* The longest token each time; the result is a set of at most one sequence.
RECURSIVE Tokens(_, _)
Tokens(s, flg) ==
    LET r == Skip(s, flg)
        ns == {n \in 1 .. Len(r) : TokenOf(SubSeq(r, 1, n), flg) # {}}
        n == CHOOSE i \in ns : \A j \in ns : j <= i
    IN IF r = <<>> THEN {<<>>}
       ELSE IF ns = {} THEN {}
       ELSE {<<t>> \o u : t \in TokenOf(SubSeq(r, 1, n), flg),
                          u \in Tokens(SubSeq(r, n + 1, Len(r)), flg)}

RECURSIVE Denoted(_, _), Items(_, _, _)
Denoted(tk, flg) ==
    LET inner == SubSeq(tk, 2, Len(tk) - 1)
    IN IF tk = <<>> THEN {}
       ELSE IF Len(tk) = 1 THEN IF tk[1].k = "v" THEN {tk[1].v} ELSE {}
       ELSE IF tk[1].k = "[" /\ tk[Len(tk)].k = "]" THEN {Arr(e) : e \in Items(inner, flg, "arr")}
       ELSE IF tk[1].k = "{" /\ tk[Len(tk)].k = "}" THEN {Obj(e) : e \in Items(inner, flg, "obj")}
       ELSE {}
Items(tk, flg, type) ==
    LET item(t) == IF type = "arr" THEN Denoted(t, flg)
                   ELSE IF Len(t) > 2 /\ t[1].k = "v" /\ t[2].k = ":"
                   THEN IF t[1].v.t = "str"
                        THEN {Pair(t[1].v.s, v) : v \in Denoted(SubSeq(t, 3, Len(t)), flg)} ELSE {}
                   ELSE {}
        rest(i) == IF i > Len(tk) THEN {<<>>}
                   ELSE IF i = Len(tk) THEN IF "COMMAS" \in flg THEN {<<>>} ELSE {}
                   ELSE Items(SubSeq(tk, i + 1, Len(tk)), flg, type)
        cuts == {i \in 2 .. Len(tk) : tk[i].k = ","} \cup {Len(tk) + 1}
    IN IF tk = <<>> THEN {<<>>}
       ELSE UNION {{<<x>> \o r : x \in item(SubSeq(tk, 1, i - 1)), r \in rest(i)} : i \in cuts}

\* The values a text denotes: at most one.
Meaning(s, flg) ==
    LET t == IF "BOM" \in flg /\ IsPrefix(<<"EF", "BB">>, s) THEN SubSeq(s, 3, Len(s)) ELSE s
    IN UNION {Denoted(tk, flg) : tk \in Tokens(t, flg)}
=============================================================================
