------------------------------ MODULE MCYYDocs ------------------------------
(* Texts for the run of YYReader, and documents for that of YYWriter.       *)
EXTENDS JsonTree, SequencesExt, Integers

(* Documents that use every part of the grammar, their prefixes, and what   *)
(* one wrong symbol makes of them.                                          *)
Wrong == {"]", "}", ",", ":", "Q", "B", "1", "i", "/", "."}
Pairs_ == <<"{", "Q", "a", "Q", ":", "1", ",", "Q", "Q", ":", "[", "]", "}">>
Strings_ == <<"[", "Q", "B", "n", "a", "B", "Q", "EF", "BB", "Q", " ", "]">>
Nested == <<"[", "[", "1", ",", "[", "]", "]", ",", "{", "}", "]">>
Numbers == <<"[", "-", "1", ".", "0", "e", "-", "1", ",", "0", "]">>
Literals == <<"[", "t", "rue", ",", "n", "ull", "]", " ">>
Comments == <<"/", "*", "*", "/", "[", "/", "/", "NL", "1", " ", "]">>
Infinite == <<"[", "i", "nf", ",", "-", "i", "nf", "i", "ty", ",", "n", "an", "]">>
Marked == <<"EF", "BB", "Q", "a", "Q", "/", "*", "*", "/">>
Raws == <<"[", "1", ".", "0", ",", "-", "i", "nf", ",", "1", "]">>
Long == <<"{", "Q", "Q", ":", "{", "Q", "Q", ":", "1", "}", ",", "Q", "Q", ":", "1", "}">>
Root_ == <<"1", "1", " ">>
RootInf == <<"-", "i", "nf", "i", "ty">>

Sources == { [s |-> Pairs_, flg |-> {}], [s |-> Strings_, flg |-> {}], [s |-> Strings_, flg |-> {"INV"}],
          [s |-> Nested, flg |-> {}], [s |-> Numbers, flg |-> {}], [s |-> Numbers, flg |-> {"RAW"}],
          [s |-> Literals, flg |-> {"DONE", "INF"}], [s |-> Comments, flg |-> {"COMMENTS", "COMMAS"}],
          [s |-> Infinite, flg |-> {"INF"}], [s |-> Marked, flg |-> {"BOM", "COMMENTS"}],
          [s |-> Raws, flg |-> {"RAW", "INF"}], [s |-> Long, flg |-> {"COMMAS"}],
          [s |-> Root_, flg |-> {"COMMENTS"}], [s |-> RootInf, flg |-> {"INF", "RAW"}] }

Edits(s) ==
    {SubSeq(s, 1, i) : i \in 1 .. Len(s)}
    \cup {RemoveAt(s, i) : i \in 1 .. Len(s)}
    \cup {ReplaceAt(s, i, c) : i \in 1 .. Len(s), c \in Wrong}
    \cup {InsertAt(s, i, c) : i \in 1 .. Len(s), c \in Wrong}
Texts == UNION {{[s |-> s, flg |-> d.flg, of |-> d.s] : s \in Edits(d.s)} : d \in Sources}

-----------------------------------------------------------------------------
(* Values that use every part of the writer, and nested ones around a run   *)
(* of characters that ends near the end of the buffer.                      *)
One == Num("raw", <<"1">>)
Inf == Num("inf", <<"i", "nf", "i", "ty">>)
Raw(s) == [t |-> "raw", s |-> s]
Bad == [t |-> "none"]
Values_ == {Null, One, Inf, Bad, Str(<<"a", "/">>), Str(<<"Q", "NL", "CTL", "B">>), Str(<<"EF", "BB">>),
            Str(<<"BB">>), Str(<<"/", "BB", "NL">>), Raw(<<"1">>), Raw(<<>>), Arr(<<>>), Obj(<<>>), [t |-> "true"]}
Mixed == {Arr(<<x, One>>) : x \in Values_ \ {Raw(<<>>)}}
         \cup {Obj(<<Pair(<<"a">>, x), Pair(<<"Q">>, Null)>>) : x \in Values_ \ {Raw(<<>>)}}
         \cup {Arr(<<Obj(<<Pair(<<"a">>, Str(<<"a">>)), Pair(<<"NL">>, Arr(<<One, Arr(<<One>>)>>)),
                           Pair(<<>>, Obj(<<Pair(<<"a">>, Arr(<<>>))>>))>>), Null>>)}

RECURSIVE Nest(_, _)
Nest(n, x) == IF n = 0 THEN x ELSE IF n % 2 = 1 THEN Arr(<<Nest(n - 1, x)>>)
              ELSE Obj(<<Pair(<<>>, Nest(n - 1, x))>>)
Wide == {Raw(<<"Q", "L", "Q">>), Str(<<"L">>)}

Widths == {8, 9, 24, 25, 26, 41, 42, 43, 58, 59, 60, 98, 99}
Flags == {{}, {"PRETTY"}, {"TWO", "NEWLINE"}, {"NEWLINE", "SLASHES"}, {"INF", "INV", "SLASHES"},
          {"INFNULL", "PRETTY"}}
Docs == {[x |-> x, flg |-> f, wide |-> 3] : x \in Values_ \cup Mixed, f \in Flags}
        \cup {[x |-> Nest(n, x), flg |-> f, wide |-> w] :
                 n \in 1 .. 5, x \in Wide, f \in {{}, {"NEWLINE"}, {"PRETTY"}, {"TWO", "NEWLINE"}}, w \in Widths}
        \cup {[x |-> Nest(n, Arr(<<Raw(<<"Q", "L", "Q">>), x>>)), flg |-> f, wide |-> w] :
                 n \in 0 .. 2, x \in {Null, One}, f \in {{}, {"PRETTY"}}, w \in Widths}
=============================================================================
