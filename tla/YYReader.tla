------------------------------ MODULE YYReader ------------------------------
(***************************************************************************)
(* The JSON reader of yyjson: yyjson_read_opts, which reads a whole text,  *)
(* and yyjson_incr_read, which is called with more and more of it and goes *)
(* on from where it stopped.  Both are the same automaton of labels; what  *)
(* they read goes into one growing array of cells and, for strings and raw *)
(* numbers, stays in the buffer.                                           *)
(***************************************************************************)
EXTENDS JsonText

CONSTANTS Texts,    \* the texts to read, each with its flags: [s, flg]
          MaxGrow,  \* bound: how often the array of cells may grow
          None

VARIABLES in,       \* the text and its flags
          inc,      \* the state of the incremental reader, None without one
          ret       \* the result of the last call, None before one

vars == <<in, inc, ret>>

has(s, f) == f \in s.flg
\* The byte at i; the input ends with a terminator.
At(s, i) == IF i <= s.end /\ i > 0 THEN s.buf[i] ELSE "NUL"

-----------------------------------------------------------------------------
(* Reading one token.  s is the state of the reader: its buffer, the end   *)
(* of what it may read, and cur, the next symbol.                          *)

RECURSIVE SkipSpaces(_, _), SkipLine(_, _), CloseComment(_, _)
SkipSpaces(s, i) == IF At(s, i) \in Spaces THEN SkipSpaces(s, i + 1) ELSE i
SkipLine(s, i) == IF At(s, i) \in {"NL", "NUL"} THEN i ELSE SkipLine(s, i + 1)
\* The place behind */, or 0.
CloseComment(s, i) ==
    IF At(s, i) = "NUL" THEN 0
    ELSE IF At(s, i) = "*" /\ At(s, i + 1) = "/" THEN i + 2 ELSE CloseComment(s, i + 1)

RECURSIVE SkipAll(_, _, _)
SkipAll(s, hdr, i) ==
    IF At(s, i) = "/" /\ At(s, i + 1) = "*"
    THEN LET e == CloseComment(s, i + 2)
         IN IF e = 0 THEN [ok |-> FALSE, cur |-> i] ELSE SkipAll(s, i, e)
    ELSE IF At(s, i) = "/" /\ At(s, i + 1) = "/" THEN SkipAll(s, hdr, SkipLine(s, i + 2))
    ELSE IF At(s, i) \in Spaces THEN SkipAll(s, hdr, SkipSpaces(s, i))
    ELSE [ok |-> hdr # i, cur |-> i]
skip_spaces_and_comments(s) == SkipAll(s, s.cur, s.cur)

\* The input ends inside the token l.
is_truncated_str(s, i, l) ==
    i <= s.end /\ i + Len(l) - 1 > s.end /\ SubSeq(s.buf, i, s.end) = SubSeq(l, 1, s.end - i + 1)
\* Variant: a string that ends inside a character is an error.
NoPartOfString(s, i, code) ==
    i > s.end \/ (code = "literal" /\ \E l \in {<<"t", "rue">>, <<"n", "ull">>} : is_truncated_str(s, i, l))
is_truncated_end(s, i, code) ==
    \/ i > s.end
    \/ code = "literal" /\ \E l \in {<<"t", "rue">>, <<"n", "ull">>} : is_truncated_str(s, i, l)
    \/ /\ code \in {"char", "number", "literal"} /\ has(s, "INF")
       /\ LET j == IF At(s, i) = "-" THEN i + 1 ELSE i
          IN \E l \in {Infinity, <<"n", "an">>} : is_truncated_str(s, j, l)
    \/ code = "content" /\ has(s, "INF") /\ i > 2 /\ is_truncated_str(s, i - 2, Infinity)
    \/ code = "string" /\ At(s, i) \in {"B", "EF"} /\ i = s.end
    \/ code = "comment" /\ has(s, "COMMENTS")
    \/ code = "char" /\ has(s, "COMMENTS") /\ At(s, i) = "/" /\ i = s.end
    \/ code = "char" /\ has(s, "BOM") /\ i = 1 /\ s.end = 1 /\ At(s, i) = "EF"

\* What return_err does.
Fail(s, i, code) ==
    IF is_truncated_end(s, i, code)
    THEN [s EXCEPT !.at = IF s.incr /\ s.end < Len(s.buf) THEN "more" ELSE "fail", !.code = "end"]
    ELSE [s EXCEPT !.at = "fail", !.code = code]
Halted(s) == s.at \in {"fail", "more", "doc"}
Then(s, F(_)) == IF Halted(s) THEN s ELSE F(s)

\* Cells are counted from 0, the root; HdrLen cells are the document's own.
HdrLen == 4
Put(s, c) == [s EXCEPT !.cells = SubSeq(@, 1, s.val) \o <<c>>,
                       !.over = @ \/ HdrLen + s.val >= s.room]
\* More cells are asked for when fewer than `kept` would be left.  A refusal leaves
\* the length that was asked for in alen, and the room as it was.
Next_val(s, kept) ==
    LET new == [s EXCEPT !.val = @ + 1]
        longer == [new EXCEPT !.alen = @ + @ \div 2]
    IN IF HdrLen + new.val < s.room - kept THEN new
       ELSE IF s.grow = 0 THEN Fail([longer EXCEPT !.refused = TRUE], s.cur, "alloc")
       ELSE [longer EXCEPT !.grow = @ - 1, !.room = longer.alen]
\* Variant: no room is kept for the value behind a key.
NoPadding(s) == Next_val(s, 0)
val_incr(s) == Next_val(s, 2)

\* The raw number before gets its terminator.
EndRaw(s) == IF s.pre = 0 \/ s.pre > Len(s.buf) THEN s ELSE [s EXCEPT !.buf[s.pre] = "NUL"]
Number(s, i) ==
    IF has(s, "RAW")
    THEN [Put(EndRaw(s), [t |-> "raw", at |-> s.cur, len |-> i - s.cur])
             EXCEPT !.pre = i, !.cur = i]
    ELSE [Put(s, Num("raw", SubSeq(s.buf, s.cur, i - 1))) EXCEPT !.cur = i]
read_inf_or_nan(s, i) ==
    CASE At(s, i) = "i" /\ At(s, i + 1) = "nf" /\ At(s, i + 2) # "i" -> i + 2
      [] At(s, i) = "i" /\ At(s, i + 1) = "nf" /\ At(s, i + 2) = "i" /\ At(s, i + 3) = "ty" -> i + 4
      [] At(s, i) = "n" /\ At(s, i + 1) = "an" -> i + 2
      [] OTHER -> 0

RECURSIVE SkipDigits(_, _)
SkipDigits(s, i) == IF At(s, i) \in Digits THEN SkipDigits(s, i + 1) ELSE i
\* A digit must be at i; when numbers are read raw the error is found one further.
Missing(s, i) == Fail(s, IF has(s, "RAW") THEN i + 1 ELSE i, "number")
read_num(s) ==
    LET i == IF At(s, s.cur) = "-" THEN s.cur + 1 ELSE s.cur
        int == IF At(s, i) = "0" THEN i + 1 ELSE SkipDigits(s, i)
        frac == IF At(s, int) = "." THEN SkipDigits(s, int + 1) ELSE int
        sign == IF At(s, frac + 1) \in {"+", "-"} THEN frac + 2 ELSE frac + 1
    IN IF At(s, i) \notin Digits
       THEN IF has(s, "INF") /\ read_inf_or_nan(s, i) # 0
            THEN Number(s, read_inf_or_nan(s, i)) ELSE Fail(s, i, "number")
       ELSE IF At(s, i) = "0" /\ At(s, i + 1) \in Digits THEN Fail(s, i, "number")
       ELSE IF At(s, int) = "." /\ frac = int + 1 THEN Missing(s, frac)
       ELSE IF At(s, frac) # "e" THEN Number(s, frac)
       ELSE IF At(s, sign) \notin Digits THEN Missing(s, sign)
       ELSE Number(s, SkipDigits(s, sign))

-----------------------------------------------------------------------------
(* Strings are read in place.  src is the next symbol; dst is where it is  *)
(* copied to, 0 as long as nothing was escaped.                            *)

\* An error leaves where it happened for the next call, if there may be one.
StrFail(s, src, dst) == Fail([s EXCEPT !.con = IF s.incr THEN <<src, dst>> ELSE @], src, "string")
StrEnd(s, src, dst) ==
    LET end == IF dst = 0 THEN src ELSE dst
    IN [Put(s, [t |-> "str", at |-> s.cur + 1, len |-> end - s.cur - 1])
           EXCEPT !.buf[end] = "NUL", !.cur = src + 1, !.con = None]
\* n symbols are passed, and copied when something was escaped.
Moved(s, src, dst, n) ==
    IF dst = 0 THEN s
    ELSE [s EXCEPT !.buf = [i \in DOMAIN @ |-> IF i \in dst .. dst + n - 1 THEN @[i - dst + src]
                                               ELSE @[i]]]
RECURSIVE ReadStr(_, _, _)
ReadStr(s, src, dst) ==
    LET c == At(s, src)
        next(n) == ReadStr(Moved(s, src, dst, n), src + n, IF dst = 0 THEN 0 ELSE dst + n)
        to == IF dst = 0 THEN src ELSE dst
    IN CASE c = "Q" -> StrEnd(s, src, dst)
         [] c = "EF" /\ At(s, src + 1) = "BB" -> next(2)
         [] c = "BB" \/ (c = "EF" /\ At(s, src + 1) # "BB") ->
               IF has(s, "INV") THEN next(1) ELSE StrFail(s, src, dst)
         [] c = "B" ->
               IF At(s, src + 1) \in DOMAIN Escapes
               THEN ReadStr([s EXCEPT !.buf[to] = Escapes[At(s, src + 1)]], src + 2, to + 1)
               ELSE StrFail(s, src, to)
         [] c = "NUL" \/ c = "NL" ->
               IF ~has(s, "INV") \/ src > s.end THEN StrFail(s, src, to)
               ELSE ReadStr(Moved(s, src, to, 1), src + 1, to + 1)
         [] OTHER -> next(1)
\* Variant: a string is read again from its first symbol.
FromStart(s) == ReadStr(s, s.cur + 1, 0)
read_str(s) == IF s.con = None THEN ReadStr(s, s.cur + 1, 0) ELSE ReadStr(s, s.con[1], s.con[2])

\* Any value that is not a container.
Scalars(s) == Digits \cup {"-", "Q", "t", "n"} \cup (IF has(s, "INF") THEN {"i"} ELSE {})
read_scalar(s) ==
    LET c == At(s, s.cur)
        d == At(s, s.cur + 1)
        inf == read_inf_or_nan(s, s.cur)
    IN CASE c \in Digits \cup {"-"} -> read_num(s)
         [] c = "Q" -> read_str(s)
         [] c = "t" -> IF d = "rue" THEN [Put(s, [t |-> "true"]) EXCEPT !.cur = @ + 2]
                       ELSE Fail(s, s.cur, "literal")
         [] c = "n" -> IF d = "ull" THEN [Put(s, Null) EXCEPT !.cur = @ + 2]
                       ELSE IF has(s, "INF") /\ inf # 0 THEN Number(s, inf)
                       ELSE Fail(s, s.cur, "literal")
         [] OTHER -> IF inf # 0 THEN Number(s, inf) ELSE Fail(s, s.cur, "char")

-----------------------------------------------------------------------------
(* The automaton.  An open container's cell keeps the distance to its      *)
(* parent in ofs and, when another one is opened inside it, the number of  *)
(* what it holds so far in len; a closed one leads behind its last cell.   *)

\* Arriving at a label where reading can be resumed.
Enter(s, l) ==
    IF ~s.incr THEN [s EXCEPT !.at = l]
    ELSE LET saved == [s EXCEPT !.at = l, !.saved = [at |-> l, cur |-> s.cur, val |-> s.val,
                                                     clen |-> s.clen]]
         IN IF s.cur > s.end THEN Fail(saved, s.cur, "char") ELSE saved

\* Spaces and comments lead back to the label; anything else is an error.
Otherwise(s, Label(_)) ==
    LET k == skip_spaces_and_comments(s)
    IN IF At(s, s.cur) \in Spaces THEN Label([s EXCEPT !.cur = SkipSpaces(s, @)])
       ELSE IF ~has(s, "COMMENTS") THEN Fail(s, s.cur, "char")
       ELSE IF k.ok THEN Label([s EXCEPT !.cur = k.cur])
       ELSE IF At(s, k.cur) = "/" /\ At(s, k.cur + 1) = "*" THEN Fail(s, k.cur, "comment")
       ELSE Fail(s, k.cur, "char")

Inside(s) == IF s.cells[s.ctn + 1].t = "obj" THEN "obj_val_end" ELSE "arr_val_end"
\* A number at the end of what there is may go on, however long it is: the error of
\* one beyond INCR_NUM_MAX_LEN is raised at the end, where every error is taken for an
\* unexpected end, so that this limit changes nothing.
MaybeEnd(s, l, number) ==
    IF number /\ s.incr /\ s.cur > s.end THEN Fail(s, s.cur, "number") ELSE Enter(s, l)
Begin(s, type) ==                                        \* arr_begin, obj_begin
    LET kept == [s EXCEPT !.cells[s.ctn + 1].len = s.clen + 1, !.cur = @ + 1]
    IN Then(val_incr(kept),
            LAMBDA n : Enter([Put(n, [t |-> type, len |-> 0, ofs |-> n.val - n.ctn])
                                 EXCEPT !.ctn = n.val, !.clen = 0],
                             IF type = "arr" THEN "arr_val_begin" ELSE "obj_key_begin"))
End(s, type) ==                                          \* arr_end, obj_end
    LET parent == s.ctn - s.cells[s.ctn + 1].ofs
        len == IF type = "obj" THEN s.clen \div 2 ELSE s.clen
        closed == [s EXCEPT !.cells[s.ctn + 1] = [t |-> type, len |-> len, ofs |-> s.val - s.ctn + 1],
                            !.ctn = parent, !.clen = s.cells[parent + 1].len]
    IN IF parent = s.ctn THEN [closed EXCEPT !.at = "doc_end"] ELSE Enter(closed, Inside(closed))
Close(s, type) ==
    LET past == [s EXCEPT !.cur = @ + 1]
    IN IF s.clen = 0 \/ has(s, "COMMAS") THEN End(past, type) ELSE Fail(s, s.cur, "structure")

Count1(s) == [s EXCEPT !.clen = @ + 1]
Past(s) == [s EXCEPT !.cur = @ + 1]
AtNumber(s) == At(s, s.cur) \in Digits \cup {"-", "i"}
\* A label is entered again when spaces follow, or only gone back to.
Back(s, n) == Enter(n, s.at)
Again(s, n) == [n EXCEPT !.at = s.at]

\* The labels: what may be at cur, and what follows it.
arr_val_begin(s) ==
    LET c == At(s, s.cur)
    IN IF c = "{" THEN Begin(s, "obj") ELSE IF c = "[" THEN Begin(s, "arr")
       ELSE IF c \in Scalars(s)
       THEN Then(val_incr(s), LAMBDA n : Then(read_scalar(Count1(n)),
                                LAMBDA m : MaybeEnd(m, "arr_val_end", AtNumber(s))))
       ELSE IF c = "]" THEN Close(s, "arr") ELSE Otherwise(s, LAMBDA n : Again(s, n))
arr_val_end(s) ==
    CASE At(s, s.cur) = "," -> Enter(Past(s), "arr_val_begin")
      [] At(s, s.cur) = "]" -> End(Past(s), "arr")
      [] OTHER -> Otherwise(s, LAMBDA n : Back(s, n))
obj_key_begin(s) ==
    CASE At(s, s.cur) = "Q" ->
            Then(val_incr(s), LAMBDA n : Then(read_str(Count1(n)),
                                LAMBDA m : Enter(m, "obj_key_end")))
      [] At(s, s.cur) = "}" -> Close(s, "obj")
      [] OTHER -> Otherwise(s, LAMBDA n : Again(s, n))
obj_key_end(s) ==
    IF At(s, s.cur) = ":" THEN Enter(Past(s), "obj_val_begin")
    ELSE Otherwise(s, LAMBDA n : Back(s, n))
obj_val_begin(s) ==
    LET c == At(s, s.cur)
    IN IF c = "{" THEN Begin(s, "obj") ELSE IF c = "[" THEN Begin(s, "arr")
       ELSE IF c \in Scalars(s)
       THEN Then(read_scalar(Count1([s EXCEPT !.val = @ + 1])),
                 LAMBDA m : MaybeEnd(m, "obj_val_end", AtNumber(s)))
       ELSE Otherwise(s, LAMBDA n : Again(s, n))
obj_val_end(s) ==
    CASE At(s, s.cur) = "," -> Enter(Past(s), "obj_key_begin")
      [] At(s, s.cur) = "}" -> End(Past(s), "obj")
      [] OTHER -> Otherwise(s, LAMBDA n : Back(s, n))
Step(s) ==
    CASE s.at = "arr_val_begin" -> arr_val_begin(s)
      [] s.at = "arr_val_end" -> arr_val_end(s)
      [] s.at = "obj_key_begin" -> obj_key_begin(s)
      [] s.at = "obj_key_end" -> obj_key_end(s)
      [] s.at = "obj_val_begin" -> obj_val_begin(s)
      [] s.at = "obj_val_end" -> obj_val_end(s)

\* What follows the document: spaces, or comments, unless the reader stops there.
DocEnd(s) ==
    LET s2 == IF s.incr THEN [s EXCEPT !.saved = [at |-> "doc_end", cur |-> s.cur, val |-> s.val,
                                                  clen |-> s.clen]] ELSE s
        k == skip_spaces_and_comments(s2)
        end == IF has(s, "COMMENTS") THEN k.cur ELSE SkipSpaces(s2, s.cur)
        done(n) == [EndRaw(n) EXCEPT !.at = "doc"]
    IN IF s.cur > s.end \/ has(s, "DONE") THEN done(s)
       ELSE IF At(s2, end) = "/" /\ At(s2, end + 1) = "*" /\ has(s, "COMMENTS")
       THEN Fail(s2, end, "comment")
       ELSE IF s.incr /\ has(s, "COMMENTS") /\ At(s2, end) = "/" /\ end = s.end
       THEN Fail(s2, s.end + 1, "content")
       ELSE IF end <= s.end THEN Fail(s2, end, "content")
       ELSE done([s2 EXCEPT !.cur = end])

RECURSIVE Run(_)
Run(s) == IF Halted(s) THEN s ELSE IF s.at = "doc_end" THEN DocEnd(s) ELSE Run(Step(s))

\* The root: a container, whose cell begins as its own parent, or a single value.
Root(s) ==
    LET c == At(s, s.cur)
        type == IF c = "{" THEN "obj" ELSE "arr"
        open == [Put(s, [t |-> type, len |-> 0, ofs |-> 0])
                    EXCEPT !.ctn = 0, !.clen = 0, !.cur = @ + 1]
    IN IF c \in {"{", "["} THEN Enter(open, IF c = "{" THEN "obj_key_begin" ELSE "arr_val_begin")
       ELSE IF c \in Scalars(s) \cup (IF has(s, "INF") THEN {"i"} ELSE {})
       THEN Then(read_scalar(s), LAMBDA n : [n EXCEPT !.at = "doc_end"])
       ELSE Fail(s, s.cur, "char")
\* A byte order mark, then spaces and comments.
SkipBom(s) == IF has(s, "BOM") /\ s.cur = 1 /\ At(s, 1) = "EF" /\ At(s, 2) = "BB"
              THEN [s EXCEPT !.cur = 3] ELSE s
Lead(s) == IF has(s, "COMMENTS") THEN skip_spaces_and_comments(s)
           ELSE [ok |-> At(s, s.cur) \in Spaces, cur |-> SkipSpaces(s, s.cur)]

Fresh(t, end, incr, grow) ==
    [buf |-> t.s, flg |-> t.flg, end |-> end, cur |-> 1, at |-> "begin", code |-> "ok",
     val |-> 0, ctn |-> 0, clen |-> 0, cells |-> <<>>, alen |-> 0, room |-> 0, con |-> None, pre |-> 0,
     lost |-> {},
     grow |-> grow, over |-> FALSE, refused |-> FALSE, incr |-> incr,
     saved |-> [at |-> "begin", cur |-> 1, val |-> 0, clen |-> 0]]
\* The cells that are asked for first: an estimate from the length of the text,
\* which is lower for a text that seems to be indented, or one for a single value.
Sized(s) ==
    LET n == IF has(s, "DONE") THEN 256 ELSE IF s.incr THEN Len(s.buf) ELSE s.end - s.cur + 1
        pretty == ~s.incr /\ {At(s, s.cur + 1), At(s, s.cur + 2)} \subseteq Spaces
        len == IF At(s, s.cur) \in {"{", "["} THEN HdrLen + n \div (IF pretty THEN 16 ELSE 6) + 4
               ELSE HdrLen + 1
    IN [s EXCEPT !.alen = len, !.room = len]

\* yyjson_read_opts.
read_opts(t, grow) ==
    LET s == SkipBom(Fresh(t, Len(t.s), FALSE, grow))
        k == Lead(s)
        blank == At(s, s.cur) \in Spaces \cup {"/"}
        begin == [s EXCEPT !.cur = IF blank THEN k.cur ELSE @]
    IN IF t.s = <<>> THEN [s EXCEPT !.at = "fail", !.code = "param"]
       ELSE IF blank /\ ~k.ok /\ has(s, "COMMENTS")
       THEN [s EXCEPT !.at = "fail", !.code = "comment"]
       ELSE IF blank /\ begin.cur > s.end THEN [s EXCEPT !.at = "fail", !.code = "empty"]
       ELSE Run(Root(Sized(begin)))

\* yyjson_incr_read: the state before the call, and how much of the text there is.
\* `lost` collects where the terminators belong that the calls before did not come to.
doc_begin(s) ==
    LET b == SkipBom(s)
        k == Lead(b)
        blank == At(b, b.cur) \in Spaces \cup {"/"}
        begin == [b EXCEPT !.cur = IF blank THEN k.cur ELSE @]
    IN IF blank /\ ((~k.ok /\ has(s, "COMMENTS")) \/ begin.cur > s.end)
       THEN Fail(s, s.end + 1, "char")
       ELSE IF s.alen = 0 THEN Then(Enter(Sized(begin), "begin"), Root) ELSE Root(begin)
\* Where a call that needs more leaves the state for the next one.
Resumed(s) ==
    IF s.at # "more" THEN s
    ELSE [s EXCEPT !.at = s.saved.at, !.cur = s.saved.cur, !.val = s.saved.val,
                   !.clen = s.saved.clen, !.grow = 0]
incr_read(s, len, grow) ==
    LET now == [s EXCEPT !.end = len, !.code = "ok", !.pre = 0, !.grow = grow,
                         !.lost = @ \cup ({s.pre} \ {0})]
    IN Run(IF s.at = "begin" THEN doc_begin(now) ELSE now)

-----------------------------------------------------------------------------
(* The calls: a whole text, or a prefix of it that grows from call to call.*)
(* The allocator may refuse the cells after grow enlargements.             *)

Init == in \in Texts /\ inc = None /\ ret = None

Read ==
    /\ inc = None /\ ret = None
    /\ \E grow \in {0, MaxGrow} : ret' = read_opts(in, grow)
    /\ UNCHANGED <<in, inc>>
IncrNew ==
    /\ inc = None /\ ret = None /\ in.s # <<>>
    /\ inc' = Fresh(in, 0, TRUE, 0) /\ UNCHANGED <<in, ret>>
IncrRead ==
    /\ inc # None /\ inc.at \notin {"doc", "fail"}
    /\ \E len \in {inc.end + 1, inc.end + 2, Len(in.s)} \ (Len(in.s) + 1 .. inc.end + 2), grow \in {0, MaxGrow} :
          \E r \in {incr_read(inc, len, grow)} : ret' = r /\ inc' = Resumed(r)
    /\ UNCHANGED in
\* The document or the state of the reader is freed.
Free == ret # None /\ inc' = None /\ ret' = None /\ UNCHANGED in

Next == Read \/ IncrNew \/ IncrRead \/ Free

-----------------------------------------------------------------------------
(* Properties.                                                             *)

\* The cells with what they point to in the buffer, and the terminators there.
Content(r) ==
    [i \in DOMAIN r.cells |->
       LET c == r.cells[i]
           chars == SubSeq(r.buf, c.at, c.at + c.len - 1)
       IN CASE c.t = "str" -> Str(chars) [] c.t = "raw" -> Num("raw", chars) [] OTHER -> c]
Ended(r, but) ==
    \A i \in DOMAIN r.cells :
        LET c == r.cells[i]
            end == c.at + c.len
        IN c.t \in {"str", "raw"} => \/ end > Len(r.buf)
                                     \/ r.buf[end] = "NUL"
                                     \/ c.t = "raw" /\ end \in but
Terminated(r) == Ended(r, {})
\* What was read is a number alone, and more of it comes behind the end.
NumberIsCut(r) ==
    /\ r.cur > r.end /\ r.end < Len(in.s) /\ Len(r.cells) = 1 /\ r.cells[1].t \in {"raw", "num"}
    /\ in.s[r.end + 1] \in Digits \cup {".", "e", "i", "ty"}
\* The incremental reader also waits for the rest of a comment that only begins.
SameError(r, w) ==
    \/ r.code = w.code
    \/ {r.code, w.code} \subseteq {"end", "empty", "comment"}
    \/ /\ r.code = "end" /\ "COMMENTS" \in in.flg
       /\ in.s[r.end] = "/" \/ (r.cells = <<>> /\ in.s[r.cur] = "/")

\* read_opts accepts exactly the texts of the grammar, and what it leaves in
\* the array is the immutable form of the value they denote, every string and
\* raw number ended by a terminator, although all of it was done in place.
ReadsGrammar ==
    inc = None /\ ret # None =>
        /\ ret.at = "doc" =>
              \E x \in Meaning(SubSeq(in.s, 1, ret.cur - 1), in.flg) :
                  Content(ret) = Flat(x) /\ Terminated(ret)
        /\ ret.at = "doc" => ret.cur > Len(in.s) \/ "DONE" \in in.flg
        /\ ret.at = "fail" /\ ~ret.refused => Meaning(in.s, in.flg) = {}

\* Whatever the calls before were: a document is returned with the value that one
\* read of the whole text gives, except that the text behind it need not have come
\* yet, and except for a number that is the whole document, where an end inside it
\* is not noticed; an error is the error of the whole; where the whole text has come
\* both reads end alike. Every string and raw number has its terminator, but for a
\* raw number that was the last one of a call that asked for more.
IncrIsWhole ==
    inc # None /\ ret # None /\ ~ret.refused =>
        LET all == ret.end = Len(in.s)
            done == in.flg \cup (IF ret.at = "doc" /\ ~all THEN {"DONE"} ELSE {})
        IN \A w \in {read_opts([in EXCEPT !.flg = done], MaxGrow)} :
              /\ ret.at = "doc" => /\ (w.at = "doc" /\ Content(ret) = Content(w)) \/ NumberIsCut(ret)
                                   /\ Ended(ret, ret.lost)
              /\ ret.at = "fail" => w.at = "fail" /\ SameError(ret, w)
              /\ all => ret.at = w.at

\* The prefixes of a text of the grammar are never called wrong: they are read,
\* or the end was not expected, or they are still blank; only a / behind the
\* document is taken for garbage.
PrefixIsUnfinished ==
    inc = None /\ ret # None /\ IsPrefix(in.s, in.of) /\ Meaning(in.of, in.flg) # {} =>
        \/ ret.refused
        \/ ret.at = "doc" \/ ret.code = "end"
        \/ Skip(in.s, in.flg) = <<>>
        \/ in.s[1] \in Spaces \cup {"/"} /\ ret.code = "comment"
        \/ ret.code = "content" /\ "COMMENTS" \in in.flg /\ in.s[Len(in.s)] = "/"

\* What can be added to a text that ends too early: the rest of a token, of a pair, and
\* what closes its containers.
Closers(r) ==
    LET up[n \in 0 .. 4] ==
            IF n = 0 THEN r.ctn
            ELSE IF up[n - 1] = None THEN None
            ELSE IF r.cells[up[n - 1] + 1].ofs = 0 THEN None
            ELSE up[n - 1] - r.cells[up[n - 1] + 1].ofs
        open == SelectSeq([n \in 1 .. 5 |-> up[n - 1]], LAMBDA c : c # None)
    IN IF r.cells = <<>> THEN <<>>
       ELSE IF ~("ofs" \in DOMAIN r.cells[1]) THEN <<>>
       ELSE [i \in DOMAIN open |-> IF r.cells[open[i] + 1].t = "obj" THEN "}" ELSE "]"]
TokenEnds == {<<>>, <<"1">>, <<"rue">>, <<"ull">>, <<"an">>, <<"nf">>, <<"ty">>, <<"Q">>, <<"n", "Q">>,
              <<"BB", "Q">>, <<"*", "/">>, <<"/">>, <<"/", "NL">>, <<"BB">>}
ValueEnds == {<<>>, <<"1">>, <<":", "1">>, <<"Q", "Q", ":", "1">>}
Extensible(r) ==
    \E f \in TokenEnds, v \in ValueEnds :
        Meaning(in.s \o f \o v \o Closers(r), in.flg) # {}
\* "Returns true if the input is valid but truncated." (yyjson.c:4075)
TruncatedIsValid == inc = None /\ ret # None => (ret.code = "end" /\ ~ret.refused => Extensible(ret))
\* It is also said, where infinities are read, of their beginnings in a place where no
\* value may be; and, where numbers are kept raw, of the symbol at the end of the text
\* that stands where a digit is missing.
ReadsUpTo(i) == read_opts([in EXCEPT !.s = SubSeq(@, 1, i)], MaxGrow).code \in {"ok", "end", "empty", "param"}
HalfInfinity ==
    /\ "INF" \in in.flg
    /\ \E i \in DOMAIN in.s, l \in {Infinity, <<"n", "an">>} :
          IsStrictPrefix(SubSeq(in.s, i, Len(in.s)), l) /\ ReadsUpTo(i - 1)
DigitMissing ==
    /\ "RAW" \in in.flg /\ Len(in.s) > 1 /\ in.s[Len(in.s)] \notin Digits
    /\ in.s[Len(in.s) - 1] \in {".", "e", "+", "-"} /\ ReadsUpTo(Len(in.s) - 1)
EndMeansMore == TruncatedIsValid \/ HalfInfinity \/ DigitMissing

\* No cell is written outside what was asked for, although only the first cell
\* of a pair makes sure that there is room.
CellsFit == ret # None => ~ret.over
=============================================================================
