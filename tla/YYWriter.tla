------------------------------ MODULE YYWriter ------------------------------
(***************************************************************************)
(* The JSON writer of yyjson: minified and pretty, for the immutable and   *)
(* for the mutable form of a value.  One buffer holds the text, growing    *)
(* from its head, and the contexts of the open containers, growing from    *)
(* its end towards the text; every value asks for room in between before   *)
(* it is written, and separators are written ahead and taken back.         *)
(*                                                                         *)
(* The text is made of the symbols of JsonText, each with its width in     *)
(* bytes; "L" is a run of plain characters whose width varies.             *)
(***************************************************************************)
EXTENDS JsonText

CONSTANTS Docs,     \* the values to write, each with the flags and the width of "L"
          None,
          MaxGrow   \* bound: how often the buffer may grow

VARIABLES job,      \* what is written: [x, flg, wide]
          form,     \* "imut" or "mut"
          mem,      \* the value in that form
          ret       \* the result, None before

vars == <<job, form, mem, ret>>
T == INSTANCE YYTree WITH tree <- job.x

Flag(f) == f \in job.flg
Pretty == Flag("PRETTY") \/ Flag("TWO")
Cell(i) == IF form = "imut" THEN mem[i] ELSE mem[i].c
Known == {"null", "true", "num", "str", "arr", "obj", "raw"}

Width(c) == CASE c = "L" -> job.wide [] c \in {"rue", "ull"} -> 3 [] c = "u1" -> 5
              [] c \in {"nf", "ty"} -> 3 [] OTHER -> 1
Bytes(s) == FoldSeq(LAMBDA c, n : n + Width(c), 0, s)

-----------------------------------------------------------------------------
(* Scalars.                                                                *)

FP_BUF_LEN == 40
\* The text of one symbol inside a string.
Esc(c) == CASE c = "NL" -> <<"B", "n">> [] c = "TAB" -> <<"B", "t">> [] c = "CTL" -> <<"B", "u1">>
            [] c \in {"Q", "B"} -> <<"B", c>> [] c = "/" /\ Flag("SLASHES") -> <<"B", "/">>
            [] OTHER -> <<c>>
ValidUtf8(s) == \A i \in DOMAIN s :
    /\ s[i] = "EF" => i < Len(s) /\ s[i + 1] = "BB"
    /\ s[i] = "BB" => i > 1 /\ s[i - 1] = "EF"
\* The mark that the reader leaves: there was nothing to unescape.
NoEsc(s) == \A i \in DOMAIN s : s[i] \notin {"NL", "TAB", "CTL", "Q", "B"}
write_str(s) ==
    IF NoEsc(s) /\ ~Flag("SLASHES") THEN <<<<"Q">> \o s \o <<"Q">>>>
    ELSE IF ValidUtf8(s) \/ Flag("INV")
    THEN <<<<"Q">> \o FlattenSeq([i \in DOMAIN s |-> Esc(s[i])]) \o <<"Q">>>> ELSE <<>>
write_num(c) ==
    IF c.sub # "inf" THEN <<c.n>>
    ELSE IF Flag("INFNULL") THEN <<<<"n", "ull">>>> ELSE IF Flag("INF") THEN <<c.n>> ELSE <<>>
\* The text of a value that is not a container with values, <<>> if it has none.
Written(c) ==
    CASE c.t = "null" -> <<<<"n", "ull">>>>
      [] c.t = "true" -> <<<<"t", "rue">>>>
      [] c.t = "raw" -> <<c.s>>
      [] c.t = "str" -> write_str(c.s)
      [] c.t = "num" -> write_num(c)
      [] c.t = "arr" -> <<<<"[", "]">>>>
      [] c.t = "obj" -> <<<<"{", "}">>>>
\* How many bytes are touched by writing it, which may be more than it has.
Touched(c, text) == CASE c.t = "num" -> FP_BUF_LEN [] c.t \in {"null", "true"} -> 8
                      [] OTHER -> Bytes(text)
Failure(c) == CASE c.t = "num" -> "inf" [] c.t = "str" -> "string"

-----------------------------------------------------------------------------
(* The buffer: s.out is the text, s.alc the bytes of the buffer, s.ctx the *)
(* contexts, the innermost first, s.over whether a byte went too far.      *)

CtxSize == IF form = "imut" THEN 8 ELSE 16
AlignUp(n) == ((n + CtxSize - 1) \div CtxSize) * CtxSize
Limit(s) == s.alc - CtxSize * Len(s.ctx)
Fail(s, code) == [s EXCEPT !.code = code]
Put(s, text, touched) ==
    LET By(n) == [s EXCEPT !.out = @ \o text, !.cur = @ + n,
                           !.over = @ \/ s.cur + (IF touched > n THEN touched ELSE n) > Limit(s)]
    IN By(Bytes(text))
Out(s, text) == Put(s, text, 0)
\* The last n symbols, separators of one byte each, are taken back.
TakeBack(s, n) == [s EXCEPT !.out = SubSeq(@, 1, Len(@) - n), !.cur = @ - n]
Grown(s, inc) == IF s.grow = 0 THEN Fail(s, "alloc") ELSE [s EXCEPT !.alc = @ + inc, !.grow = @ - 1]
\* Variant: the room is measured to the end of the buffer.
ToEnd(s, n) == IF s.cur + n < s.alc THEN s
               ELSE Grown(s, AlignUp(IF s.alc \div 2 > n THEN s.alc \div 2 ELSE n))
incr_len(s, n) == IF s.cur + n < Limit(s) THEN s
                  ELSE Grown(s, AlignUp(IF s.alc \div 2 > n THEN s.alc \div 2 ELSE n))
\* What is asked for before a value, without the indentation.
Ask(c) ==
    CASE c.t = "str" -> Bytes(c.s) * 6 + 16
      [] c.t = "num" -> FP_BUF_LEN
      [] c.t = "raw" -> Bytes(c.s) + (IF Pretty THEN 3 ELSE 2)
      [] IsCtn(c) /\ c.len > 0 /\ Pretty -> 32
      [] OTHER -> 16
Indents(n) == [i \in 1 .. n |-> "SP"]
write_indent(s, n) ==
    LET w == IF Flag("TWO") THEN 2 ELSE 4
    IN [s EXCEPT !.out = @ \o Indents(n), !.cur = @ + n * w,
                 !.over = @ \/ (n > 0 /\ s.cur + (n - 1) * w + 4 > Limit(s))]

-----------------------------------------------------------------------------
(* The walk, from label to label of the code: s.at is the next one, s.val  *)
(* the value to write, s.ctn the container it is in, s.obj and s.left      *)
(* whether that is an object, and how many keys and values are left of it. *)

Opener(obj) == IF obj THEN "{" ELSE "["
Closer(obj) == IF obj THEN "}" ELSE "]"
\* The first value or key: the cell behind, or what follows the tail.
FirstOf(i) == IF form = "imut" THEN i + 1
              ELSE IF Cell(i).t = "obj" THEN mem[mem[mem[i].ptr].next].next ELSE mem[mem[i].ptr].next
Into(s, i, obj) ==
    [Out(s, <<Opener(obj)>> \o (IF Pretty THEN <<"NL">> ELSE <<>>)) EXCEPT
        !.ctn = i, !.obj = obj, !.left = T!Count(Cell(i)), !.val = FirstOf(i), !.level = @ + 1]
Ended(s) == [s EXCEPT !.over = @ \/ s.cur + 1 > Limit(s), !.code = "done"]
Newline(s) == IF s.code # "ok" THEN s ELSE Ended(Out(s, <<"NL">>))
doc_end(s) ==
    LET Kept(r) == IF Pretty THEN r ELSE TakeBack(r, 1)
    IN IF Flag("NEWLINE") THEN Newline(Kept(incr_len(s, 2))) ELSE Ended(Kept(s))

is_key(s) == s.obj /\ s.left % 2 = 0
no_indent(s) == s.obj /\ s.left % 2 = 1
Indent(s) == IF Pretty /\ ~no_indent(s) THEN s.level ELSE 0
Separator(s, c) == IF c.t = "str" /\ is_key(s) THEN (IF Pretty THEN <<":", " ">> ELSE <<":">>)
                   ELSE IF Pretty THEN <<",", "NL">> ELSE <<",">>

Enter(s) ==
    Into(write_indent([s EXCEPT !.ctx = <<[left |-> s.left, obj |-> s.obj, ctn |-> s.ctn]>> \o @], Indent(s)),
         s.val, Cell(s.val).t = "obj")
Scalar(s, c, text) ==
    IF text = <<>> THEN Fail(s, Failure(c))
    ELSE [Out(Put(write_indent(s, Indent(s)), text[1], Touched(c, text[1])), Separator(s, c))
             EXCEPT !.at = "val_end"]
Begin(s, c) == IF s.code # "ok" THEN s
               ELSE IF IsCtn(c) /\ c.len > 0 THEN Enter(s) ELSE Scalar(s, c, Written(c))
val_begin(s) == IF Cell(s.val).t \notin Known THEN Fail(s, "type")
                ELSE Begin(incr_len(s, Ask(Cell(s.val)) + 4 * Indent(s)), Cell(s.val))
val_end(s) ==
    [s EXCEPT !.left = @ - 1,
              !.val = IF form = "imut" THEN @ + 1 ELSE IF s.left = 1 THEN @ ELSE mem[@].next,
              !.at = IF s.left = 1 THEN "ctn_end" ELSE "val_begin"]
Pop(s) ==
    LET up == Head(s.ctx)
    IN [s EXCEPT !.ctx = Tail(@), !.left = up.left - 1, !.obj = up.obj, !.ctn = up.ctn, !.level = @ - 1,
                 !.val = IF form = "imut" THEN @ ELSE mem[s.ctn].next,
                 !.at = IF up.left = 1 THEN "ctn_end" ELSE "val_begin"]
Closed(s) == IF s.ctx = <<>> THEN doc_end(IF Pretty THEN s ELSE Out(s, <<",">>))
             ELSE IF Pretty THEN Out(Pop(s), <<",", "NL">>) ELSE Pop(Out(s, <<",">>))
Close(s) == IF s.code # "ok" THEN s
            ELSE Closed(Out(IF Pretty THEN write_indent(s, s.level - 1) ELSE s, <<Closer(s.obj)>>))
ctn_end(s) == Close(IF Pretty THEN incr_len(Out(TakeBack(s, 2), <<"NL">>), s.level * 4) ELSE TakeBack(s, 1))
RECURSIVE Walk(_)
Walk(s) == IF s.code # "ok" THEN s
           ELSE Walk(CASE s.at = "val_begin" -> val_begin(s) [] s.at = "val_end" -> val_end(s)
                       [] s.at = "ctn_end" -> ctn_end(s))

Fresh(alc, grow) == [out |-> <<>>, cur |-> 0, alc |-> alc, ctx |-> <<>>, over |-> FALSE, grow |-> grow,
                     val |-> 1, ctn |-> 0, obj |-> FALSE, left |-> 0, level |-> 0, at |-> "val_begin", code |-> "ok"]
\* A scalar or an empty container: a buffer of the size it needs.
SingleSize(c) == CASE c.t = "raw" -> Bytes(c.s) + 2
                   [] c.t = "str" -> Bytes(c.s) * 6 + 4
                   [] c.t = "num" -> FP_BUF_LEN + 2
                   [] IsCtn(c) -> 4
                   [] OTHER -> 8
Single(s, c, text) ==
    LET Line(r) == IF Flag("NEWLINE") THEN Out(r, <<"NL">>) ELSE r
    IN IF c.t \notin Known THEN Fail(s, "type")
       ELSE IF s.grow = 0 THEN Fail(s, "alloc")
       ELSE IF text = <<>> THEN Fail(s, Failure(c)) ELSE Ended(Line(Put(s, text[1], Touched(c, text[1]))))
write_single(grow, c) == Single(Fresh(SingleSize(c), grow), c, IF c.t \in Known THEN Written(c) ELSE <<>>)
\* The buffer is first sized from the number of values, which for a mutable
\* value is an estimate from its document, and 0 without one.
write_opts(vals, grow) ==
    LET s == Fresh(AlignUp(vals * (IF Pretty THEN 32 ELSE 18) + 64), grow - 1)
    IN IF ~IsCtn(Cell(1)) \/ Cell(1).len = 0 THEN write_single(grow, Cell(1))
       ELSE IF grow = 0 THEN Fail(s, "alloc") ELSE Walk(Into(s, 1, Cell(1).t = "obj"))

-----------------------------------------------------------------------------

Init ==
    /\ job \in Docs /\ ret = None
    /\ form \in {"imut", "mut"}
    /\ \E f \in {Flat(job.x)} : mem = IF form = "imut" THEN f ELSE T!val_mut_copy(f)

Vals == IF form = "imut" THEN {Len(mem)} ELSE {0, Len(mem)}
Result(r, file) == [code |-> r.code, out |-> r.out, over |-> r.over, file |-> file]
Write ==
    /\ ret = None
    /\ \E vals \in Vals, grow \in 0 .. MaxGrow : ret' = Result(write_opts(vals, grow), <<>>)
    /\ UNCHANGED <<job, form, mem>>
\* write_file: the file cannot be opened, written or closed, or all went well;
\* fwrite of no bytes counts as a failure.
WriteFile ==
    /\ ret = None
    /\ \E vals \in Vals, io \in {"open", "write", "close", "ok"} :
          \E r \in {write_opts(vals, MaxGrow)} :
          \E text \in {IF r.code = "done" THEN r.out ELSE <<>>} :
              ret' = Result([r EXCEPT !.code = IF @ # "done" THEN @
                                               ELSE IF io = "ok" /\ text # <<>> THEN "written" ELSE "file"],
                            CASE io = "open" -> <<>>
                              [] io = "write" -> SubSeq(text, 1, Len(text) \div 2)
                              [] OTHER -> text)
    /\ UNCHANGED <<job, form, mem>>
Next == Write \/ WriteFile

-----------------------------------------------------------------------------
(* Properties.                                                             *)

\* The text of a value, written from the value.
RECURSIVE TextOf(_, _)
TextOf(x, level) ==
    LET in == IF Pretty THEN Indents(level + 1) ELSE <<>>
        nl == IF Pretty THEN <<"NL">> ELSE <<>>
        colon == IF Pretty THEN <<":", " ">> ELSE <<":">>
        item(i) == in \o (IF x.t = "obj" THEN write_str(x.p[i].k)[1] \o colon ELSE <<>>)
                      \o TextOf(Values(x)[i], level + 1)
        items == FlattenSeq([i \in 1 .. Size(x) |-> item(i) \o (IF i = Size(x) THEN <<>> ELSE <<",">>) \o nl])
    IN IF ~IsCtn(x) THEN Written(x)[1]
       ELSE IF Size(x) = 0 THEN <<Opener(x.t = "obj"), Closer(x.t = "obj")>>
       ELSE <<Opener(x.t = "obj")>> \o nl \o items
            \o (IF Pretty THEN Indents(level) ELSE <<>>) \o <<Closer(x.t = "obj")>>
RECURSIVE Writable(_)
Writable(x) ==
    IF IsCtn(x) THEN \A i \in 1 .. Size(x) : Writable(Values(x)[i])
                        /\ (x.t = "obj" => write_str(x.p[i].k) # <<>>)
    ELSE x.t \in Known /\ Written(x) # <<>>
\* What a reader finds in its place.
RECURSIVE ReadBack(_)
ReadBack(x) ==
    CASE x.t = "arr" -> Arr([i \in DOMAIN x.e |-> ReadBack(x.e[i])])
      [] x.t = "obj" -> Obj([i \in DOMAIN x.p |-> Pair(x.p[i].k, ReadBack(x.p[i].v))])
      [] x.t = "raw" -> CHOOSE v \in Meaning(x.s, {}) : TRUE
      [] x.t = "num" -> IF x.sub # "inf" THEN x ELSE IF Flag("INFNULL") THEN Null ELSE Num("raw", x.n)
      [] OTHER -> x

\* Both writers and both layouts, from either form: what can be written is
\* written, as the text that the value defines, and a reader gets the value back;
\* what cannot is refused, and a failure of the allocator is nothing else.
WritesTree ==
    ret # None =>
        LET text == TextOf(job.x, 0) \o (IF Flag("NEWLINE") THEN <<"NL">> ELSE <<>>)
            plain == SelectSeq(ret.out, LAMBDA c : c # "SP")
        IN IF ret.code \in {"done", "written", "file"}
           THEN /\ Writable(job.x) /\ ret.out = text
                /\ ret.code = "written" =>
                      /\ ret.file = text
                      /\ \/ job.x.t = "raw" /\ job.x.s = <<>>
                         \/ Meaning(plain, {"INF", "INV"}) = {ReadBack(job.x)}
                /\ ret.code = "done" => ret.file = <<>>
           ELSE ret.code # "alloc" => ~Writable(job.x)

\* The text and the contexts of the open containers never meet, whatever was
\* written ahead, touched by a wide store or taken back.
TextMeetsNoContext == ret # None => ~ret.over
=============================================================================
