------------------------------- MODULE MCTexts -------------------------------
(***************************************************************************)
(* What HanaBase does with texts, component by component: the walks over   *)
(* code units, HString, HStringView, yyjson's reader and writer with their *)
(* strings and numbers, the tags of values, and the archive on top.  An    *)
(* initial state picks one component of Parts, and only that one moves;    *)
(* v1 .. v6 are its variables.                                             *)
(***************************************************************************)
EXTENDS Integers

CONSTANTS Parts, None, ka, kb, Empty

VARIABLES part, v1, v2, v3, v4, v5, v6

vars == <<part, v1, v2, v3, v4, v5, v6>>

Views == INSTANCE MCViews
Walker == INSTANCE UnicodeWalk WITH Texts <- Views!Texts,
            text <- v1, cursor <- v2, seen <- v3, way <- v4

String == INSTANCE HString WITH Letters <- {1, 2}, MaxLen <- 4, Reserves <- {7},
            str <- v1, text <- v2, blocks <- v3, broken <- v4

View == INSTANCE HStringView WITH Stores <- Views!Stores, Marks <- Views!Marks, Limits <- Views!Limits,
            view <- v1, job <- v2, rest <- v3, pieces <- v4

JsonDocs == INSTANCE MCYYDocs
Reader == INSTANCE YYReader WITH Texts <- JsonDocs!Texts, MaxGrow <- 3,
            in <- v1, inc <- v2, ret <- v3

Writer == INSTANCE YYWriter WITH Docs <- JsonDocs!Docs, MaxGrow <- 4,
            job <- v1, form <- v2, mem <- v3, ret <- v4

ScalarJobs == INSTANCE MCYYScalars
Literal == INSTANCE YYString WITH Jobs <- ScalarJobs!StringJobs, job <- v1, ret <- v2

Number == INSTANCE YYNumber WITH Jobs <- ScalarJobs!NumberJobs, job <- v1, ret <- v2

Value == INSTANCE YYValue WITH Bits <- 4, val <- v1, mut <- v2, is <- v3

\* Values of four types, and arrays of one and of two elements.
Scalars == {[t |-> "sint", v |-> -3], [t |-> "sint", v |-> 3], [t |-> "str", v |-> "s"]}
Arrays == {<<[t |-> "bool", v |-> 1]>>, <<[t |-> "uint", v |-> 6], [t |-> "str", v |-> "s"]>>}
Archive == INSTANCE JsonArchive WITH Keys <- {ka, kb, Empty},
             MaxCalls <- 4, MaxLost <- 1, document <- v1, stack <- v2, script <- v3, reader <- v4, mirror <- v5, got <- v6

-----------------------------------------------------------------------------
Init == /\ part \in Parts
        /\ \/ part = "walk"    /\ Walker!Init  /\ v5 = None /\ v6 = None
           \/ part = "hstring" /\ String!Init  /\ v5 = None /\ v6 = None
           \/ part = "view"    /\ View!Init    /\ v5 = None /\ v6 = None
           \/ part = "reader"  /\ Reader!Init  /\ v4 = None /\ v5 = None /\ v6 = None
           \/ part = "writer"  /\ Writer!Init  /\ v5 = None /\ v6 = None
           \/ part = "string"  /\ Literal!Init  /\ v3 = None /\ v4 = None /\ v5 = None /\ v6 = None
           \/ part = "number"  /\ Number!Init  /\ v3 = None /\ v4 = None /\ v5 = None /\ v6 = None
           \/ part = "value"   /\ Value!Init   /\ v4 = None /\ v5 = None /\ v6 = None
           \/ part = "archive" /\ Archive!Init

Next == /\ UNCHANGED part
        /\ \/ part = "walk"    /\ Walker!Next  /\ UNCHANGED <<v5, v6>>
           \/ part = "hstring" /\ String!Next  /\ UNCHANGED <<v5, v6>>
           \/ part = "view"    /\ View!Next    /\ UNCHANGED <<v5, v6>>
           \/ part = "reader"  /\ Reader!Next  /\ UNCHANGED <<v4, v5, v6>>
           \/ part = "writer"  /\ Writer!Next  /\ UNCHANGED <<v5, v6>>
           \/ part = "string"  /\ Literal!Next  /\ UNCHANGED <<v3, v4, v5, v6>>
           \/ part = "number"  /\ Number!Next  /\ UNCHANGED <<v3, v4, v5, v6>>
           \/ part = "value"   /\ Value!Next   /\ UNCHANGED <<v4, v5, v6>>
           \/ part = "archive" /\ Archive!Next

-----------------------------------------------------------------------------
(* Properties: those of the components, while they are the one that moves. *)

\* A walk forwards cuts any text into sequences that stay inside it, and the indices
\* agree with it (code_point_index, code_unit_index); a walk backwards cuts well-formed
\* text the same way and leaves its text exactly when a character of several units
\* stands in front of it; decode_utf accepts exactly the characters of UTF-8;
\* parse_to_utf8 writes exactly what text_size measured, and it decodes to the same
\* characters.
WalksAgree == part = "walk" => /\ Walker!WalksAgree
                               /\ Walker!LeavesOnlyOverCharacter
                               /\ Walker!DecodesUtf8
                               /\ Walker!ConvertsExactly

\* An HString holds the text that its calls say, wherever it is stored, until one of
\* the three calls is made that break it (Breaks and reserve of HString).
HoldsText == part = "hstring" => String!HoldsText

\* HStringView trims the longest run of what it is asked to trim, and split hands
\* out the parts of the text, none twice and none lost.
PartsOfText == part = "view" => View!TrimsExactly /\ View!SplitJoins

\* yyjson_read_opts accepts the grammar and nothing else, gives the value that the
\* text denotes, and writes no cell outside its array.
ReadsGrammar == part = "reader" => Reader!ReadsGrammar /\ Reader!CellsFit

\* yyjson_incr_read, fed in any pieces, ends as one read of the whole does, but for a
\* number that is the whole document, which it may cut, and but for the terminators of
\* raw numbers that were the last ones of a call (both named exactly).
IncrIsWhole == part = "reader" => Reader!IncrIsWhole

\* An "unexpected end" is said of the beginnings of a text (is_truncated_end).  It is
\* also said of texts that nothing completes: of three kinds exactly, half an infinity
\* where no value may be, a wrong symbol where a raw number lacks a digit, and inside
\* strings a low surrogate alone.
CutIsUnfinished == /\ part = "reader" => Reader!PrefixIsUnfinished /\ Reader!EndMeansMore
                   /\ part = "string" => Literal!CutIsTruncated

\* Whatever its room was and however it grew, a writer gives the text of the value,
\* and its text and its stack of contexts, which share a buffer, never meet.
WritesTree == part = "writer" => Writer!WritesTree /\ Writer!TextMeetsNoContext

\* A string is read back as it was written, and denotes what JSON says it does.
StringIsRead == part = "string" => Literal!WrittenIsRead /\ Literal!ReadsDenoted

\* A number is read back as the bits it was written from, its decimal is the
\* shortest one, and one with a precision is rounded once.  A decimal is read as the
\* number nearest to it, if the reader keeps its digits.
NumberIsRead == part = "number" => /\ Number!NumberIsRead
                                   /\ Number!ShortestIsClosest
                                   /\ Number!FixedIsRounded
                                   /\ Number!ReadsNearest

\* The getters of a value agree on what it was set to last, whatever it was before.
SaysWhatWasSet == part = "value" => Value!SaysWhatWasSet

\* The document of JsonWriter is what its successful calls say.
DocumentIsScript == part = "archive" => Archive!DocumentIsScript

\* JsonReader, called in the order of the writer's calls, gives back what they wrote.
MirrorReads == [][part = "archive" => Archive!MirrorStep]_vars

\* "The bigint algorithm is used by floating-point number reader to get correctly
\* rounded result for numbers with lots of digits." (yyjson.c:4207)
ReadsRight == part = "number" => Number!ReadsRight

\* "str.reserve(10086); CHECK_EQ(str.size(), long_literal.size());"
\* (tests/string.cpp:311): reserve keeps the size of every string.
ReserveKeepsSize == part = "hstring" => String!ReserveKeepsSize

\* "Returns true if the input is valid but truncated." (yyjson.c:4075)
TruncatedIsValid == /\ part = "reader" => Reader!TruncatedIsValid
                    /\ part = "string" => Literal!TruncatedGoesOn
=============================================================================
