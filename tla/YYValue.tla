------------------------------- MODULE YYValue -------------------------------
(***************************************************************************)
(* One value cell of yyjson: a tag, which packs the type, the subtype and, *)
(* above them, a length or how a real number is to be written, and a word  *)
(* that is an integer, a real or a pointer.  A cell is set over and over,  *)
(* to other types too, and the getters have only these bits to go by.      *)
(***************************************************************************)
EXTENDS Integers

CONSTANT Bits         \* bits of the word, for 64; an int has one bit less

VARIABLES val,        \* the cell: [tag, uni]
          mut,        \* whether it is set through the mutable functions
          is          \* what was set last

vars == <<val, mut, is>>

Words == 0 .. 2 ^ Bits - 1
Signed(w, bits) == IF (w % 2 ^ bits) < 2 ^ (bits - 1) THEN w % 2 ^ bits ELSE (w % 2 ^ bits) - 2 ^ bits
Word(i) == i % 2 ^ Bits

\* Types, and subtypes at bit 3; the rest of the tag begins at bit 8.
RAW == 1
NULL == 2
BOOL == 3
NUM == 4
STR == 5
ARR == 6
OBJ == 7
NONE == 0
FALSE_ == 0
TRUE_ == 8
UINT == 0
SINT == 8
REAL == 16
NOESC == 8
TAG == 256
\* There: the flag for single precision, and the decimal places. 4 stands for the
\* 2^27 of YYJSON_WRITE_FP_TO_FLOAT << 32 over 2^8, lengths stay below it.
Float == 4
Fixed(prec) == 8 * prec
Lens == 0 .. 3
Precs == 0 .. 3

get_type(v) == v.tag % 8
get_subtype(v) == ((v.tag % TAG) \div 8 % 4) * 8
get_len(v) == v.tag \div TAG
is_ctn(v) == (v.tag % TAG) \div 2 % 4 = 3
Is(v, type, sub) == v.tag % TAG = type + sub
is_int(v) == (v.tag % TAG) \in {NUM + UINT, NUM + SINT}
get_bool(v) == IF get_type(v) = BOOL THEN get_subtype(v) \div 8 = 1 ELSE FALSE
get_uint(v) == IF is_int(v) THEN v.uni ELSE 0
get_sint(v) == IF is_int(v) THEN Signed(v.uni, Bits) ELSE 0
get_int(v) == IF is_int(v) THEN Signed(v.uni, Bits - 1) ELSE 0
get_num(v) == IF Is(v, NUM, REAL) THEN <<"real", v.uni>>
              ELSE IF Is(v, NUM, SINT) THEN <<"int", Signed(v.uni, Bits)>>
              ELSE IF Is(v, NUM, UINT) THEN <<"int", v.uni>> ELSE <<"int", 0>>
size(v, type) == IF get_type(v) = type THEN get_len(v) ELSE 0
type_desc(v) ==
    CASE Is(v, RAW, NONE) -> "raw" [] Is(v, NULL, NONE) -> "null"
      [] Is(v, STR, NONE) \/ Is(v, STR, NOESC) -> "string"
      [] Is(v, ARR, NONE) -> "array" [] Is(v, OBJ, NONE) -> "object"
      [] Is(v, BOOL, TRUE_) -> "true" [] Is(v, BOOL, FALSE_) -> "false"
      [] Is(v, NUM, UINT) -> "uint" [] Is(v, NUM, SINT) -> "sint" [] Is(v, NUM, REAL) -> "real"
      [] OTHER -> "unknown"
\* yyjson_ptr_get_uint and _sint: {} when there is no such integer.
ptr_get_uint(v) == IF Is(v, NUM, UINT) \/ (Is(v, NUM, SINT) /\ v.uni < 2 ^ (Bits - 1)) THEN {v.uni} ELSE {}
ptr_get_sint(v) == LET i == Signed(v.uni, Bits)
                   IN IF Is(v, NUM, SINT) \/ (Is(v, NUM, UINT) /\ i >= 0) THEN {i} ELSE {}

\* Variant: only the type is set, what is above it stays.
KeepsLen(v, type, sub, len) == [v EXCEPT !.tag = (@ \div TAG) * TAG + type + sub]
set_tag(v, type, sub, len) == [v EXCEPT !.tag = len * TAG + type + sub]
set_len(v, len) == [v EXCEPT !.tag = len * TAG + (@ % TAG)]
inc_len(v) == [v EXCEPT !.tag = @ + TAG]
set_uni(v, w) == [v EXCEPT !.uni = w]
set_fp_to_fixed(v, prec) == set_len(v, (get_len(v) % Fixed(1)) + Fixed(prec))
set_fp_to_float(v, flt) ==
    LET others == get_len(v) - (get_len(v) \div Float % 2) * Float
    IN set_len(v, IF flt THEN others + Float ELSE others)
set_str_noesc(v, noesc) ==
    [v EXCEPT !.tag = @ - get_subtype(v) + (IF noesc THEN NOESC ELSE NONE)]

-----------------------------------------------------------------------------

Meant(t, v, len) == [t |-> t, v |-> v, len |-> len, noesc |-> FALSE, flt |-> FALSE, prec |-> 0]
Init == val = [tag |-> NULL, uni |-> 0] /\ mut \in BOOLEAN /\ is = Meant("null", 0, 0)

\* The cell of an immutable container is not to be set.
Set(v, meant) ==
    /\ mut \/ ~is_ctn(val)
    /\ val' = v /\ is' = meant /\ UNCHANGED mut
\* What a reader leaves of a container.
ReadCtn == \E n \in Lens, w \in Words :
    \/ ~mut /\ val' = set_uni(set_tag(val, ARR, NONE, n), w) /\ is' = Meant("array", w, n) /\ UNCHANGED mut
    \/ ~mut /\ val' = set_uni(set_tag(val, OBJ, NONE, n), w) /\ is' = Meant("object", w, n) /\ UNCHANGED mut
SetNull == Set(set_tag(val, NULL, NONE, 0), Meant("null", 0, 0))
SetBool == \E b \in BOOLEAN : Set(set_tag(val, BOOL, IF b THEN TRUE_ ELSE FALSE_, 0),
                                  Meant(IF b THEN "true" ELSE "false", 0, 0))
SetNum == \E w \in Words :
    \/ Set(set_uni(set_tag(val, NUM, UINT, 0), w), Meant("uint", w, 0))
    \/ Set(set_uni(set_tag(val, NUM, SINT, 0), w), Meant("sint", Signed(w, Bits), 0))
    \/ Set(set_uni(set_tag(val, NUM, SINT, 0), Word(Signed(w, Bits - 1))),
           Meant("sint", Signed(w, Bits - 1), 0))
    \/ Set(set_uni(set_tag(val, NUM, REAL, 0), w), Meant("real", w, 0))
SetFloat == \E w \in Words : Set(set_uni(set_fp_to_float(set_tag(val, NUM, REAL, 0), TRUE), w),
                                 [Meant("real", w, 0) EXCEPT !.flt = TRUE])
\* A constant string may be known not to need escapes.
SetStr == \E w \in Words, n \in Lens, noesc \in BOOLEAN :
    Set(set_uni(set_tag(val, STR, IF noesc THEN NOESC ELSE NONE, n), w),
        [Meant("string", w, n) EXCEPT !.noesc = noesc])
SetRaw == \E w \in Words, n \in Lens : Set(set_uni(set_tag(val, RAW, NONE, n), w), Meant("raw", w, n))
SetFormat ==
    /\ Is(val, NUM, REAL)
    /\ \/ \E p \in Precs : Set(set_fp_to_fixed(val, p), [is EXCEPT !.prec = p])
       \/ \E f \in BOOLEAN : Set(set_fp_to_float(val, f), [is EXCEPT !.flt = f])
SetNoesc == get_type(val) = STR /\ \E b \in BOOLEAN : Set(set_str_noesc(val, b), [is EXCEPT !.noesc = b])
SetCtn == /\ mut
          /\ \/ Set(set_tag(val, ARR, NONE, 0), Meant("array", 0, 0))
             \/ Set(set_tag(val, OBJ, NONE, 0), Meant("object", 0, 0))
\* The functions that add and remove change only the length.
Grow == /\ mut /\ is_ctn(val)
        /\ \/ get_len(val) < 3 /\ Set(inc_len(val), [is EXCEPT !.len = @ + 1])
           \/ \E n \in Lens : Set(set_len(val, n), [is EXCEPT !.len = n])

Next == ReadCtn \/ SetNull \/ SetBool \/ SetNum \/ SetFloat \/ SetStr \/ SetRaw \/ SetFormat \/ SetNoesc
        \/ SetCtn \/ Grow

-----------------------------------------------------------------------------
(* Properties.                                                             *)

IsInt == is.t \in {"uint", "sint"}
\* Whatever the cell was before, all the getters agree on what it was set to last:
\* nothing of an earlier length, format or payload shows through, and an integer
\* is given through a pointer exactly if it fits.  get_len of a real gives its format,
\* and of a raw value its length, where yyjson.h:1791 speaks of 0 (see the README).
SaysWhatWasSet ==
    /\ type_desc(val) = is.t
    /\ is_ctn(val) <=> is.t \in {"array", "object"}
    /\ is_int(val) <=> IsInt
    /\ get_bool(val) <=> is.t = "true"
    /\ size(val, ARR) = (IF is.t = "array" THEN is.len ELSE 0)
    /\ size(val, OBJ) = (IF is.t = "object" THEN is.len ELSE 0)
    /\ is.t \in {"string", "raw"} => val.uni = is.v /\ get_len(val) = is.len
    /\ is.t = "string" => (get_subtype(val) = NOESC <=> is.noesc)
    /\ is.t = "real" => /\ get_num(val) = <<"real", is.v>>
                        /\ get_len(val) = Fixed(is.prec) + (IF is.flt THEN Float ELSE 0)
    /\ is.t # "real" => get_num(val) = <<"int", IF IsInt THEN is.v ELSE 0>>
    /\ get_sint(val) = (IF IsInt THEN Signed(Word(is.v), Bits) ELSE 0)
    /\ ptr_get_uint(val) = {is.v} \cap (IF IsInt THEN Words ELSE {})
    /\ ptr_get_sint(val) = {is.v} \cap (IF IsInt THEN -(2 ^ (Bits - 1)) .. 2 ^ (Bits - 1) - 1 ELSE {})
    /\ IsInt /\ is.v \in -(2 ^ (Bits - 2)) .. 2 ^ (Bits - 2) - 1 => get_int(val) = is.v
=============================================================================
