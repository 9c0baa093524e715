------------------------------ MODULE YYNumber ------------------------------
(***************************************************************************)
(* Numbers of yyjson: the shortest decimal of a floating point number, its *)
(* rounding to so many decimals, and the reading of decimals of any        *)
(* length.  The algorithms stand as they are in the code, but over smaller *)
(* words, whose sizes are related as those of the code; no number here is  *)
(* wider than two words.                                                   *)
(***************************************************************************)
EXTENDS SequencesExt, Integers

CONSTANTS Jobs,   \* [op |-> "write", t, w, prec] or [op |-> "read", text, big, inf]
          None

VARIABLES job, ret

vars == <<job, ret>>

\* The size of this model                 \* and of the code
W == 14                                   \* 64, bits of a word
P == 6                                    \* F64_SIG_FULL_BITS, 53
BIAS == 22                                \* F64_EXP_BIAS, 1023
EXP_INF == 45                             \* the exponent of inf and nan, 2047
SAFE_DIG == 4                             \* U64_SAFE_DIG, 19
SIG_DIG == 2                              \* 16, or one more, digits of a significand
MAX_DEC_EXP == 6                          \* F64_MAX_DEC_EXP, 308
MIN_DEC_EXP == -8                         \* F64_MIN_DEC_EXP, -324
ERR_ULP == 8
MAX_EXACT == 2                            \* F64_POW10_EXP_MAX_EXACT, 22
MAX_DEC_DIG == 21                         \* F64_MAX_DEC_DIG, 768
DOT_MAX == 4                              \* 21: numbers from 10^DOT_MAX on are scientific
DOT_MIN == -3                             \* -6
DOT_RAW == 35 * 32 + 8                    \* the first float that is not below 10^DOT_MAX

Hi(n) == n \div 2 ^ W
Lo(n) == n % 2 ^ W
Sig(raw) == raw % 2 ^ (P - 1)
Exp(raw) == (raw \div 2 ^ (P - 1)) % 2 ^ (W - P)
\* The number is Bin(raw) * 2^BinExp(raw).
Bin(raw) == IF Exp(raw) = 0 THEN Sig(raw) ELSE Sig(raw) + 2 ^ (P - 1)
BinExp(raw) == (IF Exp(raw) = 0 THEN 1 ELSE Exp(raw)) - BIAS - (P - 1)
INF == EXP_INF * 2 ^ (P - 1)

-----------------------------------------------------------------------------
(* The powers of ten: the first two words of each, rounded down.           *)

Pow10 == [e \in -12 .. 12 |->
    IF e >= 0
    THEN LET m == CHOOSE m \in 0 .. 2 * W - 1 : 2 ^ m <= 5 ^ e /\ 5 ^ e < 2 ^ (m + 1)
         IN 5 ^ e * 2 ^ (2 * W - 1 - m)
    ELSE LET d == 5 ^ (-e)
             m == CHOOSE m \in 1 .. 2 * W : 2 ^ (m - 1) < d /\ d < 2 ^ m
             long[i \in 0 .. 2 * W - 1] ==                   \* quotient and remainder
                 IF i = 0 THEN <<1, 2 ^ m - d>>
                 ELSE LET q == long[i - 1] IN <<2 * q[1] + ((2 * q[2]) \div d), (2 * q[2]) % d>>
         IN long[2 * W - 1][1]]
get_sig(e) == <<Hi(Pow10[e]), Lo(Pow10[e])>>
get_exp(e) == ((e * 217706) \div 2 ^ 16) - (W - 1)

-----------------------------------------------------------------------------
(* From binary to decimal.                                                 *)

Log10of2(exp, irregular) == (exp * 315653 - (IF irregular THEN 131237 ELSE 0)) \div 2 ^ 20
Scale(exp, k) == exp + ((-k * 217707) \div 2 ^ 16)

\* The high and the middle word of n times a number of two words.
Times2(n, p) == n * p[1] + Hi(n * p[2])

\* The fast path, None when it cannot decide.
fast_decided(k, s, c, half_ulp, t0) ==
    IF Lo(s) = 2 ^ (W - 1) \/ half_ulp = c \/ t0 - c - half_ulp \in {0, 1} THEN None
    ELSE [exp |-> k,
          sig |-> IF c + half_ulp >= t0 THEN Hi(s) - (Hi(s) % 10) + 10
                  ELSE IF half_ulp >= c THEN Hi(s) - (Hi(s) % 10)
                  ELSE Hi(s) + (IF Lo(s) >= 2 ^ (W - 1) THEN 1 ELSE 0)]
fast_scaled(k, h, p, s) ==
    fast_decided(k, s, (Hi(s) % 10) * 2 ^ (W - 4) + (Lo(s) \div 16), p[1] \div 2 ^ (4 - h), 10 * 2 ^ (W - 4))
fast_by(raw, k, h) == fast_scaled(k, h, get_sig(-k), Times2(Bin(raw) * 2 ^ (h + 1), get_sig(-k)))
fast_at(raw, exp, k) == fast_by(raw, k, Scale(exp, k))
dec_fast_path(raw) == IF Sig(raw) = 0 THEN None ELSE fast_at(raw, BinExp(raw), Log10of2(BinExp(raw), FALSE))

ToOdd(y) == IF Lo(y) > 1 /\ Hi(y) % 2 = 0 THEN Hi(y) + 1 ELSE Hi(y)
round_to_odd(p, cp) == ToOdd(Times2(cp, p))
Irregular(raw) == Sig(raw) = 0 /\ Exp(raw) > 1
\* Of the decimals between lower and upper the one with a digit less, or the closest.
schubfach_pick(lower, vb, upper, s, sp) ==
    LET w0 == upper >= 40 * sp + 40
        w1 == upper >= 4 * s + 4
    IN IF s >= 10 /\ (lower <= 40 * sp) # w0 THEN sp * 10 + (IF w0 THEN 10 ELSE 0)
       ELSE s + (IF (IF (lower <= 4 * s) # w1 THEN w1
                     ELSE vb > 4 * s + 2 \/ (vb = 4 * s + 2 /\ s % 2 = 1)) THEN 1 ELSE 0)
schubfach_by(lower, vb, upper) == schubfach_pick(lower, vb, upper, vb \div 4, vb \div 40)
schubfach_at(raw, p, cb, odd, h) ==
    schubfach_by(round_to_odd(p, (cb - (IF Irregular(raw) THEN 1 ELSE 2)) * 2 ^ h) + odd,
                 round_to_odd(p, cb * 2 ^ h), round_to_odd(p, (cb + 2) * 2 ^ h) - odd)
schubfach_k(raw, k) ==
    [exp |-> k, sig |-> schubfach_at(raw, <<get_sig(-k)[1], get_sig(-k)[2] + 1>>, 4 * Bin(raw), Bin(raw) % 2,
                                     Scale(BinExp(raw), k) + 1)]
schubfach(raw) == schubfach_k(raw, Log10of2(BinExp(raw), Irregular(raw)))
bin_to_dec(raw) == LET Or(fast) == IF fast = None THEN schubfach(raw) ELSE fast IN Or(dec_fast_path(raw))

\* Not the shortest one; it was rounded up or down.
bin_to_dec_fast(raw) ==
    LET half == IF Irregular(raw) THEN (2 ^ W - 1) \div 3 ELSE 2 ^ (W - 1)
        Rounded(k, s, up) == [exp |-> k, sig |-> Hi(s) + up, up |-> up]
        Scaled(k, s) == Rounded(k, s, IF Lo(s) >= half THEN 1 ELSE 0)
        At(exp, k) == Scaled(k, Times2(Bin(raw) * 2 ^ (Scale(exp, k) + 1), get_sig(-k)))
    IN At(BinExp(raw), Log10of2(BinExp(raw), Irregular(raw)))

-----------------------------------------------------------------------------
(* Writing.  A text is a sign, the digits before and behind the point, and *)
(* an exponent; dig = <<>> says that there is none.                        *)

Digits(n) == LET len == CHOOSE l \in 1 .. 9 : n < 10 ^ l /\ (l = 1 \/ n >= 10 ^ (l - 1))
             IN [i \in 1 .. len |-> (n \div 10 ^ (len - i)) % 10]
Zeros(n) == [i \in 1 .. n |-> 0]
\* Without the zeros at the end, except the first.
Trimmed(s) == SubSeq(s, 1, CHOOSE n \in 1 .. Len(s) : /\ n = 1 \/ s[n] # 0
                                                      /\ \A i \in n + 1 .. Len(s) : s[i] = 0)
NoExp == [neg |-> FALSE, dig |-> <<>>]
Text(neg, int, frac, exp) == [neg |-> neg, int |-> int, frac |-> frac, exp |-> exp]
Around(neg, all, dot) == Text(neg, SubSeq(all, 1, dot), Trimmed(SubSeq(all, dot + 1, Len(all))), NoExp)
Point(neg, ds, dot) ==
    IF dot > 0 THEN Around(neg, ds \o Zeros(IF dot >= Len(ds) THEN dot - Len(ds) + 1 ELSE 0), dot)
    ELSE Text(neg, <<0>>, Trimmed(Zeros(-dot) \o ds), NoExp)
OneBefore(neg, d, exp) == Text(neg, SubSeq(d, 1, 1), SubSeq(d, 2, Len(d)),
                               [neg |-> exp < 0, dig |-> Digits(IF exp < 0 THEN -exp ELSE exp)])
Scientific(neg, ds, exp) == OneBefore(neg, Trimmed(ds), exp)

Zero(neg) == Text(neg, <<0>>, <<0>>, NoExp)
SigLen(sig) == SIG_DIG + (IF sig >= 10 ^ SIG_DIG THEN 1 ELSE 0)
\* A small integer without a fraction.
IsInteger(raw) == /\ Exp(raw) # 0 /\ BinExp(raw) \in -(P - 1) .. 0
                  /\ Bin(raw) % 2 ^ (-BinExp(raw)) = 0
Laid(neg, raw, ds, dot) ==
    IF Exp(raw) # 0 /\ DOT_MIN < dot /\ dot <= DOT_MAX THEN Point(neg, ds, dot)
    ELSE Scientific(neg, ds, dot - 1)
Shown(neg, raw, d, ds) == Laid(neg, raw, ds, d.exp + (IF Exp(raw) = 0 THEN Len(ds) ELSE SigLen(d.sig)))
ShownWhole(neg, raw, d) == Shown(neg, raw, d, Digits(d.sig))
write_raw_f64(neg, raw) ==
    IF raw = 0 THEN Zero(neg)
    ELSE IF IsInteger(raw) THEN Text(neg, Digits(Bin(raw) \div 2 ^ (-BinExp(raw))), <<0>>, NoExp)
    ELSE ShownWhole(neg, raw, bin_to_dec(raw))

\* Variant: cut from what was rounded up before.
RoundsTwice(d, cut) == [d EXCEPT !.exp = @ + cut,
    !.sig = (d.sig \div 10 ^ cut) + (IF d.sig % 10 ^ cut >= 10 ^ cut \div 2 THEN 1 ELSE 0)]
Cut(d, cut) ==
    LET sig == d.sig - d.up
    IN [d EXCEPT !.exp = @ + cut,
                 !.sig = (sig \div 10 ^ cut) + (IF sig % 10 ^ cut >= 10 ^ cut \div 2 THEN 1 ELSE 0)]
CutTo(neg, c, lost) ==
    LET left == IF lost >= 0 /\ c.sig >= 10 ^ lost THEN lost + 1 ELSE lost
    IN IF left <= 0 THEN Zero(neg) ELSE Point(neg, Digits(c.sig), left + c.exp)
Fixed(neg, d, cut) ==
    IF d.exp >= -1 \/ cut <= 0 THEN Point(neg, Digits(d.sig), SigLen(d.sig) + d.exp)
    ELSE IF cut > SigLen(d.sig) THEN Zero(neg) ELSE CutTo(neg, Cut(d, cut), SigLen(d.sig - d.up) - cut)
FixedTo(neg, d, prec) == Fixed(neg, d, -d.exp - prec)
write_fixed(neg, raw, prec) ==
    IF raw = 0 THEN Zero(neg)
    ELSE IF IsInteger(raw) \/ raw >= DOT_RAW THEN write_raw_f64(neg, raw)
    ELSE IF Exp(raw) = 0 THEN Zero(neg) ELSE FixedTo(neg, bin_to_dec_fast(raw), prec)

\* write_num: w is the word of the value.  Infinite numbers are for YYWriter.
write_num(t, w, prec) ==
    LET neg == w >= 2 ^ (W - 1)
        raw == w % 2 ^ (W - 1)
    IN IF t = "real" THEN IF prec = 0 THEN write_raw_f64(neg, raw) ELSE write_fixed(neg, raw, prec)
       ELSE IF t = "sint" /\ neg THEN Text(TRUE, Digits(2 ^ W - w), <<>>, NoExp)
       ELSE Text(FALSE, Digits(w), <<>>, NoExp)

-----------------------------------------------------------------------------
(* Naturals of any size: the words of the code's bigint, lowest first.     *)

\* ws * v + c, words of base: what it is and the carry.
Digit(q, n, base) == <<Append(q[1], n % base), n \div base>>
NextDigit(q, w, v, base) == Digit(q, w * v + q[2], base)
Multiplied(ws, v, c, base) ==
    LET mul[i \in 0 .. Len(ws)] == IF i = 0 THEN <<<< >>, c>> ELSE NextDigit(mul[i - 1], ws[i], v, base)
    IN mul[Len(ws)]
Carried(all) == IF all[2] = 0 THEN all[1] ELSE Append(all[1], all[2])
bigint_mul_add(big, v, c) == Carried(Multiplied(big, v, c, 2 ^ W))
bigint_mul_pow2(big, e) == Zeros(e \div W) \o bigint_mul_add(big, 2 ^ (e % W), 0)
bigint_mul_pow10(big, e) ==
    LET times[n \in Nat] == bigint_mul_add(IF n <= SAFE_DIG THEN big ELSE times[n - SAFE_DIG],
                                           10 ^ (IF n <= SAFE_DIG THEN n ELSE SAFE_DIG), 0)
    IN times[e]
bigint_cmp(a, b) ==
    LET differ == {i \in DOMAIN a : a[i] # b[i]}
        top == CHOOSE i \in differ : \A j \in differ : j <= i
    IN IF Len(a) # Len(b) THEN Len(a) - Len(b)
       ELSE IF differ = {} THEN 0 ELSE a[top] - b[top]

-----------------------------------------------------------------------------
(* What a decimal is: digits \div 10 ^ -e, against numbers m * 2 ^ b.  The *)
(* naturals here are their digits, lowest first, without zeros on top.     *)

Topped(all) == IF all[2] = 0 THEN all[1] ELSE all[1] \o Reverse(Digits(all[2]))
Times(d, k) == Topped(Multiplied(d, k, 0, 10))
\* < 0, 0 or > 0: ds * 10^e against m * 2^b.  m > 0
Up(n) == IF n > 0 THEN n ELSE 0
Compared(d, e, m, b) ==
    IF d = <<>> THEN -1 ELSE bigint_cmp(Zeros(Up(e)) \o Times(d, 2 ^ Up(-b)),
                                        Zeros(Up(-e)) \o Times(Reverse(Digits(m)), 2 ^ Up(b)))
Against(ds, e, m, b) ==
    Compared(Reverse(SubSeq(ds, CHOOSE i \in 1 .. Len(ds) + 1 : /\ \A j \in 1 .. i - 1 : ds[j] = 0
                                                                /\ i > Len(ds) \/ ds[i] # 0, Len(ds))), e, m, b)
\* ds * 10^e goes to a float beyond raw: of two that are as near to the even one.
Beyond(c, odd) == c > 0 \/ (c = 0 /\ odd)
Above(ds, e, raw) == Beyond(Against(ds, e, 2 * Bin(raw) + 1, BinExp(raw) - 1), raw % 2 = 1)
IsNearest(ds, e, raw) == (raw > 0 => Above(ds, e, raw - 1)) /\ (raw < INF => ~Above(ds, e, raw))
Nearest(ds, e) ==
    LET find[lo \in 0 .. INF, hi \in 0 .. INF] ==
            IF lo = hi THEN lo
            ELSE LET Half(mid) == IF Above(ds, e, mid) THEN find[mid + 1, hi] ELSE find[lo, mid]
                 IN Half((lo + hi) \div 2)
    IN find[0, INF]

-----------------------------------------------------------------------------
(* Reading.  chars are the digits before and behind the point with a mark  *)
(* for it, cut is the place of the first digit that does not fit in a word *)
(* any more, dot the place of the point and end that behind the digits.    *)

Dot == 10
Value(ds) == LET v[i \in 0 .. Len(ds)] == IF i = 0 THEN 0 ELSE 10 * v[i - 1] + ds[i] IN v[Len(ds)]
lz_bits(sig) == CHOOSE n \in 0 .. W - 1 : sig * 2 ^ n \in 2 ^ (W - 1) .. 2 ^ W - 1
Real(w) == [t |-> "real", w |-> w]

\* Fast path 2, for exp in -4 .. 0: two words of the power, -1 when they do not decide.
UpBit == 2 ^ (W - P - 1)
fast_packed(up, exp) ==                                         \* up < UpBit: over the top
    (IF up < UpBit THEN exp + 1 ELSE exp) * 2 ^ (P - 1)
    + (((IF up < UpBit THEN 2 ^ (W - 1) ELSE up) \div 2 ^ (W - P)) % 2 ^ (P - 1))
fast_rounded(hi, exp) == fast_packed(Lo(hi + (IF (hi \div UpBit) % 2 = 1 THEN UpBit ELSE 0)), exp)
fast_shifted(hi, lz, exp) == fast_rounded(hi * 2 ^ lz, exp - lz)
fast_normal(hi, exp) == fast_shifted(hi, IF hi < 2 ^ (W - 1) THEN 1 ELSE 0, exp)
fast_sum(hi, lo, hi2, add, exp) ==
    LET near == hi % 2 ^ (W - P - 2) \in {0, 2 ^ (W - P - 2) - 1}
    IN IF near /\ add \in {0, 2 ^ W - 1} THEN -1
       ELSE fast_normal(hi + (IF near /\ (add < lo \/ add < hi2) THEN 1 ELSE 0), exp)
fast_product(n1, hi2, exp) == fast_sum(Hi(n1), Lo(n1), hi2, Lo(Lo(n1) + hi2), exp)
fast_power(sig, p, exp) == fast_product(sig * p[1], Hi(sig * p[2]), exp)
fast_lz(sig, exp, lz) == fast_power(sig * 2 ^ lz, get_sig(exp),
                                    get_exp(exp) - lz + W + (W - P) + (P - 1) + BIAS)
fast_path_2(sig, exp) == fast_lz(sig, exp, lz_bits(sig))

diy_fp_mul(fp, e) ==
    LET By(n) == [sig |-> Hi(n) + Lo(n) \div 2 ^ (W - 1), exp |-> fp.exp + get_exp(e) + W]
    IN By(fp.sig * (get_sig(e)[1] + get_sig(e)[2] \div 2 ^ (W - 1)))
ieee_packed(sig, exp) ==
    IF exp > BIAS THEN INF
    ELSE IF exp > -BIAS THEN (exp + BIAS) * 2 ^ (P - 1) + (sig % 2 ^ (P - 1))
    ELSE IF exp > 1 - BIAS - P THEN sig \div 2 ^ (1 - BIAS - exp) ELSE 0
diy_fp_to_ieee_raw(fp) ==
    LET By(lz) == ieee_packed((fp.sig * 2 ^ lz) \div 2 ^ (W - P), fp.exp - lz + (W - P) + (P - 1))
    IN IF fp.sig = 0 THEN 0 ELSE By(lz_bits(fp.sig))
Normal(fp, err) == LET By(n) == [fp |-> [sig |-> fp.sig * 2 ^ n, exp |-> fp.exp - n], err |-> err * 2 ^ n]
                   IN By(lz_bits(fp.sig))

\* bigint_set_buf: all digits but those that are too many, for which a 1 stands.
BigOf(big0, ds) ==
    LET big[i \in 0 .. Len(ds)] == IF i = 0 THEN <<big0>>
                                   ELSE IF ds[i] = Dot THEN big[i - 1]
                                   ELSE bigint_mul_add(big[i - 1], 10, ds[i])
    IN big[Len(ds)]
Marked(chars, cut, last) == SubSeq(chars, cut, last - 2) \o <<1>>
Kept(chars, cut, end, dot, total, last) ==
    IF total <= MAX_DEC_DIG THEN SubSeq(chars, cut, end - 1)
    ELSE Marked(chars, cut, IF dot + 1 = last THEN last - 1 ELSE last)
set_buf(sig, exp, chars, cut, end, dot, total) ==
    [big |-> BigOf(sig - (IF chars[cut] >= 5 THEN 1 ELSE 0),
                   Kept(chars, cut, end, dot, total, end - (total - (MAX_DEC_DIG + 1)))),
     exp |-> exp - ((IF total <= MAX_DEC_DIG THEN total ELSE MAX_DEC_DIG + 1) - SAFE_DIG)]
bigint_set_buf(sig, exp, chars, cut, end, dot) ==
    set_buf(sig, exp, chars, cut, end, dot,
            SAFE_DIG + (end - cut) - (IF cut < dot /\ dot < end THEN 1 ELSE 0))

\* Variant: the approximation will do.
TakesLower(raw, sig, exp, chars, cut, end, dot) == raw
\* The float for an approximation of it and the digits; it is raw or the next one.
Scaled2(a, b, upper) == bigint_cmp(bigint_mul_pow2(a, Up(-upper)), bigint_mul_pow2(b, Up(upper)))
AgainstUpper(full, raw) == Scaled2(bigint_mul_pow10(full.big, Up(full.exp)),
                                   bigint_mul_pow10(<<2 * Bin(raw) + 1>>, Up(-full.exp)), BinExp(raw) - 1)
compare_bigint(raw, sig, exp, chars, cut, end, dot) ==
    raw + (IF Beyond(AgainstUpper(IF cut = 0 THEN [big |-> <<sig>>, exp |-> exp]
                                  ELSE bigint_set_buf(sig, exp, chars, cut, end, dot), raw), raw % 2 = 1)
           THEN 1 ELSE 0)

\* d is the decimal: sig, exp, chars, cut, end and dot.
slow_decided(d, raw, bits, half, err) ==
    IF raw = INF \/ bits <= half - err \/ bits >= half + err THEN raw
    ELSE compare_bigint(raw, d.sig, d.exp, d.chars, d.cut, d.end, d.dot)
slow_half(d, fp, count, bits, half, err) ==
    slow_decided(d, diy_fp_to_ieee_raw([sig |-> (fp.sig \div 2 ^ count) + (IF bits >= half + err THEN 1 ELSE 0),
                                        exp |-> fp.exp + count]), bits, half, err)
slow_split(d, fp, count, err) ==
    slow_half(d, fp, count, (fp.sig % 2 ^ count) * ERR_ULP, 2 ^ (count - 1) * ERR_ULP, err)
slow_shift(d, fp, err, count, shr) ==
    slow_split(d, [sig |-> fp.sig \div 2 ^ shr, exp |-> fp.exp + shr], count - shr,
               IF shr = 0 THEN err ELSE (err \div 2 ^ shr) + 1 + ERR_ULP)
slow_count(d, n, count) == slow_shift(d, n.fp, n.err, count, Up(count + 3 - W + 1))
slow_order(d, n, order) == slow_count(d, n, W - (IF order >= P THEN P ELSE Up(order)))
slow_bits(d, n) == slow_order(d, n, W + n.fp.exp + (BIAS + P - 2))          \* - EXP_SUBNORMAL
slow_scale(d, n) ==
    slow_bits(d, Normal(diy_fp_mul(n.fp, d.exp), n.err + ERR_ULP + (IF n.err = 0 THEN 0 ELSE 1)))
slow_path(d) == slow_scale(d, Normal([sig |-> d.sig, exp |-> 0], IF d.cut = 0 THEN 0 ELSE ERR_ULP \div 2))

Decimal(d) ==
    LET Or(fast) == IF fast # -1 THEN fast ELSE slow_path(d)
    IN IF d.sig < 2 ^ P /\ d.exp \in -MAX_EXACT .. MAX_EXACT
       THEN Nearest(Digits(d.sig), d.exp)                \* fast path 1: the processor's * and /
       ELSE Or(IF d.cut = 0 /\ d.exp > 1 - MAX_DEC_EXP /\ d.exp < MAX_DEC_EXP - SAFE_DIG - 1
               THEN fast_path_2(d.sig, d.exp) ELSE -1)

Raw == [t |-> "raw", w |-> 0]
TooLarge(neg, big, inf) == IF big THEN Raw
                           ELSE IF inf THEN Real((IF neg THEN 2 ^ (W - 1) ELSE 0) + INF)
                           ELSE [t |-> "err", w |-> 0]
Integer(neg, sig) == [t |-> IF neg THEN "sint" ELSE "uint", w |-> IF neg THEN (2 ^ W - sig) % 2 ^ W ELSE sig]

Sign(neg) == IF neg THEN 2 ^ (W - 1) ELSE 0
Wide(text, big) == IF big THEN Raw ELSE Real(Sign(text.neg) + Nearest(text.int, 0))
IntOf(text, big, len, n) ==
    IF len < SAFE_DIG \/ (len = SAFE_DIG /\ (text.neg => n <= 2 ^ (W - 1))) THEN Integer(text.neg, n)
    ELSE IF len > SAFE_DIG + 1 \/ n >= 2 ^ W THEN IF big THEN Raw ELSE None
    ELSE IF text.neg THEN Wide(text, big) ELSE Integer(FALSE, n)
\* An integer, as a float if it has no room; None if it is none.
read_int(text, big) == IF text.frac # <<>> \/ text.exp.dig # <<>> THEN None
                       ELSE IntOf(text, big, Len(text.int), Value(text.int))

Rounded(text, big, inf, raw) == IF raw = INF THEN TooLarge(text.neg, big, inf) ELSE Real(Sign(text.neg) + raw)
read_scaled(text, big, inf, d) ==
    IF d.exp < MIN_DEC_EXP - SAFE_DIG THEN Real(Sign(text.neg))
    ELSE IF d.exp > MAX_DEC_EXP THEN TooLarge(text.neg, big, inf)
    ELSE Rounded(text, big, inf, Decimal(d))
ExpOf(exp) == IF exp.neg THEN -Value(exp.dig) ELSE Value(exp.dig)
\* The digits in front of cut are the significand, rounded by the one there, if there is more.
read_cut(text, big, inf, chars, dot, cut, more) ==
    read_scaled(text, big, inf,
        [chars |-> chars, end |-> Len(chars) + 1, dot |-> dot,
         sig |-> Value(SelectSeq(SubSeq(chars, 1, cut - 1), LAMBDA c : c # Dot))
                 + (IF more /\ chars[cut] >= 5 THEN 1 ELSE 0),
         exp |-> dot - cut + (IF dot < cut THEN 1 ELSE 0) + ExpOf(text.exp),
         cut |-> IF more /\ \E i \in cut .. Len(chars) : chars[i] \notin {0, Dot} THEN cut ELSE 0])
read_behind(text, big, inf, chars, dot, behind) ==
    read_cut(text, big, inf, chars, dot, IF behind <= Len(chars) THEN behind ELSE Len(chars) + 1,
             behind <= Len(chars))
read_from(text, big, inf, chars, dot, first) ==
    LET many == \E i \in DOMAIN text.exp.dig : text.exp.dig[i] # 0 /\ i <= Len(text.exp.dig) - SAFE_DIG + 1
    IN IF first > Len(chars) \/ (many /\ text.exp.neg) THEN Real(Sign(text.neg))
       ELSE IF many THEN TooLarge(text.neg, big, inf)
       ELSE read_behind(text, big, inf, chars, dot,
                        first + SAFE_DIG + (IF dot \in first .. first + SAFE_DIG THEN 1 ELSE 0))
read_decimals(text, big, inf, chars) ==
    read_from(text, big, inf, chars, Len(text.int) + 1,
        CHOOSE i \in 1 .. Len(chars) + 1 : /\ \A j \in 1 .. i - 1 : chars[j] \in {0, Dot}
                                           /\ i > Len(chars) \/ chars[i] \notin {0, Dot})
read_num(text, big, inf) ==
    LET Or(int) ==
            IF int # None THEN int
            ELSE read_decimals(text, big, inf,
                               text.int \o (IF text.frac = <<>> THEN <<>> ELSE <<Dot>> \o text.frac))
    IN Or(read_int(text, big))

-----------------------------------------------------------------------------
Init == job \in Jobs /\ ret = None

Write == /\ job.op = "write" /\ ret = None
         /\ ret' = write_num(job.t, job.w, job.prec)
         /\ UNCHANGED job
Read == /\ job.op = "read" /\ ret = None
        /\ ret' = read_num(job.text, job.big, job.inf)
        /\ UNCHANGED job

Next == Write \/ Read

-----------------------------------------------------------------------------
(* Properties.                                                             *)

\* The digits of a text and their exponent.
Of(text) == [ds |-> text.int \o text.frac,
             e |-> ExpOf(text.exp) - Len(text.frac)]
IsReal == job.op = "write" /\ job.t = "real" /\ ret # None
raw_ == job.w % 2 ^ (W - 1)

\* A number written whole is read back as the same bits and type: the float with
\* its sign, an integer with its kind.  It is read so by anyone who reads right.
NumberIsRead ==
    job.op = "write" /\ ret # None /\ job.prec = 0 =>
        /\ read_num(ret, FALSE, FALSE) =
              [t |-> IF job.t = "sint" /\ job.w < 2 ^ (W - 1) THEN "uint" ELSE job.t, w |-> job.w]
        /\ job.t = "real" => IsNearest(Of(ret).ds, Of(ret).e, raw_)

\* No text with fewer digits is read as that float, and none with as many is
\* nearer to it: the decimal is the shortest one, and of these the closest.
ShortestIsClosest ==
    IsReal /\ job.prec = 0 /\ raw_ # 0 =>
        LET all == Of(ret)
            ds == Trimmed(all.ds)
            n == Value(ds)
            e == all.e + Len(all.ds) - Len(ds)
            Same(m, k) == m > 0 /\ IsNearest(Digits(m), k, raw_)
            Side(m) == Against(Digits(m), e, 2 * Bin(raw_), BinExp(raw_))    \* m / 2 against the float
        IN /\ n >= 10 => ~Same(n \div 10, e + 1) /\ ~Same((n \div 10) + 1, e + 1)
           /\ Same(n + 1, e) => Side(2 * n + 1) >= 0
           /\ Same(n - 1, e) => Side(2 * n - 1) <= 0

\* With so many decimals a number is the float itself, or the float rounded, half
\* up, to so many of them; 0 for all that are too small for a full significand.
FixedIsRounded ==
    IsReal /\ job.prec > 0 /\ raw_ < DOT_RAW =>
        LET all == Of(ret)
            n == 2 * Value(all.ds) * 10 ^ (job.prec - Len(ret.frac))
            Half(m) == Against(Digits(m), -job.prec, 2 * Bin(raw_), BinExp(raw_))
        IN /\ ret.exp = NoExp
           /\ \/ raw_ # 0 /\ IsNearest(all.ds, all.e, raw_)
              \/ Len(ret.frac) <= job.prec /\ (n = 0 \/ Half(n - 1) <= 0) /\ (raw_ = 0 \/ Half(n + 1) > 0)

\* "to get correctly rounded result for numbers with lots of digits": what is read
\* is the number nearest to the text, as an integer if it is one that fits.
ReadsRight ==
    job.op = "read" /\ ret # None =>
        LET of == Of(job.text)
        IN CASE ret.t \in {"uint", "sint"} -> job.text.frac = <<>> /\ job.text.exp = NoExp
                   /\ Value(of.ds) = (IF ret.t = "sint" THEN (2 ^ W - ret.w) % 2 ^ W ELSE ret.w)
             [] ret.t = "real" -> /\ (ret.w >= 2 ^ (W - 1)) = job.text.neg
                                  /\ IsNearest(of.ds, of.e, ret.w % 2 ^ (W - 1))
             [] ret.t = "err" -> IsNearest(of.ds, of.e, INF) /\ ~job.inf /\ ~job.big
             [] OTHER -> job.big
\* So it is unless more digits than the reader keeps are behind the first one that
\* is not 0, and the point is among those left out, or all of them are 0.
Rest(text) == LET ds == text.int \o text.frac
                  zeros == CHOOSE n \in 0 .. Len(ds) : /\ \A i \in 1 .. n : ds[i] = 0
                                                       /\ n = Len(ds) \/ ds[n + 1] # 0
              IN SubSeq(ds, zeros + MAX_DEC_DIG + 1, Len(ds))
ReadsNearest ==
    job.op = "read" /\ (Rest(job.text) = <<>> \/ (/\ \E d \in Range(Rest(job.text)) : d # 0
                                                  /\ Len(job.text.int) <= MAX_DEC_DIG + 1 \/ job.text.frac = <<>>))
        => ReadsRight
=============================================================================
