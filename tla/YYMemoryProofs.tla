--------------------------- MODULE YYMemoryProofs ---------------------------
(***************************************************************************)
(* The allocators of yyjson, for buffers of any size and any sizes that    *)
(* are asked for: blocks never overlap and nothing is lost.  What a free   *)
(* list does is split: which positions it has is said of sequences, which  *)
(* chunks lie where of sets of addresses, and what a caller sees of either *)
(* allocator is what the documents on top of them are proved with.         *)
(***************************************************************************)
EXTENDS YYMemory, FiniteSetTheorems, WellFoundedInduction, SequenceTheorems, TLAPS

-----------------------------------------------------------------------------
(* Least numbers and lists.                                                *)

\* A set of numbers has a least one.
LEMMA HasLeast ==
    ASSUME NEW T \in SUBSET Nat, T # {}
    PROVE  LeastOf(T) \in T /\ \A y \in T : LeastOf(T) <= y
<1> PICK t \in T : TRUE
  OBVIOUS
<1> DEFINE U == {x \in T : x <= t}
           Below(x) == 0 .. (x - 1)
           V == {Below(x) : x \in U}
<1>1. IsWellFoundedOn(StrictSubsetOrdering(0 .. t), FiniteSubsetsOf(0 .. t))
  BY FS_Interval, FS_StrictSubsetOrderingWellFounded
<1>2. V \subseteq FiniteSubsetsOf(0 .. t) /\ V # {}
  <2>1. \A x \in U : IsFiniteSet(Below(x)) /\ Below(x) \subseteq 0 .. t
    <3> TAKE x \in U
    <3>1. IsFiniteSet(0 .. (x - 1))
      BY FS_Interval
    <3> QED
      BY <3>1
  <2> QED
    BY <2>1 DEF FiniteSubsetsOf
<1>3. PICK d \in V : \A e \in V : ~(<<e, d>> \in StrictSubsetOrdering(0 .. t))
  <2> HIDE DEF V
  <2> QED
    BY <1>1, <1>2, WFMin
<1>4. PICK x \in U : d = Below(x)
  OBVIOUS
<1>5. \A y \in U : x <= y
  <2> SUFFICES ASSUME NEW y \in U, y < x PROVE FALSE
    OBVIOUS
  <2>1. Below(y) \in V /\ Below(y) \subseteq Below(x) /\ Below(y) # Below(x)
    <3>1. y \in Below(x) /\ y \notin Below(y)
      OBVIOUS
    <3> QED
      BY <3>1
  <2>2. <<Below(y), Below(x)>> \in StrictSubsetOrdering(0 .. t)
    BY <1>2, <2>1 DEF StrictSubsetOrdering, FiniteSubsetsOf
  <2> QED
    BY <1>3, <1>4, <2>1, <2>2
<1>6. x \in T /\ \A y \in T : x <= y
  BY <1>5
<1> QED
  BY <1>6 DEF LeastOf

\* What InsertAt does to each position.
LEMMA Inserted ==
    ASSUME NEW S, NEW s \in Seq(S), NEW e \in S, NEW n \in 0 .. Len(s)
    PROVE  /\ InsertAt(s, n + 1, e) \in Seq(S) /\ Len(InsertAt(s, n + 1, e)) = Len(s) + 1
           /\ \A k \in 1 .. n : InsertAt(s, n + 1, e)[k] = s[k]
           /\ InsertAt(s, n + 1, e)[n + 1] = e
           /\ \A k \in n + 1 .. Len(s) : InsertAt(s, n + 1, e)[k + 1] = s[k]
<1> DEFINE a == SubSeq(s, 1, n)
           b == SubSeq(s, n + 1, Len(s))
<1>1. Len(s) \in Nat /\ n \in Nat /\ (n + 1) - 1 = n /\ \A k \in 1 .. Len(s) : s[k] \in S
  OBVIOUS
<1>2. a \in Seq(S) /\ Len(a) = n /\ \A k \in 1 .. n : a[k] = s[k]
  <2>1. \A k \in 1 .. n : s[k] \in S
    BY <1>1
  <2>2. /\ a \in Seq(S) /\ Len(a) = IF 1 <= n THEN n - 1 + 1 ELSE 0
        /\ \A k \in 1 .. n - 1 + 1 : a[k] = s[1 + k - 1]
    BY <1>1, <2>1, SubSeqProperties
  <2> QED
    BY <1>1, <2>2
<1>3. b \in Seq(S) /\ Len(b) = Len(s) - n /\ \A k \in 1 .. Len(s) - n : b[k] = s[n + k]
  <2>1. \A k \in n + 1 .. Len(s) : s[k] \in S
    BY <1>1
  <2>2. /\ b \in Seq(S) /\ Len(b) = IF n + 1 <= Len(s) THEN Len(s) - (n + 1) + 1 ELSE 0
        /\ \A k \in 1 .. Len(s) - (n + 1) + 1 : b[k] = s[n + 1 + k - 1]
    BY <1>1, <2>1, SubSeqProperties
  <2> QED
    BY <1>1, <2>2
<1> HIDE DEF a, b
<1>4. <<e>> \in Seq(S) /\ Len(<<e>>) = 1 /\ <<e>>[1] = e
  OBVIOUS
<1> DEFINE c == a \o <<e>>
<1>5. c \in Seq(S) /\ Len(c) = n + 1 /\ \A k \in 1 .. n + 1 : c[k] = IF k <= n THEN a[k] ELSE <<e>>[k - n]
  BY <1>2, <1>4, ConcatProperties
<1> HIDE DEF c
<1>6. /\ c \o b \in Seq(S) /\ Len(c \o b) = Len(c) + Len(b)
      /\ \A k \in 1 .. Len(c) + Len(b) : (c \o b)[k] = IF k <= Len(c) THEN c[k] ELSE b[k - Len(c)]
  BY <1>3, <1>5, ConcatProperties
<1>7. InsertAt(s, n + 1, e) = c \o b
  <2>1. (n + 1) - 1 = n
    BY <1>1
  <2>2. InsertAt(s, n + 1, e) = SubSeq(s, 1, (n + 1) - 1) \o <<e>> \o SubSeq(s, n + 1, Len(s))
    BY DEF InsertAt
  <2>3. SubSeq(s, 1, (n + 1) - 1) = a
    BY ONLY <2>1 DEF a
  <2> QED
    BY <2>2, <2>3 DEF b, c
<1> DEFINE t == c \o b
<1>8. t \in Seq(S) /\ Len(t) = Len(s) + 1
  BY <1>1, <1>3, <1>5, <1>6
<1>9. ASSUME NEW k \in 1 .. n PROVE t[k] = s[k]
  BY <1>1, <1>2, <1>3, <1>5, <1>6
<1>10. t[n + 1] = e
  <2>1. n + 1 - n = 1 /\ n + 1 \in 1 .. Len(c) + Len(b) /\ n + 1 <= Len(c) /\ ~(n + 1 <= n)
    BY <1>1, <1>3, <1>5
  <2> QED
    BY <1>1, <1>4, <1>5, <1>6, <2>1
<1>11. ASSUME NEW k \in n + 1 .. Len(s) PROVE t[k + 1] = s[k]
  <2>1. k + 1 \in 1 .. Len(c) + Len(b) /\ ~(k + 1 <= Len(c)) /\ k + 1 - Len(c) = k - n
        /\ k - n \in 1 .. Len(s) - n /\ n + (k - n) = k
    BY <1>1, <1>3, <1>5
  <2>2. t[k + 1] = b[k + 1 - Len(c)]
    BY <1>6, <2>1
  <2>3. b[k - n] = s[n + (k - n)]
    BY <1>3, <2>1
  <2> QED
    BY <2>1, <2>2, <2>3
<1> QED
  BY <1>7, <1>8, <1>9, <1>10, <1>11

\* What RemoveAt does to each position.
LEMMA Removed ==
    ASSUME NEW S, NEW s \in Seq(S), NEW i \in 1 .. Len(s)
    PROVE  LET t == RemoveAt(s, i)
           IN  /\ t \in Seq(S) /\ Len(t) = Len(s) - 1
               /\ \A k \in 1 .. Len(s) - 1 : t[k] = IF k < i THEN s[k] ELSE s[k + 1]
<1> DEFINE a == SubSeq(s, 1, i - 1)
           b == SubSeq(s, i + 1, Len(s))
<1>1. Len(s) \in Nat /\ i \in Nat /\ i >= 1 /\ i <= Len(s) /\ \A k \in 1 .. Len(s) : s[k] \in S
  OBVIOUS
<1>2. a \in Seq(S) /\ Len(a) = i - 1 /\ \A k \in 1 .. i - 1 : a[k] = s[k]
  <2>1. i - 1 \in Int /\ \A k \in 1 .. i - 1 : s[k] \in S
    BY <1>1
  <2>2. /\ a \in Seq(S) /\ Len(a) = IF 1 <= i - 1 THEN i - 1 - 1 + 1 ELSE 0
        /\ \A k \in 1 .. i - 1 - 1 + 1 : a[k] = s[1 + k - 1]
    BY <1>1, <2>1, SubSeqProperties
  <2> QED
    BY <1>1, <2>2
<1>3. b \in Seq(S) /\ Len(b) = Len(s) - i /\ \A k \in 1 .. Len(s) - i : b[k] = s[i + k]
  <2>1. i + 1 \in Int /\ Len(s) \in Int /\ \A k \in i + 1 .. Len(s) : s[k] \in S
    BY <1>1
  <2>2. /\ b \in Seq(S) /\ Len(b) = IF i + 1 <= Len(s) THEN Len(s) - (i + 1) + 1 ELSE 0
        /\ \A k \in 1 .. Len(s) - (i + 1) + 1 : b[k] = s[i + 1 + k - 1]
    BY <2>1, SubSeqProperties
  <2> QED
    BY <1>1, <2>2
<1> HIDE DEF a, b
<1>4. /\ a \o b \in Seq(S) /\ Len(a \o b) = Len(a) + Len(b)
      /\ \A k \in 1 .. Len(a) + Len(b) : (a \o b)[k] = IF k <= Len(a) THEN a[k] ELSE b[k - Len(a)]
  BY <1>2, <1>3, ConcatProperties
<1>5. RemoveAt(s, i) = a \o b
  BY DEF RemoveAt, a, b
<1>6. ASSUME NEW k \in 1 .. Len(s) - 1
      PROVE  (a \o b)[k] = IF k < i THEN s[k] ELSE s[k + 1]
  <2>1. CASE k < i
    BY <1>1, <1>2, <1>3, <1>4, <2>1
  <2>2. CASE ~(k < i)
    <3>1. k \in 1 .. Len(a) + Len(b) /\ ~(k <= Len(a)) /\ k - Len(a) = k - i + 1
          /\ k - i + 1 \in 1 .. Len(s) - i /\ i + (k - i + 1) = k + 1
      BY <1>1, <1>2, <1>3, <2>2
    <3> QED
      BY <1>3, <1>4, <2>2, <3>1
  <2> QED
    BY <2>1, <2>2
<1>7. a \o b \in Seq(S) /\ Len(a \o b) = Len(s) - 1
  BY <1>1, <1>2, <1>3, <1>4
<1> QED
  BY <1>5, <1>6, <1>7

Ordered(s, w) == \A i, j \in 1 .. Len(s) : i < j => w[s[i]] <= w[s[j]]

\* A list without the one at i.
LEMMA RemovedFrom ==
    ASSUME NEW S, NEW s \in Seq(S), NEW i \in 1 .. Len(s), NEW w, OnlyOnce(s), Ordered(s, w)
    PROVE  LET t == RemoveAt(s, i)
           IN  /\ t \in Seq(S) /\ OnlyOnce(t) /\ Ordered(t, w)
               /\ \A x : x \in Range(t) <=> x \in Range(s) /\ x # s[i]
<1> DEFINE t == RemoveAt(s, i)
           m(k) == IF k < i THEN k ELSE k + 1
<1>1. /\ t \in Seq(S) /\ Len(t) = Len(s) - 1 /\ DOMAIN t = 1 .. Len(s) - 1 /\ DOMAIN s = 1 .. Len(s)
      /\ \A k \in 1 .. Len(s) - 1 : t[k] = IF k < i THEN s[k] ELSE s[k + 1]
  <2>1. /\ t \in Seq(S) /\ Len(t) = Len(s) - 1
        /\ \A k \in 1 .. Len(s) - 1 : t[k] = IF k < i THEN s[k] ELSE s[k + 1]
    BY Removed
  <2> HIDE DEF t
  <2> QED
    BY <2>1
<1> HIDE DEF t
<1>2. Len(s) \in Nat /\ i \in Nat /\ 1 <= i /\ i <= Len(s)
  OBVIOUS
<1>3. \A k \in 1 .. Len(s) - 1 : m(k) \in 1 .. Len(s) /\ m(k) # i /\ t[k] = s[m(k)]
  BY <1>1, <1>2
<1>4. \A j, k \in 1 .. Len(s) - 1 : (m(j) = m(k) => j = k) /\ (j < k => m(j) < m(k))
  BY <1>2
<1>5. \A x \in 1 .. Len(s) : x # i => \E k \in 1 .. Len(s) - 1 : m(k) = x
  <2> TAKE x \in 1 .. Len(s)
  <2> HAVE x # i
  <2>1. CASE x < i
    <3>1. x \in 1 .. Len(s) - 1 /\ m(x) = x
      BY <1>2, <2>1
    <3> QED
      BY <3>1
  <2>2. CASE x > i
    <3>1. x - 1 \in 1 .. Len(s) - 1 /\ m(x - 1) = x
      BY <1>2, <2>2
    <3> QED
      BY <3>1
  <2> QED
    BY <1>2, <2>1, <2>2
<1> HIDE DEF m
<1>6. OnlyOnce(t)
  BY <1>1, <1>3, <1>4 DEF OnlyOnce
<1>7. Ordered(t, w)
  <2>1. ASSUME NEW j \in 1 .. Len(t), NEW k \in 1 .. Len(t), j < k PROVE w[t[j]] <= w[t[k]]
    BY <1>1, <1>3, <1>4, <2>1 DEF Ordered
  <2> QED
    BY <2>1 DEF Ordered
<1>8. Range(t) = Range(s) \ {s[i]}
  <2>1. ASSUME NEW x \in Range(t) PROVE x \in Range(s) \ {s[i]}
    <3>1. PICK k \in 1 .. Len(s) - 1 : x = t[k]
      BY <1>1, <2>1 DEF Range
    <3> QED
      BY <1>1, <1>3, <3>1 DEF Range, OnlyOnce
  <2>2. ASSUME NEW x \in Range(s) \ {s[i]} PROVE x \in Range(t)
    <3>1. PICK j \in 1 .. Len(s) : x = s[j] /\ j # i
      BY <1>1, <2>2 DEF Range
    <3>2. PICK k \in 1 .. Len(s) - 1 : m(k) = j
      BY <1>5, <3>1
    <3> QED
      BY <1>1, <1>3, <3>1, <3>2 DEF Range
  <2> QED
    BY <2>1, <2>2
<1> QED
  BY <1>1, <1>6, <1>7, <1>8 DEF t

\* A list with one more, behind the first n.
LEMMA InsertedInto ==
    ASSUME NEW S, NEW s \in Seq(S), NEW e \in S, NEW n \in 0 .. Len(s), NEW w,
           OnlyOnce(s), Ordered(s, w), e \notin Range(s),
           \A k \in 1 .. Len(s) : IF k <= n THEN w[s[k]] <= w[e] ELSE w[e] <= w[s[k]]
    PROVE  LET t == InsertAt(s, n + 1, e)
           IN  /\ t \in Seq(S) /\ OnlyOnce(t) /\ Ordered(t, w)
               /\ \A x : x \in Range(t) <=> x \in Range(s) \/ x = e
               /\ Len(t) = Len(s) + 1 /\ t[n + 1] = e
<1> DEFINE t == InsertAt(s, n + 1, e)
           m(k) == IF k <= n THEN k ELSE k - 1
<1>1. /\ t \in Seq(S) /\ Len(t) = Len(s) + 1 /\ DOMAIN t = 1 .. Len(s) + 1 /\ DOMAIN s = 1 .. Len(s)
      /\ \A k \in 1 .. n : t[k] = s[k]
      /\ t[n + 1] = e
      /\ \A k \in n + 1 .. Len(s) : t[k + 1] = s[k]
  <2>1. /\ t \in Seq(S) /\ Len(t) = Len(s) + 1
        /\ \A k \in 1 .. n : t[k] = s[k]
        /\ t[n + 1] = e
        /\ \A k \in n + 1 .. Len(s) : t[k + 1] = s[k]
    <3> HIDE DEF m
    <3>1. t \in Seq(S) /\ Len(t) = Len(s) + 1
      BY Inserted
    <3>2. \A k \in 1 .. n : t[k] = s[k]
      BY Inserted
    <3>3. t[n + 1] = e
      BY Inserted
    <3>4. \A k \in n + 1 .. Len(s) : t[k + 1] = s[k]
      BY Inserted
    <3> QED
      BY <3>1, <3>2, <3>3, <3>4
  <2> HIDE DEF t
  <2> QED
    BY <2>1
<1> HIDE DEF t
<1>2. Len(s) \in Nat /\ n \in Nat /\ n <= Len(s)
  OBVIOUS
<1>3. ASSUME NEW k \in 1 .. Len(s) + 1, k # n + 1
      PROVE  m(k) \in 1 .. Len(s) /\ t[k] = s[m(k)] /\ (k < n + 1 <=> m(k) <= n)
  <2>1. CASE k <= n
    BY <1>1, <1>2, <1>3, <2>1
  <2>2. CASE ~(k <= n)
    <3>1. k - 1 \in n + 1 .. Len(s) /\ (k - 1) + 1 = k
      BY <1>2, <1>3, <2>2
    <3> QED
      BY <1>1, <1>2, <2>2, <3>1
  <2> QED
    BY <2>1, <2>2
<1>4. \A j, k \in 1 .. Len(s) + 1 : j # n + 1 /\ k # n + 1 =>
        (m(j) = m(k) => j = k) /\ (j < k => m(j) < m(k))
  BY <1>2
<1>5. \A x \in 1 .. Len(s) : \E k \in 1 .. Len(s) + 1 : k # n + 1 /\ m(k) = x
  <2> TAKE x \in 1 .. Len(s)
  <2>1. CASE x <= n
    <3>1. x \in 1 .. Len(s) + 1 /\ m(x) = x /\ x # n + 1
      BY <1>2, <2>1
    <3> QED
      BY <3>1
  <2>2. CASE x > n
    <3>1. x + 1 \in 1 .. Len(s) + 1 /\ m(x + 1) = x /\ x + 1 # n + 1
      BY <1>2, <2>2
    <3> QED
      BY <3>1
  <2> QED
    BY <1>2, <2>1, <2>2
<1> HIDE DEF m
<1>6. OnlyOnce(t)
  <2>1. ASSUME NEW j \in 1 .. Len(s) + 1, NEW k \in 1 .. Len(s) + 1, t[j] = t[k], j # k PROVE FALSE
    <3>1. CASE j = n + 1
      BY <1>1, <1>3, <2>1, <3>1 DEF Range
    <3>2. CASE k = n + 1
      BY <1>1, <1>3, <2>1, <3>2 DEF Range
    <3>3. CASE j # n + 1 /\ k # n + 1
      BY <1>1, <1>3, <1>4, <2>1, <3>3 DEF OnlyOnce
    <3> QED
      BY <3>1, <3>2, <3>3
  <2> QED
    BY <1>1, <2>1 DEF OnlyOnce
<1>7. Ordered(t, w)
  <2>1. ASSUME NEW j \in 1 .. Len(s) + 1, NEW k \in 1 .. Len(s) + 1, j < k PROVE w[t[j]] <= w[t[k]]
    <3>1. CASE j = n + 1
      <4>1. k # n + 1 /\ ~(k < n + 1)
        BY <1>2, <2>1, <3>1
      <4>2. m(k) \in 1 .. Len(s) /\ t[k] = s[m(k)] /\ ~(m(k) <= n)
        BY <1>3, <4>1
      <4> QED
        BY <1>1, <3>1, <4>2
    <3>2. CASE k = n + 1
      <4>1. j # n + 1 /\ j < n + 1
        BY <1>2, <2>1, <3>2
      <4>2. m(j) \in 1 .. Len(s) /\ t[j] = s[m(j)] /\ m(j) <= n
        BY <1>3, <4>1
      <4> QED
        BY <1>1, <3>2, <4>2
    <3>3. CASE j # n + 1 /\ k # n + 1
      BY <1>1, <1>3, <1>4, <2>1, <3>3 DEF Ordered
    <3> QED
      BY <3>1, <3>2, <3>3
  <2> QED
    BY <1>1, <2>1 DEF Ordered
<1>8. Range(t) = Range(s) \cup {e}
  <2>1. ASSUME NEW x \in Range(t) PROVE x \in Range(s) \cup {e}
    <3>1. PICK k \in 1 .. Len(s) + 1 : x = t[k]
      BY <1>1, <2>1 DEF Range
    <3> QED
      BY <1>1, <1>3, <3>1 DEF Range
  <2>2. ASSUME NEW x \in Range(s) PROVE x \in Range(t)
    <3>1. PICK j \in 1 .. Len(s) : x = s[j]
      BY <1>1, <2>2 DEF Range
    <3>2. PICK k \in 1 .. Len(s) + 1 : k # n + 1 /\ m(k) = j
      BY <1>5, <3>1
    <3> QED
      BY <1>1, <1>3, <3>1, <3>2 DEF Range
  <2>3. e \in Range(t)
    <3>1. n + 1 \in DOMAIN t
      BY <1>1, <1>2
    <3> QED
      BY <1>1, <3>1 DEF Range
  <2> QED
    BY <2>1, <2>2, <2>3
<1> QED
  BY <1>1, <1>6, <1>7, <1>8 DEF t

\* A list in which another takes the place of the one at i.
LEMMA ReplacedIn ==
    ASSUME NEW S, NEW s \in Seq(S), NEW e \in S, NEW i \in 1 .. Len(s), NEW w,
           OnlyOnce(s), Ordered(s, w), e \notin Range(s) \ {s[i]},
           \A k \in 1 .. Len(s) : /\ k < i => w[s[k]] <= w[e]
                                  /\ k > i => w[e] <= w[s[k]]
    PROVE  LET t == [s EXCEPT ![i] = e]
           IN  /\ t \in Seq(S) /\ OnlyOnce(t) /\ Ordered(t, w)
               /\ \A x : x \in Range(t) <=> (x \in Range(s) /\ x # s[i]) \/ x = e
<1> DEFINE t == [s EXCEPT ![i] = e]
<1>1. /\ t \in Seq(S) /\ Len(t) = Len(s) /\ DOMAIN t = 1 .. Len(s) /\ DOMAIN s = 1 .. Len(s)
      /\ \A k \in 1 .. Len(s) : t[k] = IF k = i THEN e ELSE s[k]
  BY ExceptSeq
<1> HIDE DEF t
<1>2. \A k \in 1 .. Len(s) : k # i => s[k] \in Range(s) /\ s[k] # s[i] /\ s[k] # e
  BY <1>1 DEF Range, OnlyOnce
<1>3. OnlyOnce(t)
  BY <1>1, <1>2 DEF OnlyOnce
<1>4. Ordered(t, w)
  <2>1. ASSUME NEW j \in 1 .. Len(s), NEW k \in 1 .. Len(s), j < k PROVE w[t[j]] <= w[t[k]]
    <3>1. CASE j = i
      BY <1>1, <2>1, <3>1
    <3>2. CASE k = i
      BY <1>1, <2>1, <3>2
    <3>3. CASE j # i /\ k # i
      BY <1>1, <2>1, <3>3 DEF Ordered
    <3> QED
      BY <3>1, <3>2, <3>3
  <2> QED
    BY <1>1, <2>1 DEF Ordered
<1>5. Range(t) = (Range(s) \ {s[i]}) \cup {e}
  BY <1>1, <1>2 DEF Range
<1> QED
  BY <1>1, <1>3, <1>4, <1>5 DEF t

Place == [x \in Nat |-> x]
Upward(s) == \A i, j \in 1 .. Len(s) : i < j => s[i] < s[j]

\* Addresses that ascend are addresses in order, each once.
LEMMA UpwardIs ==
    ASSUME NEW s \in Seq(Nat)
    PROVE  Upward(s) <=> OnlyOnce(s) /\ Ordered(s, Place)
<1>1. DOMAIN s = 1 .. Len(s) /\ \A i \in 1 .. Len(s) : s[i] \in Nat /\ Place[s[i]] = s[i]
  BY DEF Place
<1>2. Ordered(s, Place) <=> \A i, j \in 1 .. Len(s) : i < j => s[i] <= s[j]
  BY <1>1 DEF Ordered
<1>3. ASSUME Upward(s) PROVE OnlyOnce(s)
  <2>1. ASSUME NEW i \in 1 .. Len(s), NEW j \in 1 .. Len(s), i # j PROVE s[i] # s[j]
    <3>1. i < j \/ j < i
      BY <2>1
    <3> QED
      BY <1>1, <1>3, <3>1 DEF Upward
  <2> QED
    BY <1>1, <2>1 DEF OnlyOnce
<1>4. ASSUME Upward(s) PROVE Ordered(s, Place)
  BY <1>1, <1>2, <1>4 DEF Upward
<1>5. ASSUME OnlyOnce(s), Ordered(s, Place) PROVE Upward(s)
  <2>1. ASSUME NEW i \in 1 .. Len(s), NEW j \in 1 .. Len(s), i < j PROVE s[i] < s[j]
    <3>1. s[i] <= s[j] /\ i # j
      BY <1>2, <1>5, <2>1
    <3>2. s[i] # s[j]
      BY <1>1, <1>5, <3>1 DEF OnlyOnce
    <3> QED
      BY <1>1, <3>1, <3>2
  <2> QED
    BY <2>1 DEF Upward
<1> QED
  BY <1>3, <1>4, <1>5

\* Where the walk along a free list ends, for a chunk that is not in it.
LEMMA WalkEnds ==
    ASSUME NEW p, p.free \in Seq(Nat), Upward(p.free), NEW cur \in Nat, cur \notin Range(p.free)
    PROVE  /\ Passed(p, cur) \in 0 .. Len(p.free)
           /\ \A k \in 1 .. Len(p.free) : IF k <= Passed(p, cur) THEN p.free[k] < cur
                                          ELSE p.free[k] > cur
<1> DEFINE s == p.free
           T == {n \in 0 .. Len(s) : n < Len(s) => s[n + 1] >= cur}
           n == Passed(p, cur)
<1>1. Len(s) \in Nat /\ DOMAIN s = 1 .. Len(s) /\ \A k \in 1 .. Len(s) : s[k] \in Nat /\ s[k] # cur
  BY DEF Range
<1>2. T \in SUBSET Nat /\ Len(s) \in T
  BY <1>1
<1>3. n = LeastOf(T)
  BY DEF Passed
<1>4. n \in T /\ \A y \in T : n <= y
  BY <1>2, <1>3, HasLeast
<1> HIDE DEF n
<1>5. ASSUME NEW k \in 1 .. Len(s), k <= n PROVE s[k] < cur
  <2>1. k - 1 \in 0 .. Len(s) /\ k - 1 < Len(s) /\ (k - 1) + 1 = k /\ ~(n <= k - 1)
    BY <1>1, <1>4, <1>5
  <2>2. ~(s[k] >= cur)
    BY <1>4, <2>1
  <2> QED
    BY <1>1, <2>2
<1>6. ASSUME NEW k \in 1 .. Len(s), ~(k <= n) PROVE s[k] > cur
  <2>1. n \in 0 .. Len(s) /\ n < Len(s) /\ n + 1 \in 1 .. Len(s) /\ (n + 1 = k \/ n + 1 < k)
    BY <1>1, <1>4, <1>6
  <2>2. s[n + 1] > cur
    BY <1>1, <1>4, <2>1
  <2> QED
    BY <1>1, <2>1, <2>2 DEF Upward
<1> QED
  BY <1>4, <1>5, <1>6 DEF n

-----------------------------------------------------------------------------
(* Chunks that cover the buffer of the pool allocator up to e.             *)

Hdrs == UNION {[D -> Nat] : D \in SUBSET Nat}
Cover(h, e) ==
    /\ DOMAIN h \subseteq Nat /\ 0 \in DOMAIN h
    /\ \A c \in DOMAIN h : /\ h[c] \in Nat /\ h[c] > 0
                           /\ c + h[c] <= e
                           /\ c + h[c] = e \/ c + h[c] \in DOMAIN h
    /\ \A c, d \in DOMAIN h : c < d => c + h[c] <= d
Gaps(h, F) == \A c, d \in F : c < d => c + h[c] < d

\* What becomes of the chunks when c is split in two, and when it takes in d.
IsSplit(g, h, e, c, n) ==
    /\ Cover(g, e) /\ g \in Hdrs /\ DOMAIN g = DOMAIN h \cup {c + n} /\ c + n \notin DOMAIN h
    /\ g[c] = n /\ g[c + n] = h[c] - n
    /\ \A x \in DOMAIN h \ {c} : g[x] = h[x]
IsMerged(g, h, e, c, d) ==
    /\ Cover(g, e) /\ g \in Hdrs /\ DOMAIN g = DOMAIN h \ {d} /\ c # d
    /\ g[c] = h[c] + h[d]
    /\ \A x \in DOMAIN h \ {c, d} : g[x] = h[x]

\* A chunk is split in two.
LEMMA SplitCover ==
    ASSUME NEW h, NEW e \in Nat, Cover(h, e),
           NEW c \in DOMAIN h, NEW n \in Nat, 0 < n, n < h[c]
    PROVE  IsSplit(Split(h, c, n), h, e, c, n)
<1> DEFINE g == Split(h, c, n)
<1>1. DOMAIN h \subseteq Nat /\ c \in Nat /\ h[c] \in Nat /\ c + n # c
  BY DEF Cover
<1>2. c + n \notin DOMAIN h
  BY <1>1 DEF Cover
<1>3. /\ DOMAIN g = DOMAIN h \cup {c + n} /\ g[c] = n /\ g[c + n] = h[c] - n
      /\ \A x \in DOMAIN h \ {c} : g[x] = h[x]
  BY <1>1, <1>2 DEF Split, With
<1>4. g = [x \in DOMAIN g |-> g[x]]
  BY DEF Split, With
<1> HIDE DEF g
<1>5. ASSUME NEW x \in DOMAIN g
      PROVE  g[x] \in Nat /\ g[x] > 0 /\ x + g[x] <= e /\ (x + g[x] = e \/ x + g[x] \in DOMAIN g)
  <2>1. CASE x = c
    BY <1>1, <1>3, <2>1 DEF Cover
  <2>2. CASE x = c + n
    <3>1. (c + n) + (h[c] - n) = c + h[c] /\ h[c] - n \in Nat /\ h[c] - n > 0
      BY <1>1
    <3> QED
      BY <1>1, <1>3, <2>2, <3>1 DEF Cover
  <2>3. CASE x \in DOMAIN h \ {c}
    BY <1>3, <2>3 DEF Cover
  <2> QED
    BY <1>3, <2>1, <2>2, <2>3
<1>6. ASSUME NEW x \in DOMAIN g, NEW y \in DOMAIN g, x < y PROVE x + g[x] <= y
  <2>1. CASE x = c /\ y \in DOMAIN h
    BY <1>1, <1>3, <1>6, <2>1 DEF Cover
  <2>2. CASE x = c /\ y = c + n
    BY <1>1, <1>3, <1>6, <2>2 DEF Cover
  <2>3. CASE x = c + n /\ y \in DOMAIN h
    <3>1. (c + n) + (h[c] - n) = c + h[c] /\ c < y
      BY <1>1, <1>6, <2>3
    <3> QED
      BY <1>1, <1>3, <2>3, <3>1 DEF Cover
  <2>4. CASE x \in DOMAIN h \ {c} /\ y \in DOMAIN h
    BY <1>3, <1>6, <2>4 DEF Cover
  <2>5. CASE x \in DOMAIN h \ {c} /\ y = c + n
    <3>1. x \in Nat /\ h[x] \in Nat /\ (x < c \/ c < x)
      BY <1>1, <2>5 DEF Cover
    <3>2. CASE x < c
      BY <1>1, <1>3, <2>5, <3>1, <3>2 DEF Cover
    <3>3. CASE c < x
      BY <1>1, <1>6, <2>5, <3>1, <3>3 DEF Cover
    <3> QED
      BY <3>1, <3>2, <3>3
  <2> QED
    BY <1>1, <1>3, <1>6, <2>1, <2>2, <2>3, <2>4, <2>5
<1>7. Cover(g, e)
  BY <1>1, <1>3, <1>5, <1>6 DEF Cover
<1>8. g \in Hdrs
  <2>1. g \in [DOMAIN g -> Nat] /\ DOMAIN g \subseteq Nat
    BY <1>1, <1>3, <1>5, <1>4
  <2> QED
    BY <2>1 DEF Hdrs
<1> QED
  BY <1>2, <1>3, <1>7, <1>8 DEF g, IsSplit

\* A chunk takes in the one that follows it.
LEMMA MergeCover ==
    ASSUME NEW h, NEW e \in Nat, Cover(h, e),
           NEW c \in DOMAIN h, NEW d \in DOMAIN h, c + h[c] = d
    PROVE  IsMerged(Merged(h, c, d), h, e, c, d)
<1> DEFINE g == Merged(h, c, d)
<1>1. DOMAIN h \subseteq Nat /\ c \in Nat /\ h[c] \in Nat /\ h[c] > 0 /\ d \in Nat /\ h[d] \in Nat /\ c < d
  BY DEF Cover
<1>2. /\ DOMAIN g = DOMAIN h \ {d} /\ g[c] = h[c] + h[d]
      /\ \A x \in DOMAIN h \ {c, d} : g[x] = h[x]
  BY <1>1 DEF Merged
<1>3. g = [x \in DOMAIN g |-> g[x]]
  BY DEF Merged
<1> HIDE DEF g
<1>4. ASSUME NEW x \in DOMAIN g
      PROVE  g[x] \in Nat /\ g[x] > 0 /\ x + g[x] <= e /\ (x + g[x] = e \/ x + g[x] \in DOMAIN g)
  <2>1. CASE x = c
    <3>1. c + (h[c] + h[d]) = d + h[d] /\ d + h[d] # d
      BY <1>1 DEF Cover
    <3> QED
      BY <1>1, <1>2, <2>1, <3>1 DEF Cover
  <2>2. CASE x # c
    <3>1. x \in DOMAIN h /\ x # d /\ x \in Nat /\ h[x] \in Nat /\ h[x] > 0 /\ g[x] = h[x]
      BY <1>2, <2>2 DEF Cover
    <3>2. x + h[x] # d
      <4>1. CASE x < c
        BY <1>1, <3>1, <4>1 DEF Cover
      <4>2. CASE c < x
        BY <1>1, <3>1, <4>2 DEF Cover
      <4> QED
        BY <1>1, <2>2, <3>1, <4>1, <4>2
    <3> QED
      BY <1>2, <3>1, <3>2 DEF Cover
  <2> QED
    BY <2>1, <2>2
<1>5. ASSUME NEW x \in DOMAIN g, NEW y \in DOMAIN g, x < y PROVE x + g[x] <= y
  <2>1. CASE x = c
    <3>1. y \in DOMAIN h /\ y # d /\ y \in Nat /\ c < y /\ d <= y
      BY <1>1, <1>2, <1>5, <2>1 DEF Cover
    <3>2. d + h[d] <= y
      BY <1>1, <3>1 DEF Cover
    <3> QED
      BY <1>1, <1>2, <2>1, <3>1, <3>2
  <2>2. CASE x # c
    BY <1>2, <1>5, <2>2 DEF Cover
  <2> QED
    BY <2>1, <2>2
<1>6. Cover(g, e)
  <2>1. 0 \in DOMAIN g
    BY <1>1, <1>2 DEF Cover
  <2> QED
    BY <1>1, <1>2, <1>4, <1>5, <2>1 DEF Cover
<1>7. g \in Hdrs
  <2>1. g \in [DOMAIN g -> Nat] /\ DOMAIN g \subseteq Nat
    BY <1>1, <1>2, <1>4, <1>3
  <2> QED
    BY <2>1 DEF Hdrs
<1> QED
  BY <1>1, <1>2, <1>6, <1>7 DEF g, IsMerged

-----------------------------------------------------------------------------
(* The pool allocator.  O are the blocks that somebody owns.               *)

PoolType == [size : Nat, hdr : Hdrs, free : Seq(Nat)]
PoolInv(p, O) ==
    /\ p \in PoolType /\ p.size >= Header
    /\ Cover(p.hdr, p.size - Header)
    /\ Upward(p.free) /\ Range(p.free) = DOMAIN p.hdr \ O /\ O \subseteq DOMAIN p.hdr
    /\ Gaps(p.hdr, Range(p.free))

\* Sizes are rounded up.
LEMMA PoolSize == ASSUME NEW n \in Nat PROVE pool_size_align(n) \in Nat /\ pool_size_align(n) >= n + Header
<1>1. ((n + 2 - 1) \div 2) * 2 >= n /\ ((n + 2 - 1) \div 2) * 2 \in Nat
  OBVIOUS
<1>2. pool_size_align(n) = ((n + 2 - 1) \div 2) * 2 + 2
  BY DEF pool_size_align, Up, Header
<1> QED
  BY <1>1, <1>2 DEF Header
\* The dynamic allocator rounds up as well.
LEMMA DynSize == ASSUME NEW n \in Nat PROVE dyn_size_align(n) \in Nat /\ dyn_size_align(n) >= n + Header
<1>1. ((n + 2 + 4 - 1) \div 4) * 4 >= n + 2 /\ ((n + 2 + 4 - 1) \div 4) * 4 \in Nat
  OBVIOUS
<1>2. dyn_size_align(n) = ((n + 2 + 4 - 1) \div 4) * 4
  BY DEF dyn_size_align, Up, Header
<1> QED
  BY <1>1, <1>2 DEF Header

\* What each field of a pool is.
LEMMA PoolFields ==
    ASSUME NEW p, NEW O, PoolInv(p, O)
    PROVE  /\ p.size \in Nat /\ p.hdr \in Hdrs /\ p.free \in Seq(Nat) /\ p.size - Header \in Nat
           /\ OnlyOnce(p.free) /\ Ordered(p.free, Place)
           /\ DOMAIN p.free = 1 .. Len(p.free) /\ Len(p.free) \in Nat
           /\ DOMAIN p.hdr \subseteq Nat
           /\ \A i \in 1 .. Len(p.free) : /\ p.free[i] \in Nat /\ Place[p.free[i]] = p.free[i]
                                          /\ p.free[i] \in Range(p.free)
           /\ Range(p.free) \subseteq DOMAIN p.hdr
           /\ \A x \in Range(p.free) : \E i \in 1 .. Len(p.free) : x = p.free[i]
           /\ \A c \in DOMAIN p.hdr : p.hdr[c] \in Nat /\ p.hdr[c] > 0
<1>1. p.size \in Nat /\ p.hdr \in Hdrs /\ p.free \in Seq(Nat) /\ p.size - Header \in Nat
  BY DEF PoolInv, PoolType, Header
<1>2. OnlyOnce(p.free) /\ Ordered(p.free, Place)
  BY <1>1, UpwardIs DEF PoolInv
<1>3. DOMAIN p.free = 1 .. Len(p.free) /\ Len(p.free) \in Nat /\ \A i \in 1 .. Len(p.free) : p.free[i] \in Nat
  BY <1>1
<1>4. \A i \in 1 .. Len(p.free) : Place[p.free[i]] = p.free[i] /\ p.free[i] \in Range(p.free)
  BY <1>3 DEF Place, Range
<1>5. \A x \in Range(p.free) : \E i \in 1 .. Len(p.free) : x = p.free[i]
  BY <1>3 DEF Range
<1>6. DOMAIN p.hdr \subseteq Nat /\ \A c \in DOMAIN p.hdr : p.hdr[c] \in Nat /\ p.hdr[c] > 0
  BY DEF PoolInv, Cover
<1>7. Range(p.free) \subseteq DOMAIN p.hdr
  BY DEF PoolInv
<1> QED
  BY <1>1, <1>2, <1>3, <1>4, <1>5, <1>6, <1>7

\* An address is its own place.
LEMMA PlaceIs == \A x \in Nat : Place[x] = x
  BY DEF Place

\* What a caller sees of a call for a block of n or more: the pool is as it was, or there is
\* one more block, n large, and those of O are untouched.
PoolGave(p, new, O, n) ==
    \/ new.at = None /\ new.mem = p
    \/ /\ new.at \in Nat /\ new.at \notin O /\ PoolInv(new.mem, O \cup {new.at})
       /\ new.mem.hdr[new.at] >= n
       /\ \A c \in O : new.mem.hdr[c] = p.hdr[c]

\* pool_malloc: the pool as it was, or a block that nobody owned, large enough.
LEMMA PoolMalloc ==
    ASSUME NEW p, NEW O, PoolInv(p, O), NEW size \in Nat
    PROVE  PoolGave(p, pool_malloc(p, size), O, pool_size_align(size))
<1> DEFINE s == p.free
           h == p.hdr
           e == p.size - Header
           n == pool_size_align(size)
           fits == {k \in DOMAIN s : h[s[k]] >= n}
           i == LeastOf(fits)
           cur == s[i]
           new == pool_malloc(p, size)
           q == new.mem
<1>1. n \in Nat /\ n > 0
  BY PoolSize DEF Header
<1>2. /\ p \in PoolType /\ h \in Hdrs /\ s \in Seq(Nat) /\ e \in Nat /\ p.size \in Nat /\ p.size >= Header
      /\ OnlyOnce(s) /\ Ordered(s, Place) /\ Upward(s) /\ DOMAIN s = 1 .. Len(s) /\ Len(s) \in Nat
      /\ \A k \in 1 .. Len(s) : s[k] \in Nat /\ Place[s[k]] = s[k] /\ s[k] \in Range(s)
      /\ Cover(h, e) /\ Gaps(h, Range(s))
      /\ Range(s) = DOMAIN h \ O /\ O \subseteq DOMAIN h /\ DOMAIN h \subseteq Nat
      /\ \A c \in DOMAIN h : h[c] \in Nat /\ h[c] > 0
  BY PoolFields DEF PoolInv
<1>3. CASE size >= p.size \/ fits = {}
  BY <1>3 DEF pool_malloc, Fail, PoolGave
<1>4. CASE ~(size >= p.size \/ fits = {})
  <2> HIDE DEF e, n, s, h
  <2>1. fits \in SUBSET Nat /\ fits # {}
    BY <1>2, <1>4 DEF s, h, n
  <2>2. i \in fits
    BY <2>1, HasLeast
  <2> HIDE DEF i
  <2>3. /\ i \in 1 .. Len(s) /\ h[cur] >= n /\ cur \in Nat /\ cur \in DOMAIN h /\ cur \notin O
        /\ h[cur] \in Nat /\ cur \in Range(s) /\ Place[cur] = cur
    BY <1>2, <2>2
  <2> HIDE DEF cur
  <2>4. CASE h[cur] >= n + 2 * Header
    <3> DEFINE g == Split(h, cur, n)
               t == [s EXCEPT ![i] = cur + n]
    <3>1. new = [at |-> cur, mem |-> [p EXCEPT !.hdr = Split(@, cur, n), !.free[i] = cur + n]]
      BY <1>4, <2>4 DEF pool_malloc, n, i, s, h, cur
    <3>2. n < h[cur] /\ cur + n \in Nat /\ Place[cur + n] = cur + n
      BY <1>1, <2>3, <2>4, PlaceIs DEF Header
    <3>3. /\ Cover(g, e) /\ g \in Hdrs /\ DOMAIN g = DOMAIN h \cup {cur + n} /\ cur + n \notin DOMAIN h
          /\ g[cur] = n /\ g[cur + n] = h[cur] - n
          /\ \A x \in DOMAIN h \ {cur} : g[x] = h[x]
      <4>1. e \in Nat /\ Cover(h, e) /\ cur \in DOMAIN h /\ n \in Nat /\ 0 < n /\ n < h[cur]
        BY <1>1, <1>2, <2>3, <3>2
      <4>2. IsSplit(g, h, e, cur, n)
        BY <4>1, SplitCover
      <4> HIDE DEF g
      <4> QED
        BY <4>2 DEF IsSplit
    <3> HIDE DEF g
    <3>4. t \in Seq(Nat) /\ OnlyOnce(t) /\ Ordered(t, Place) /\ Range(t) = (Range(s) \ {cur}) \cup {cur + n}
      <4>1. cur + n \notin Range(s)
        BY <1>2, <3>3
      <4>2. ASSUME NEW k \in 1 .. Len(s), k < i PROVE Place[s[k]] <= Place[cur + n]
        BY <1>1, <1>2, <2>3, <3>2, <4>2 DEF Upward, cur
      <4>3. ASSUME NEW k \in 1 .. Len(s), k > i PROVE Place[cur + n] <= Place[s[k]]
        <5>1. cur < s[k] /\ s[k] \in DOMAIN h
          BY <1>2, <2>3, <4>3 DEF Upward, cur
        <5>2. cur + h[cur] <= s[k]
          BY <1>2, <2>3, <5>1 DEF Cover
        <5> QED
          BY <1>1, <1>2, <2>3, <3>2, <5>2
      <4>4. /\ s \in Seq(Nat) /\ cur + n \in Nat /\ i \in 1 .. Len(s) /\ OnlyOnce(s) /\ Ordered(s, Place)
            /\ cur + n \notin Range(s) \ {s[i]}
            /\ \A k \in 1 .. Len(s) : /\ k < i => Place[s[k]] <= Place[cur + n]
                                      /\ k > i => Place[cur + n] <= Place[s[k]]
        BY <1>2, <2>3, <3>2, <4>1, <4>2, <4>3
      <4>5. t \in Seq(Nat) /\ OnlyOnce(t)
        BY <4>4, ReplacedIn
      <4>6. Ordered(t, Place)
        BY <4>4, ReplacedIn
      <4>7. \A x : x \in Range(t) <=> (x \in Range(s) /\ x # s[i]) \/ x = cur + n
        BY <4>4, ReplacedIn
      <4> QED
        BY <4>5, <4>6, <4>7 DEF cur
    <3>5. Upward(t)
      BY <3>4, UpwardIs
    <3> HIDE DEF t
    <3>6. new.at = cur /\ q \in PoolType /\ q.size = p.size /\ q.hdr = g /\ q.free = t
      <4>1. [p EXCEPT !.hdr = Split(@, cur, n), !.free[i] = cur + n] = [p EXCEPT !.hdr = g, !.free = t]
        BY DEF g, t, s, h
      <4>2. new = [at |-> cur, mem |-> [p EXCEPT !.hdr = g, !.free = t]]
        BY <3>1, <4>1
      <4> HIDE DEF new
      <4> QED
        BY <1>2, <3>3, <3>4, <4>2 DEF PoolType
    <3>7. Gaps(g, Range(t))
      <4>1. ASSUME NEW x \in Range(t), NEW y \in Range(t), x < y PROVE x + g[x] < y
        <5>1. CASE x \in Range(s) \ {cur} /\ y \in Range(s) \ {cur}
          BY <1>2, <3>3, <4>1, <5>1 DEF Gaps
        <5>2. CASE x = cur + n /\ y \in Range(s) \ {cur}
          <6>1. y \in Nat /\ cur < y /\ (cur + n) + (h[cur] - n) = cur + h[cur]
            BY <1>1, <1>2, <2>3, <4>1, <5>2
          <6> QED
            BY <1>2, <2>3, <3>3, <5>2, <6>1 DEF Gaps
        <5>3. CASE x \in Range(s) \ {cur} /\ y = cur + n
          <6>1. x \in Nat /\ x \in DOMAIN h /\ h[x] \in Nat /\ (x < cur \/ cur < x)
            BY <1>2, <2>3, <5>3
          <6>2. ASSUME cur < x PROVE FALSE
            <7>1. cur + h[cur] <= x
              BY <1>2, <2>3, <6>1, <6>2 DEF Cover
            <7> QED
              BY <1>1, <2>3, <3>2, <4>1, <5>3, <6>1, <7>1
          <6>3. x + h[x] < cur
            BY <1>2, <2>3, <5>3, <6>1, <6>2 DEF Gaps
          <6> QED
            BY <1>1, <2>3, <3>3, <5>3, <6>1, <6>3
        <5> QED
          BY <1>1, <1>2, <2>3, <3>4, <4>1, <5>1, <5>2, <5>3
      <4> QED
        BY <4>1 DEF Gaps
    <3>8. Range(t) = DOMAIN g \ (O \cup {cur}) /\ O \cup {cur} \subseteq DOMAIN g
      BY <1>1, <1>2, <2>3, <3>3, <3>4
    <3>9. PoolInv(q, O \cup {cur})
      BY <1>2, <3>3, <3>5, <3>6, <3>7, <3>8 DEF PoolInv, e
    <3> HIDE DEF new
    <3>10. q.hdr[cur] >= n
      BY <1>1, <3>3, <3>6
    <3>11. \A c \in O : q.hdr[c] = h[c]
      BY <1>2, <2>3, <3>3, <3>6
    <3> QED
      BY <2>3, <3>6, <3>9, <3>10, <3>11 DEF new, n, h, PoolGave
  <2>5. CASE ~(h[cur] >= n + 2 * Header)
    <3> DEFINE t == RemoveAt(s, i)
    <3>1. new = [at |-> cur, mem |-> [p EXCEPT !.free = RemoveAt(@, i)]]
      BY <1>4, <2>5 DEF pool_malloc, n, i, s, h, cur
    <3>2. t \in Seq(Nat) /\ OnlyOnce(t) /\ Ordered(t, Place) /\ Range(t) = Range(s) \ {cur}
      BY <1>2, <2>3, RemovedFrom DEF cur
    <3>3. Upward(t)
      BY <3>2, UpwardIs
    <3> HIDE DEF t
    <3>4. new.at = cur /\ q \in PoolType /\ q.size = p.size /\ q.hdr = h /\ q.free = t
      BY <1>2, <3>1, <3>2 DEF PoolType, t, s, h
    <3>5. Gaps(h, Range(t)) /\ Range(t) = DOMAIN h \ (O \cup {cur}) /\ O \cup {cur} \subseteq DOMAIN h
      BY <1>2, <2>3, <3>2 DEF Gaps
    <3>6. PoolInv(q, O \cup {cur})
      BY <1>2, <3>3, <3>4, <3>5 DEF PoolInv, e
    <3> HIDE DEF new
    <3> QED
      BY <2>3, <3>4, <3>6 DEF new, n, h, PoolGave
  <2> QED
    BY <2>4, <2>5
<1> QED
  BY <1>3, <1>4

\* What the first half of pool_free makes of a block that is given back.
LEMMA FirstHalf ==
    ASSUME NEW p, NEW O, PoolInv(p, O), NEW cur \in O
    PROVE  LET q == MergesUp(p, cur)
               n == Passed(p, cur)
           IN  /\ q \in PoolType /\ q.size = p.size /\ Cover(q.hdr, p.size - Header)
               /\ Upward(q.free) /\ Range(q.free) = DOMAIN q.hdr \ (O \ {cur})
               /\ O \subseteq DOMAIN q.hdr
               /\ n \in 0 .. Len(q.free) - 1 /\ q.free[n + 1] = cur
               /\ \A x, y \in Range(q.free) : x < y /\ y # cur => x + q.hdr[x] < y
               /\ \A c \in O \ {cur} : q.hdr[c] = p.hdr[c]
<1> DEFINE s == p.free
           h == p.hdr
           e == p.size - Header
           n == Passed(p, cur)
           q == MergesUp(p, cur)
           next == s[n + 1]
<1>1. /\ p \in PoolType /\ h \in Hdrs /\ s \in Seq(Nat) /\ e \in Nat /\ p.size \in Nat /\ p.size >= Header
      /\ OnlyOnce(s) /\ Ordered(s, Place) /\ Upward(s) /\ DOMAIN s = 1 .. Len(s) /\ Len(s) \in Nat
      /\ \A k \in 1 .. Len(s) : s[k] \in Nat /\ Place[s[k]] = s[k] /\ s[k] \in Range(s)
      /\ Cover(h, e) /\ Gaps(h, Range(s))
      /\ Range(s) = DOMAIN h \ O /\ O \subseteq DOMAIN h /\ DOMAIN h \subseteq Nat
      /\ \A c \in DOMAIN h : h[c] \in Nat /\ h[c] > 0
      /\ \A x \in Range(s) : \E k \in 1 .. Len(s) : x = s[k]
  BY PoolFields DEF PoolInv
<1>2. cur \in Nat /\ cur \in DOMAIN h /\ cur \notin Range(s) /\ Place[cur] = cur
  BY <1>1, PlaceIs
<1>3. n \in 0 .. Len(s) /\ \A k \in 1 .. Len(s) : IF k <= n THEN s[k] < cur ELSE s[k] > cur
  BY <1>1, <1>2, WalkEnds
<1>4. ASSUME NEW k \in 1 .. Len(s)
      PROVE  /\ s[k] \in Nat /\ Place[s[k]] = s[k] /\ Place[cur] = cur
             /\ k <= n => s[k] < cur
             /\ ~(k <= n) => s[k] > cur
  BY <1>1, <1>2, <1>3
<1>5. CASE n < Len(s) /\ cur + h[cur] = next
  <2> DEFINE g == Merged(h, cur, next)
             t == [s EXCEPT ![n + 1] = cur]
  <2>1. q = [p EXCEPT !.hdr = Merged(@, cur, next), !.free[n + 1] = cur]
    BY <1>5 DEF MergesUp
  <2> HIDE DEF n, q
  <2>2. n + 1 \in 1 .. Len(s) /\ next \in Range(s) /\ next \in DOMAIN h /\ next \in Nat /\ cur < next
        /\ next \notin O
    BY <1>1, <1>3, <1>5
  <2> HIDE DEF s, h, e
  <2>3. /\ Cover(g, e) /\ g \in Hdrs /\ DOMAIN g = DOMAIN h \ {next} /\ cur # next
        /\ g[cur] = h[cur] + h[next]
        /\ \A x \in DOMAIN h \ {cur, next} : g[x] = h[x]
    <3>1. e \in Nat /\ Cover(h, e) /\ cur \in DOMAIN h /\ next \in DOMAIN h /\ cur + h[cur] = next
      BY <1>1, <1>2, <1>5, <2>2
    <3> HIDE DEF next
    <3>2. IsMerged(g, h, e, cur, next)
      BY <3>1, MergeCover
    <3> HIDE DEF g
    <3> QED
      BY <3>2 DEF IsMerged
  <2>4. /\ t \in Seq(Nat) /\ OnlyOnce(t) /\ Ordered(t, Place)
        /\ \A x : x \in Range(t) <=> (x \in Range(s) /\ x # next) \/ x = cur
    <3>1. /\ s \in Seq(Nat) /\ cur \in Nat /\ n + 1 \in 1 .. Len(s) /\ OnlyOnce(s) /\ Ordered(s, Place)
          /\ cur \notin Range(s) \ {s[n + 1]}
      BY <1>1, <1>2, <2>2
    <3>2. ASSUME NEW k \in 1 .. Len(s)
          PROVE  /\ k < n + 1 => Place[s[k]] <= Place[cur]
                 /\ k > n + 1 => Place[cur] <= Place[s[k]]
      BY <1>2, <1>3, <1>4
    <3>3. t \in Seq(Nat) /\ OnlyOnce(t)
      BY <3>1, <3>2, ReplacedIn
    <3>4. Ordered(t, Place)
      BY <3>1, <3>2, ReplacedIn
    <3>5. \A x : x \in Range(t) <=> (x \in Range(s) /\ x # s[n + 1]) \/ x = cur
      BY <3>1, <3>2, ReplacedIn
    <3> QED
      BY <3>3, <3>4, <3>5
  <2>5. Upward(t) /\ Len(t) = Len(s) /\ t[n + 1] = cur
    <3>1. Len(t) = Len(s) /\ t[n + 1] = cur
      BY <1>1, <1>2, <2>2, ExceptSeq
    <3> QED
      BY <2>4, <3>1, UpwardIs
  <2>6. q \in PoolType /\ q.size = p.size /\ q.hdr = g /\ q.free = t
    <3>1. q = [p EXCEPT !.hdr = g, !.free = t]
      BY <2>1 DEF s, h
    <3> HIDE DEF g, t
    <3> QED
      BY <1>1, <2>3, <2>4, <3>1 DEF PoolType
  <2> HIDE DEF g, t, next
  <2>7. Range(t) = DOMAIN g \ (O \ {cur}) /\ O \subseteq DOMAIN g
    BY <1>1, <1>2, <2>2, <2>3, <2>4
  <2>8. ASSUME NEW x \in Range(t), NEW y \in Range(t), x < y, y # cur PROVE x + g[x] < y
    <3>1. y \in Range(s) /\ y # next /\ y \in DOMAIN h /\ y \in Nat
      BY <1>1, <2>4, <2>8
    <3>2. CASE x = cur
      <4>1. cur + h[cur] <= y
        BY <1>1, <1>2, <2>8, <3>1, <3>2 DEF Cover
      <4>2. next < y
        BY <1>1, <1>2, <1>5, <2>2, <3>1, <4>1
      <4>3. next + h[next] < y
        BY <1>1, <2>2, <3>1, <4>2 DEF Gaps
      <4> QED
        BY <1>1, <1>2, <1>5, <2>2, <2>3, <3>1, <3>2, <4>3
    <3>3. CASE x # cur
      <4>1. x \in Range(s) /\ x # next /\ x \in DOMAIN h
        BY <1>1, <2>4, <2>8, <3>3
      <4> QED
        BY <1>1, <2>3, <2>8, <3>1, <3>3, <4>1 DEF Gaps
    <3> QED
      BY <3>2, <3>3
  <2>9. ASSUME NEW c \in O \ {cur} PROVE g[c] = h[c]
    BY <1>1, <2>2, <2>3
  <2>10. n \in 0 .. Len(t) - 1
    BY <1>1, <1>3, <1>5, <2>5
  <2> QED
    BY <2>3, <2>5, <2>6, <2>7, <2>8, <2>9, <2>10 DEF n, q, s, h, e
<1>6. CASE ~(n < Len(s) /\ cur + h[cur] = next)
  <2> DEFINE t == InsertAt(s, n + 1, cur)
  <2>1. q = [p EXCEPT !.free = InsertAt(@, n + 1, cur)]
    BY <1>6 DEF MergesUp
  <2> HIDE DEF n, q
  <2> HIDE DEF s, h, e
  <2>2. /\ t \in Seq(Nat) /\ OnlyOnce(t) /\ Ordered(t, Place)
        /\ \A x : x \in Range(t) <=> x \in Range(s) \/ x = cur
        /\ Len(t) = Len(s) + 1 /\ t[n + 1] = cur
    <3>1. /\ s \in Seq(Nat) /\ cur \in Nat /\ n \in 0 .. Len(s) /\ OnlyOnce(s) /\ Ordered(s, Place)
          /\ cur \notin Range(s)
      BY <1>1, <1>2, <1>3
    <3>2. ASSUME NEW k \in 1 .. Len(s)
          PROVE  IF k <= n THEN Place[s[k]] <= Place[cur] ELSE Place[cur] <= Place[s[k]]
      BY <1>2, <1>3, <1>4
    <3>3. t \in Seq(Nat) /\ OnlyOnce(t)
      BY <3>1, <3>2, InsertedInto
    <3>4. Ordered(t, Place)
      BY <3>1, <3>2, InsertedInto
    <3>5. \A x : x \in Range(t) <=> x \in Range(s) \/ x = cur
      BY <3>1, <3>2, InsertedInto
    <3>6. Ordered(t, Place) /\ Len(t) = Len(s) + 1 /\ t[n + 1] = cur
      BY <3>1, <3>2, InsertedInto
    <3> QED
      BY <3>3, <3>4, <3>5, <3>6
  <2>3. Upward(t) /\ Len(t) = Len(s) + 1 /\ t[n + 1] = cur
    <3> QED
      BY <2>2, UpwardIs
  <2> HIDE DEF t
  <2>4. q \in PoolType /\ q.size = p.size /\ q.hdr = h /\ q.free = t
    BY <1>1, <2>1, <2>2 DEF PoolType, s, h, t
  <2>5. Range(t) = DOMAIN h \ (O \ {cur})
    BY <1>1, <1>2, <2>2
  <2>6. ASSUME NEW x \in Range(t), NEW y \in Range(t), x < y, y # cur PROVE x + h[x] < y
    <3>1. y \in Range(s) /\ y \in DOMAIN h /\ y \in Nat
      BY <1>1, <2>2, <2>6
    <3>2. CASE x = cur
      <4>1. cur + h[cur] <= y
        BY <1>1, <1>2, <2>6, <3>1, <3>2 DEF Cover
      <4>2. PICK k \in 1 .. Len(s) : y = s[k]
        BY <1>1, <3>1
      <4>3. n + 1 \in 1 .. Len(s) /\ n < Len(s) /\ (k = n + 1 \/ n + 1 < k)
        BY <1>1, <1>2, <1>3, <1>4, <2>6, <3>1, <3>2, <4>2
      <4>4. next <= y /\ next \in Nat /\ next \in DOMAIN h /\ cur < next
        BY <1>1, <1>3, <1>4, <4>2, <4>3 DEF Upward
      <4>5. cur + h[cur] <= next
        BY <1>1, <1>2, <4>4 DEF Cover
      <4>6. cur + h[cur] # next
        BY <1>6, <4>3
      <4>7. h[cur] \in Nat
        BY <1>1, <1>2
      <4> HIDE DEF next
      <4> QED
        BY <1>2, <3>1, <3>2, <4>4, <4>5, <4>6, <4>7
    <3>3. CASE x # cur
      <4>1. x \in Range(s) /\ Gaps(h, Range(s))
        BY <1>1, <2>2, <2>6, <3>3
      <4> QED
        BY <2>6, <3>1, <4>1 DEF Gaps
    <3> QED
      BY <3>2, <3>3
  <2>7. n \in 0 .. Len(t) - 1
    BY <1>1, <1>3, <2>3
  <2> QED
    BY <1>1, <2>3, <2>4, <2>5, <2>6, <2>7 DEF n, q, s, h, e
<1> QED
  BY <1>5, <1>6

\* pool_free: the block is free, every other one is as it was.
LEMMA PoolFree ==
    ASSUME NEW p, NEW O, PoolInv(p, O), NEW cur \in O
    PROVE  /\ PoolInv(pool_free(p, cur), O \ {cur})
           /\ \A c \in O \ {cur} : pool_free(p, cur).hdr[c] = p.hdr[c]
<1> DEFINE n == Passed(p, cur)
           q == MergesUp(p, cur)
           s == q.free
           h == q.hdr
           e == p.size - Header
           prev == s[n]
           R == Range(s)
           new == pool_free(p, cur)
<1>1. /\ q \in PoolType /\ q.size = p.size /\ Cover(h, e) /\ Upward(s) /\ R = DOMAIN h \ (O \ {cur})
      /\ O \subseteq DOMAIN h /\ n \in 0 .. Len(s) - 1 /\ s[n + 1] = cur
      /\ \A x, y \in R : x < y /\ y # cur => x + h[x] < y
      /\ \A c \in O \ {cur} : h[c] = p.hdr[c]
  BY FirstHalf
<1>2. p.size \in Nat /\ p.size >= Header /\ e \in Nat
  BY PoolFields DEF PoolInv
<1> HIDE DEF q
<1>3. s \in Seq(Nat) /\ h \in Hdrs
  BY <1>1 DEF PoolType
<1>4. /\ OnlyOnce(s) /\ Ordered(s, Place) /\ DOMAIN s = 1 .. Len(s) /\ Len(s) \in Nat
      /\ \A k \in 1 .. Len(s) : s[k] \in Nat /\ s[k] \in R
      /\ \A x \in R : \E k \in 1 .. Len(s) : x = s[k]
  BY <1>1, <1>3, UpwardIs DEF Range
<1>5. DOMAIN h \subseteq Nat /\ \A c \in DOMAIN h : h[c] \in Nat /\ h[c] > 0
  BY <1>1 DEF Cover
<1>6. n + 1 \in 1 .. Len(s) /\ cur \in R /\ cur \in DOMAIN h /\ cur \in Nat /\ n \in Nat
  BY <1>1, <1>4, <1>5
<1>7. CASE n > 0 /\ prev + h[prev] = cur
  <2> DEFINE g == Merged(h, prev, cur)
             t == RemoveAt(s, n + 1)
  <2>1. new = [q EXCEPT !.hdr = Merged(@, prev, cur), !.free = RemoveAt(@, n + 1)]
    BY <1>7 DEF pool_free, q
  <2> HIDE DEF n, new, h, e
  <2>2. n \in 1 .. Len(s) /\ prev \in R /\ prev \in DOMAIN h /\ prev \in Nat
    <3>1. n \in 1 .. Len(s)
      BY <1>4, <1>6, <1>7
    <3>2. s[n] \in R
      BY <1>4, <3>1
    <3>3. prev \in R /\ prev \in DOMAIN h
      BY <1>1, <3>2
    <3> QED
      BY <1>5, <3>1, <3>3
  <2> HIDE DEF prev
  <2>3. /\ Cover(g, e) /\ g \in Hdrs /\ DOMAIN g = DOMAIN h \ {cur} /\ prev # cur
        /\ g[prev] = h[prev] + h[cur]
        /\ \A x \in DOMAIN h \ {prev, cur} : g[x] = h[x]
    <3>1. e \in Nat /\ Cover(h, e) /\ prev \in DOMAIN h /\ cur \in DOMAIN h /\ prev + h[prev] = cur
      BY <1>1, <1>2, <1>6, <1>7, <2>2
    <3>2. IsMerged(g, h, e, prev, cur)
      BY <3>1, MergeCover
    <3> HIDE DEF g
    <3> QED
      BY <3>2 DEF IsMerged
  <2>4. /\ t \in Seq(Nat) /\ OnlyOnce(t) /\ Ordered(t, Place)
        /\ \A x : x \in Range(t) <=> x \in R /\ x # cur
    <3> HIDE DEF s
    <3>1. s \in Seq(Nat) /\ n + 1 \in 1 .. Len(s) /\ OnlyOnce(s) /\ Ordered(s, Place)
      BY <1>3, <1>4, <1>6
    <3>2. t \in Seq(Nat) /\ OnlyOnce(t)
      BY <3>1, RemovedFrom
    <3>3. Ordered(t, Place)
      BY <3>1, RemovedFrom
    <3>4. \A x : x \in Range(t) <=> x \in R /\ x # s[n + 1]
      BY <3>1, RemovedFrom
    <3> QED
      BY <1>1, <3>2, <3>3, <3>4
  <2>5. Upward(t)
    BY <2>4, UpwardIs
  <2>6. new \in PoolType /\ new.size = p.size /\ new.hdr = g /\ new.free = t
    <3>1. new = [q EXCEPT !.hdr = g, !.free = t]
      BY <2>1 DEF h
    <3> HIDE DEF g, t
    <3> QED
      BY <1>1, <2>3, <2>4, <3>1 DEF PoolType
  <2> HIDE DEF g, t, R
  <2>7. Range(t) = DOMAIN g \ (O \ {cur}) /\ O \ {cur} \subseteq DOMAIN g
    BY <1>1, <2>3, <2>4
  <2>8. ASSUME NEW x \in Range(t), NEW y \in Range(t), x < y PROVE x + g[x] < y
    <3>1. x \in R /\ y \in R /\ x # cur /\ y # cur /\ x \in DOMAIN h /\ y \in DOMAIN h /\ x \in Nat /\ y \in Nat
      BY <1>1, <1>5, <2>4, <2>8
    <3>2. CASE x = prev
      <4>1. cur <= y
        BY <1>1, <1>7, <2>2, <2>8, <3>1, <3>2 DEF Cover
      <4>2. cur + h[cur] < y
        BY <1>1, <1>6, <3>1, <4>1
      <4>3. h[cur] \in Nat /\ h[prev] \in Nat
        BY <1>5, <1>6, <2>2
      <4> QED
        BY <1>6, <1>7, <2>2, <2>3, <3>1, <3>2, <4>2, <4>3
    <3>3. CASE x # prev
      BY <1>1, <2>3, <2>8, <3>1, <3>3
    <3> QED
      BY <3>2, <3>3
  <2>9. PoolInv(new, O \ {cur})
    BY <1>2, <2>3, <2>5, <2>6, <2>7, <2>8 DEF PoolInv, Gaps, e
  <2>10. ASSUME NEW c \in O \ {cur} PROVE new.hdr[c] = p.hdr[c]
    <3>1. c \in DOMAIN h /\ c # prev /\ c # cur
      BY <1>1, <2>2
    <3> QED
      BY <1>1, <2>3, <2>6, <3>1
  <2> QED
    BY <2>9, <2>10 DEF new
<1>8. CASE ~(n > 0 /\ prev + h[prev] = cur)
  <2>1. new = q
    BY <1>8 DEF pool_free, q
  <2> HIDE DEF n, new, h, e, s, prev, R
  <2>2. ASSUME NEW x \in R, NEW y \in R, x < y PROVE x + h[x] < y
    <3>1. x \in DOMAIN h /\ y \in DOMAIN h /\ x \in Nat /\ y \in Nat /\ h[x] \in Nat
      BY <1>1, <1>5
    <3>2. CASE y = cur
      <4>1. PICK k \in 1 .. Len(s) : x = s[k]
        BY <1>4
      <4>2. k < n + 1
        <5>1. ~(n + 1 < k)
          BY <1>1, <1>4, <1>6, <2>2, <3>1, <3>2, <4>1 DEF Upward
        <5>2. k # n + 1
          BY <1>1, <2>2, <3>1, <3>2, <4>1
        <5> QED
          BY <1>6, <5>1, <5>2
      <4>3. n \in 1 .. Len(s) /\ n > 0 /\ n < n + 1
        BY <1>4, <1>6, <4>2
      <4>4. prev \in R /\ prev \in DOMAIN h /\ prev \in Nat /\ prev < cur
        <5>1. s[n] < s[n + 1]
          BY <1>1, <1>6, <4>3 DEF Upward
        <5> QED
          BY <1>1, <1>4, <1>5, <4>3, <5>1 DEF prev
      <4>5. CASE k = n
        <5>1. x = prev /\ x + h[x] # cur
          BY <1>8, <4>1, <4>3, <4>5 DEF prev
        <5>2. x + h[x] <= cur
          BY <1>1, <1>6, <2>2, <3>1, <3>2 DEF Cover
        <5> QED
          BY <1>6, <3>1, <3>2, <5>1, <5>2
      <4>6. CASE k < n
        <5>1. x < prev
          BY <1>1, <4>1, <4>3, <4>6 DEF Upward, prev
        <5>2. prev # cur
          BY <1>6, <4>4
        <5>3. x + h[x] < prev
          BY <1>1, <4>4, <5>1, <5>2
        <5> QED
          BY <1>6, <3>1, <3>2, <4>4, <5>3
      <4> QED
        BY <1>6, <4>2, <4>5, <4>6
    <3>3. CASE y # cur
      BY <1>1, <2>2, <3>3
    <3> QED
      BY <3>2, <3>3
  <2>3. O \ {cur} \subseteq DOMAIN h
    BY <1>1
  <2>4. PoolInv(q, O \ {cur})
    BY <1>1, <1>2, <2>2, <2>3 DEF PoolInv, Gaps, e, h, s, R
  <2> QED
    BY <1>1, <2>1, <2>4 DEF new, h
<1> QED
  BY <1>7, <1>8

\* The block has the size n now, every other one is as it was.
GrewTo(q, p, O, cur, n) ==
    PoolInv(q, O) /\ q.hdr[cur] >= n /\ \A c \in O \ {cur} : q.hdr[c] = p.hdr[c]

\* A block that grows into the free chunk above it.
LEMMA GrownInPlace ==
    ASSUME NEW p, NEW O, PoolInv(p, O), NEW cur \in O, NEW n \in Nat, n > 0,
           NEW i \in 1 .. Len(p.free), cur + p.hdr[cur] = p.free[i],
           p.hdr[cur] + p.hdr[p.free[i]] >= n
    PROVE  GrewTo(grown_in_place(p, cur, i, n), p, O, cur, n)
<1> DEFINE s == p.free
           h == p.hdr
           e == p.size - Header
           next == s[i]
           w == Merged(h, cur, next)
           q == grown_in_place(p, cur, i, n)
<1>1. /\ p \in PoolType /\ h \in Hdrs /\ s \in Seq(Nat) /\ e \in Nat /\ p.size \in Nat /\ p.size >= Header
      /\ OnlyOnce(s) /\ Ordered(s, Place) /\ Upward(s) /\ DOMAIN s = 1 .. Len(s) /\ Len(s) \in Nat
      /\ \A k \in 1 .. Len(s) : s[k] \in Nat /\ Place[s[k]] = s[k] /\ s[k] \in Range(s)
      /\ Cover(h, e) /\ Gaps(h, Range(s))
      /\ Range(s) = DOMAIN h \ O /\ O \subseteq DOMAIN h /\ DOMAIN h \subseteq Nat
      /\ \A c \in DOMAIN h : h[c] \in Nat /\ h[c] > 0
  BY PoolFields DEF PoolInv
<1>2. /\ cur \in Nat /\ cur \in DOMAIN h /\ cur \notin Range(s) /\ h[cur] \in Nat /\ h[cur] > 0
      /\ next \in Nat /\ next \in DOMAIN h /\ next \in Range(s) /\ next \notin O
      /\ h[next] \in Nat /\ h[next] > 0 /\ cur + h[cur] = next /\ h[cur] + h[next] >= n
      /\ i \in 1 .. Len(s)
  BY <1>1
<1>3. q = IF w[cur] - n > 2 * Header
          THEN [p EXCEPT !.hdr = Split(w, cur, n), !.free[i] = cur + n]
          ELSE [p EXCEPT !.hdr = w, !.free = RemoveAt(@, i)]
  BY DEF grown_in_place
<1> HIDE DEF q
<1>4. /\ Cover(w, e) /\ w \in Hdrs /\ DOMAIN w = DOMAIN h \ {next} /\ cur # next
      /\ w[cur] = h[cur] + h[next]
      /\ \A x \in DOMAIN h \ {cur, next} : w[x] = h[x]
  <2>1. e \in Nat /\ Cover(h, e) /\ cur \in DOMAIN h /\ next \in DOMAIN h /\ cur + h[cur] = next
    BY <1>1, <1>2
  <2> HIDE DEF next, h, e
  <2>2. IsMerged(w, h, e, cur, next)
    BY <2>1, MergeCover
  <2> HIDE DEF w
  <2> QED
    BY <2>2 DEF IsMerged
<1>5. ASSUME NEW x \in Range(s), NEW y \in Range(s), x # next, y # next, x < y PROVE x + w[x] < y /\ w[x] = h[x]
  <2>1. x \in DOMAIN h \ {cur, next}
    BY <1>1, <1>2, <1>5
  <2>2. w[x] = h[x]
    BY <1>4, <2>1
  <2> QED
    BY <1>1, <1>5, <2>2 DEF Gaps
<1> HIDE DEF s, h, e, w
<1>6. CASE w[cur] - n > 2 * Header
  <2> DEFINE g == Split(w, cur, n)
             t == [s EXCEPT ![i] = cur + n]
  <2>1. /\ n < w[cur] /\ cur + n \in Nat /\ Place[cur + n] = cur + n /\ w[cur] \in Nat
        /\ cur + w[cur] = next + h[next]
    BY <1>2, <1>4, <1>6, PlaceIs DEF Header
  <2>2. /\ Cover(g, e) /\ g \in Hdrs /\ DOMAIN g = DOMAIN w \cup {cur + n} /\ cur + n \notin DOMAIN w
        /\ g[cur] = n /\ g[cur + n] = w[cur] - n
        /\ \A x \in DOMAIN w \ {cur} : g[x] = w[x]
    <3>1. e \in Nat /\ Cover(w, e) /\ cur \in DOMAIN w /\ n \in Nat /\ 0 < n /\ n < w[cur]
      BY <1>1, <1>2, <1>4, <2>1
    <3>2. IsSplit(g, w, e, cur, n)
      BY <3>1, SplitCover
    <3> HIDE DEF g
    <3> QED
      BY <3>2 DEF IsSplit
  <2> HIDE DEF g, next
  <2>3. ASSUME NEW x \in Range(s), x # next
        PROVE  x \in Nat /\ (x < next => x < cur /\ x + h[x] <= cur) /\ (x > next => cur + n < x)
    <3>1. x \in Nat /\ x \in DOMAIN h /\ x # cur /\ h[x] \in Nat
      BY <1>1, <1>2, <2>3
    <3>2. ASSUME x < next PROVE x < cur /\ x + h[x] <= cur
      <4>1. ASSUME cur < x PROVE FALSE
        <5>1. cur + h[cur] <= x
          BY <1>1, <1>2, <3>1, <4>1 DEF Cover
        <5> QED
          BY <1>2, <3>1, <3>2, <5>1
      <4>2. x < cur
        BY <1>2, <3>1, <4>1
      <4> QED
        BY <1>1, <1>2, <3>1, <4>2 DEF Cover
    <3>3. ASSUME x > next PROVE cur + n < x
      <4>1. next + h[next] <= x
        BY <1>1, <1>2, <3>1, <3>3 DEF Cover
      <4> QED
        BY <1>2, <2>1, <3>1, <4>1
    <3> QED
      BY <3>1, <3>2, <3>3
  <2>4. /\ t \in Seq(Nat) /\ OnlyOnce(t) /\ Ordered(t, Place)
        /\ \A x : x \in Range(t) <=> (x \in Range(s) /\ x # next) \/ x = cur + n
    <3>1. /\ s \in Seq(Nat) /\ cur + n \in Nat /\ i \in 1 .. Len(s) /\ OnlyOnce(s) /\ Ordered(s, Place)
          /\ cur + n \notin Range(s) \ {s[i]}
      BY <1>1, <1>2, <1>4, <2>1, <2>2 DEF next
    <3>2. ASSUME NEW k \in 1 .. Len(s)
          PROVE  /\ k < i => Place[s[k]] <= Place[cur + n]
                 /\ k > i => Place[cur + n] <= Place[s[k]]
      <4>1. s[k] \in Range(s) /\ s[k] \in Nat /\ Place[s[k]] = s[k] /\ s[i] = next
        BY <1>1 DEF next
      <4>2. CASE k < i
        <5>1. s[k] < next
          BY <1>1, <1>2, <4>1, <4>2 DEF Upward
        <5>2. s[k] < cur
          BY <1>2, <2>3, <4>1, <5>1
        <5>3. s[k] <= cur + n /\ ~(k > i)
          BY <1>2, <4>1, <4>2, <5>2
        <5> QED
          BY <2>1, <4>1, <5>3
      <4>3. CASE k > i
        <5>1. next < s[k]
          BY <1>1, <1>2, <4>1, <4>3 DEF Upward
        <5>2. cur + n < s[k]
          BY <1>2, <2>3, <4>1, <5>1
        <5>3. cur + n <= s[k] /\ ~(k < i)
          BY <2>1, <4>1, <4>3, <5>2
        <5> QED
          BY <2>1, <4>1, <5>3
      <4> QED
        BY <4>2, <4>3
    <3>3. t \in Seq(Nat) /\ OnlyOnce(t)
      BY <3>1, <3>2, ReplacedIn
    <3>4. Ordered(t, Place)
      BY <3>1, <3>2, ReplacedIn
    <3>5. \A x : x \in Range(t) <=> (x \in Range(s) /\ x # s[i]) \/ x = cur + n
      BY <3>1, <3>2, ReplacedIn
    <3> QED
      BY <3>3, <3>4, <3>5 DEF next
  <2>5. Upward(t)
    BY <2>4, UpwardIs
  <2>6. q \in PoolType /\ q.size = p.size /\ q.hdr = g /\ q.free = t
    <3>1. q = [p EXCEPT !.hdr = g, !.free = t]
      BY <1>3, <1>6 DEF g, s
    <3> HIDE DEF t
    <3> QED
      BY <1>1, <2>2, <2>4, <3>1 DEF PoolType
  <2> HIDE DEF t
  <2>7. ASSUME NEW x \in Range(t), NEW y \in Range(t), x < y PROVE x + g[x] < y
    <3>1. ASSUME NEW z \in Range(s), z # next
          PROVE  g[z] = h[z] /\ h[z] \in Nat /\ z \in Nat /\ z # cur /\ z # cur + n
      BY <1>1, <1>2, <1>4, <2>2, <3>1
    <3>2. CASE x = cur + n
      <4>1. y \in Range(s) /\ y # next /\ y \in Nat /\ y \in DOMAIN h
        BY <1>1, <2>1, <2>4, <2>7, <3>2
      <4>2. y > next
        BY <1>2, <2>1, <2>3, <2>7, <3>2, <4>1
      <4>3. next + h[next] < y
        BY <1>1, <1>2, <4>1, <4>2 DEF Gaps
      <4>4. (cur + n) + (w[cur] - n) = cur + w[cur]
        BY <1>2, <2>1
      <4> QED
        BY <2>1, <2>2, <3>2, <4>3, <4>4
    <3>3. CASE y = cur + n /\ x # cur + n
      <4>1. x \in Range(s) /\ x # next
        BY <2>4, <2>7, <3>3
      <4>2. g[x] = h[x] /\ h[x] \in Nat /\ x \in Nat
        BY <3>1, <4>1
      <4>3. ASSUME x > next PROVE FALSE
        <5>1. cur + n < x
          BY <2>3, <4>1, <4>3
        <5> QED
          BY <2>1, <2>7, <3>3, <4>2, <5>1
      <4>4. x < next
        BY <1>2, <4>2, <4>1, <4>3
      <4>5. x + h[x] <= cur
        BY <2>3, <4>1, <4>4
      <4> QED
        BY <1>2, <3>3, <4>2, <4>5
    <3>4. CASE x # cur + n /\ y # cur + n
      <4>1. x \in Range(s) /\ x # next /\ y \in Range(s) /\ y # next
        BY <2>4, <2>7, <3>4
      <4> QED
        BY <1>5, <2>7, <3>1, <4>1
    <3> QED
      BY <3>2, <3>3, <3>4
  <2>8. Range(t) = DOMAIN g \ O /\ O \subseteq DOMAIN g
    <3>1. cur + n \notin O
      BY <1>1, <1>2, <1>4, <2>2
    <3>2. DOMAIN g = (DOMAIN h \ {next}) \cup {cur + n}
      BY <1>4, <2>2
    <3>3. Range(s) = DOMAIN h \ O /\ O \subseteq DOMAIN h /\ next \notin O
      BY <1>1, <1>2
    <3> QED
      BY <2>4, <3>1, <3>2, <3>3
  <2>9. PoolInv(q, O)
    BY <1>1, <2>2, <2>5, <2>6, <2>7, <2>8 DEF PoolInv, Gaps, e
  <2>10. ASSUME NEW c \in O \ {cur} PROVE q.hdr[c] = h[c]
    <3>1. c \in DOMAIN w \ {cur} /\ c \in DOMAIN h \ {cur, next}
      BY <1>1, <1>2, <1>4
    <3> QED
      BY <1>4, <2>2, <2>6, <3>1
  <2> QED
    BY <2>2, <2>6, <2>9, <2>10 DEF q, h, GrewTo
<1>7. CASE ~(w[cur] - n > 2 * Header)
  <2> DEFINE t == RemoveAt(s, i)
  <2>1. /\ t \in Seq(Nat) /\ OnlyOnce(t) /\ Ordered(t, Place)
        /\ \A x : x \in Range(t) <=> x \in Range(s) /\ x # next
    <3>1. s \in Seq(Nat) /\ i \in 1 .. Len(s) /\ OnlyOnce(s) /\ Ordered(s, Place)
      BY <1>1, <1>2
    <3>2. t \in Seq(Nat) /\ OnlyOnce(t)
      BY <3>1, RemovedFrom
    <3>3. Ordered(t, Place)
      BY <3>1, RemovedFrom
    <3>4. \A x : x \in Range(t) <=> x \in Range(s) /\ x # s[i]
      BY <3>1, RemovedFrom
    <3> QED
      BY <3>2, <3>3, <3>4
  <2>2. Upward(t)
    BY <2>1, UpwardIs
  <2>3. q \in PoolType /\ q.size = p.size /\ q.hdr = w /\ q.free = t
    <3>1. q = [p EXCEPT !.hdr = w, !.free = t]
      BY <1>3, <1>7 DEF s
    <3> HIDE DEF t
    <3> QED
      BY <1>1, <1>4, <2>1, <3>1 DEF PoolType
  <2> HIDE DEF t, next
  <2>4. ASSUME NEW x \in Range(t), NEW y \in Range(t), x < y PROVE x + w[x] < y
    BY <1>5, <2>1, <2>4
  <2>5. Range(t) = DOMAIN w \ O /\ O \subseteq DOMAIN w
    BY <1>1, <1>2, <1>4, <2>1
  <2>6. PoolInv(q, O)
    BY <1>1, <1>4, <2>2, <2>3, <2>4, <2>5 DEF PoolInv, Gaps, e
  <2>7. ASSUME NEW c \in O \ {cur} PROVE q.hdr[c] = h[c]
    <3>1. c \in DOMAIN h \ {cur, next}
      BY <1>1, <1>2
    <3> QED
      BY <1>4, <2>3, <3>1
  <2>8. q.hdr[cur] >= n
    BY <1>2, <1>4, <2>3
  <2> QED
    BY <2>6, <2>7, <2>8 DEF q, h, GrewTo
<1> QED
  BY <1>6, <1>7

\* pool_realloc: the pool as it was, or a block of the new size in place of the old one.
LEMMA PoolRealloc ==
    ASSUME NEW p, NEW O, PoolInv(p, O), NEW cur \in O, NEW old \in Nat, NEW size \in Nat,
           p.hdr[cur] >= pool_size_align(old)
    PROVE  PoolGave(p, pool_realloc(p, cur, old, size), O \ {cur}, pool_size_align(size))
<1> DEFINE n == pool_size_align(size)
           i == Passed(p, cur) + 1
           merges == /\ i <= Len(p.free)
                     /\ cur + p.hdr[cur] = p.free[i] /\ p.hdr[cur] + p.hdr[p.free[i]] >= n
           got == pool_malloc(p, n - Header)
           new == pool_realloc(p, cur, old, size)
<1>1. n \in Nat /\ n >= size + Header /\ n - Header \in Nat /\ n > 0
  BY PoolSize DEF Header
<1>2. cur \in Nat /\ cur \notin Range(p.free) /\ p.free \in Seq(Nat) /\ Upward(p.free) /\ Len(p.free) \in Nat
  BY PoolFields DEF PoolInv
<1>3. Passed(p, cur) \in 0 .. Len(p.free)
  BY <1>2, WalkEnds
<1>4. new = IF size >= p.size THEN Fail(p)
            ELSE IF pool_size_align(old) = n THEN [mem |-> p, at |-> cur]
            ELSE IF merges THEN [mem |-> grown_in_place(p, cur, i, n), at |-> cur]
            ELSE IF got.at = None THEN got
            ELSE [mem |-> pool_free(got.mem, cur), at |-> got.at]
  BY DEF pool_realloc
<1> HIDE DEF new, n, got
<1>5. CASE size >= p.size
  BY <1>4, <1>5 DEF Fail, new, PoolGave
<1>6. CASE size < p.size /\ pool_size_align(old) = n
  <2>1. new.at = cur /\ new.mem = p /\ ~(size >= p.size)
    BY <1>2, <1>4, <1>6, PoolFields
  <2>2. (O \ {cur}) \cup {cur} = O
    OBVIOUS
  <2> QED
    BY <1>2, <1>6, <2>1, <2>2 DEF new, n, PoolGave
<1>7. CASE ~(size >= p.size) /\ pool_size_align(old) # n /\ merges
  <2> DEFINE q == grown_in_place(p, cur, i, n)
  <2>1. new.at = cur /\ new.mem = q
    BY <1>4, <1>7
  <2>2. i \in 1 .. Len(p.free)
    BY <1>2, <1>3, <1>7
  <2>3. (O \ {cur}) \cup {cur} = O
    OBVIOUS
  <2> HIDE DEF i
  <2>4. GrewTo(q, p, O, cur, n)
    BY <1>1, <1>7, <2>2, GrownInPlace
  <2> HIDE DEF q
  <2> QED
    BY <1>2, <2>1, <2>3, <2>4 DEF new, n, PoolGave, GrewTo
<1>8. CASE ~(size >= p.size) /\ pool_size_align(old) # n /\ ~merges
  <2>1. new = IF got.at = None THEN got ELSE [mem |-> pool_free(got.mem, cur), at |-> got.at]
    BY <1>4, <1>8
  <2>2. PoolGave(p, got, O, pool_size_align(n - Header))
    BY <1>1, PoolMalloc DEF got
  <2>3. CASE got.at = None
    <3>1. None \notin Nat
      BY MemBounds
    <3> QED
      BY <2>1, <2>2, <2>3, <3>1 DEF new, PoolGave
  <2>4. CASE got.at # None
    <3> DEFINE a == got.at
               q == pool_free(got.mem, cur)
    <3>1. new.at = a /\ new.mem = q
      BY <2>1, <2>4
    <3>2. /\ a \in Nat /\ a \notin O /\ PoolInv(got.mem, O \cup {a})
          /\ got.mem.hdr[a] >= pool_size_align(n - Header)
          /\ \A c \in O : got.mem.hdr[c] = p.hdr[c]
      BY <2>2, <2>4 DEF PoolGave
    <3> HIDE DEF a
    <3>3. cur \in O \cup {a} /\ (O \cup {a}) \ {cur} = (O \ {cur}) \cup {a}
      BY <3>2
    <3>4. PoolInv(q, (O \cup {a}) \ {cur}) /\ \A c \in (O \cup {a}) \ {cur} : q.hdr[c] = got.mem.hdr[c]
      BY <3>2, <3>3, PoolFree
    <3>5. pool_size_align(n - Header) \in Nat /\ pool_size_align(n - Header) >= n
      <4>1. pool_size_align(n - Header) \in Nat /\ pool_size_align(n - Header) >= (n - Header) + Header
        BY <1>1, PoolSize
      <4> QED
        BY <1>1, <4>1 DEF Header
    <3>6. got.mem.hdr[a] \in Nat
      BY <3>2, PoolFields DEF PoolInv
    <3> HIDE DEF q
    <3>7. q.hdr[a] >= n
      BY <1>1, <3>2, <3>3, <3>4, <3>5, <3>6
    <3> QED
      BY <3>1, <3>2, <3>3, <3>4, <3>7 DEF new, n, PoolGave
  <2> QED
    BY <2>3, <2>4
<1> QED
  <2>1. size < p.size \/ size >= p.size
    BY PoolFields
  <2> QED
    BY <1>5, <1>6, <1>7, <1>8, <2>1

-----------------------------------------------------------------------------
(* The dynamic allocator.                                                  *)

\* A list with one more in front.
LEMMA Prepended ==
    ASSUME NEW s \in Seq(Nat), NEW c \in Nat, OnlyOnce(s), c \notin Range(s)
    PROVE  LET t == <<c>> \o s
           IN  t \in Seq(Nat) /\ OnlyOnce(t) /\ \A x : x \in Range(t) <=> x \in Range(s) \/ x = c
<1> DEFINE a == <<c>>
           t == a \o s
<1>1. a \in Seq(Nat) /\ Len(a) = 1 /\ a[1] = c
  OBVIOUS
<1> HIDE DEF a
<1>2. /\ t \in Seq(Nat) /\ Len(t) = Len(a) + Len(s)
      /\ \A k \in 1 .. Len(a) + Len(s) : t[k] = IF k <= Len(a) THEN a[k] ELSE s[k - Len(a)]
  BY <1>1, ConcatProperties
<1> HIDE DEF t
<1>3. DOMAIN t = 1 .. Len(s) + 1 /\ DOMAIN s = 1 .. Len(s) /\ Len(s) \in Nat
  BY <1>1, <1>2
<1>4. \A k \in 1 .. Len(s) + 1 : t[k] = IF k = 1 THEN c ELSE s[k - 1]
  BY <1>1, <1>2, <1>3
<1>5. OnlyOnce(t)
  <2>1. ASSUME NEW j \in 1 .. Len(s) + 1, NEW k \in 1 .. Len(s) + 1, t[j] = t[k], j # k PROVE FALSE
    <3>1. CASE j = 1
      <4>1. k - 1 \in DOMAIN s /\ s[k - 1] = c
        BY <1>3, <1>4, <2>1, <3>1
      <4> QED
        BY <4>1 DEF Range
    <3>2. CASE k = 1
      <4>1. j - 1 \in DOMAIN s /\ s[j - 1] = c
        BY <1>3, <1>4, <2>1, <3>2
      <4> QED
        BY <4>1 DEF Range
    <3>3. CASE j # 1 /\ k # 1
      <4>1. j - 1 \in DOMAIN s /\ k - 1 \in DOMAIN s /\ s[j - 1] = s[k - 1] /\ j - 1 # k - 1
        BY <1>3, <1>4, <2>1, <3>3
      <4> QED
        BY <4>1 DEF OnlyOnce
    <3> QED
      BY <3>1, <3>2, <3>3
  <2> QED
    BY <1>3, <2>1 DEF OnlyOnce
<1>6. ASSUME NEW x \in Range(t) PROVE x \in Range(s) \/ x = c
  <2>1. PICK k \in 1 .. Len(s) + 1 : x = t[k]
    BY <1>3, <1>6 DEF Range
  <2>2. CASE k = 1
    BY <1>4, <2>1, <2>2
  <2>3. CASE k # 1
    <3>1. k - 1 \in DOMAIN s /\ x = s[k - 1]
      BY <1>3, <1>4, <2>1, <2>3
    <3> QED
      BY <3>1 DEF Range
  <2> QED
    BY <2>2, <2>3
<1>7. ASSUME NEW x \in Range(s) PROVE x \in Range(t)
  <2>1. PICK k \in 1 .. Len(s) : x = s[k]
    BY <1>3, <1>7 DEF Range
  <2>2. k + 1 \in DOMAIN t /\ t[k + 1] = s[k]
    BY <1>3, <1>4, <2>1
  <2> QED
    BY <2>1, <2>2 DEF Range
<1>8. c \in Range(t)
  <2>1. 1 \in DOMAIN t /\ t[1] = c
    BY <1>3, <1>4
  <2> QED
    BY <2>1 DEF Range
<1> QED
  BY <1>2, <1>5, <1>6, <1>7, <1>8 DEF t, a

\* dyn_chunk_list_remove.
LEMMA UnlinkedFrom ==
    ASSUME NEW s \in Seq(Nat), NEW c \in Range(s), OnlyOnce(s)
    PROVE  LET t == Unlinked(s, c)
           IN  t \in Seq(Nat) /\ OnlyOnce(t) /\ \A x : x \in Range(t) <=> x \in Range(s) /\ x # c
<1> DEFINE i == CHOOSE i \in DOMAIN s : s[i] = c
           w == [x \in Nat |-> 0]
           t == RemoveAt(s, i)
<1>1. i \in 1 .. Len(s) /\ s[i] = c
  BY DEF Range
<1>2. Unlinked(s, c) = t
  BY DEF Unlinked
<1> HIDE DEF i
<1>3. Ordered(s, w)
  BY DEF Ordered
<1> HIDE DEF w
<1>4. t \in Seq(Nat) /\ OnlyOnce(t)
  BY <1>1, <1>3, RemovedFrom
<1>5. Ordered(t, w) /\ \A x : x \in Range(t) <=> x \in Range(s) /\ x # s[i]
  BY <1>1, <1>3, RemovedFrom
<1> QED
  BY <1>1, <1>2, <1>4, <1>5

DynType == [size : Hdrs, free : Seq(Nat), used : Seq(Nat)]
DynInv(d, O) == d \in DynType /\ Lists(d, O)

\* What each field of a list of chunks is.
LEMMA DynFields ==
    ASSUME NEW d, NEW O, DynInv(d, O)
    PROVE  /\ d.size \in Hdrs /\ d.free \in Seq(Nat) /\ d.used \in Seq(Nat)
           /\ OnlyOnce(d.free) /\ OnlyOnce(d.used) /\ Ordered(d.free, d.size)
           /\ DOMAIN d.free = 1 .. Len(d.free) /\ Len(d.free) \in Nat
           /\ Range(d.used) = O /\ O \subseteq DOMAIN d.size
           /\ Range(d.free) = DOMAIN d.size \ O
           /\ DOMAIN d.size \subseteq Nat /\ \A c \in DOMAIN d.size : d.size[c] \in Nat
           /\ \A k \in 1 .. Len(d.free) : d.free[k] \in Range(d.free)
<1>1. d.size \in Hdrs /\ d.free \in Seq(Nat) /\ d.used \in Seq(Nat)
  BY DEF DynInv, DynType
<1>2. DOMAIN d.free = 1 .. Len(d.free) /\ Len(d.free) \in Nat
  BY <1>1
<1>3. DOMAIN d.size \subseteq Nat /\ \A c \in DOMAIN d.size : d.size[c] \in Nat
  BY <1>1 DEF Hdrs
<1>4. /\ OnlyOnce(d.free) /\ OnlyOnce(d.used) /\ Range(d.used) = O /\ O \subseteq DOMAIN d.size
      /\ Range(d.free) = DOMAIN d.size \ O
  BY DEF DynInv, Lists
<1>5. Ordered(d.free, d.size)
  BY <1>2 DEF DynInv, Lists, Ordered
<1>6. \A k \in 1 .. Len(d.free) : d.free[k] \in Range(d.free)
  BY <1>2 DEF Range
<1> QED
  BY <1>1, <1>2, <1>3, <1>4, <1>5, <1>6

\* What a caller sees of a call for a chunk of n or more.
DynGave(d, new, O, n) ==
    \/ new.at = None /\ new.mem = d
    \/ /\ new.at \in Nat /\ new.at \notin O /\ DynInv(new.mem, O \cup {new.at})
       /\ new.mem.size[new.at] >= n
       /\ \A c \in O : new.mem.size[c] = d.size[c]

\* Sizes with that of c set.
IsWith(g, f, c, n) ==
    /\ g \in Hdrs /\ DOMAIN g = DOMAIN f \cup {c} /\ g[c] = n
    /\ \A x \in DOMAIN f \ {c} : g[x] = f[x]
LEMMA WithIs ==
    ASSUME NEW f \in Hdrs, NEW c \in Nat, NEW n \in Nat
    PROVE  IsWith(With(f, c, n), f, c, n)
<1> DEFINE g == With(f, c, n)
<1>1. PICK D \in SUBSET Nat : f \in [D -> Nat]
  BY DEF Hdrs
<1>2. g \in [D \cup {c} -> Nat] /\ D \cup {c} \in SUBSET Nat
  BY <1>1 DEF With
<1>3. g \in Hdrs
  BY <1>2 DEF Hdrs
<1> QED
  BY <1>1, <1>3 DEF With, IsWith

IsTaken(q, O, c, z) == c \in Nat /\ c \notin O /\ DynInv(q, O \cup {c}) /\ q.size = z

\* The i-th free chunk is taken into use, with a new size or the one it has.
LEMMA Taking ==
    ASSUME NEW d, NEW O, DynInv(d, O), NEW i \in 1 .. Len(d.free), NEW z \in Hdrs,
           DOMAIN z = DOMAIN d.size, \A x \in DOMAIN z \ {d.free[i]} : z[x] = d.size[x]
    PROVE  IsTaken([Reused(d, i) EXCEPT !.size = z], O, d.free[i], z)
<1> DEFINE c == d.free[i]
           t == RemoveAt(d.free, i)
           u == <<c>> \o d.used
           q == [Reused(d, i) EXCEPT !.size = z]
<1>1. /\ d \in DynType /\ d.size \in Hdrs /\ d.free \in Seq(Nat) /\ d.used \in Seq(Nat)
      /\ OnlyOnce(d.free) /\ OnlyOnce(d.used) /\ Ordered(d.free, d.size)
      /\ DOMAIN d.free = 1 .. Len(d.free)
      /\ Range(d.used) = O /\ O \subseteq DOMAIN d.size /\ Range(d.free) = DOMAIN d.size \ O
      /\ DOMAIN d.size \subseteq Nat /\ c \in Range(d.free)
  BY DynFields DEF DynInv
<1>2. c \in Nat /\ c \in DOMAIN z /\ c \notin O
  BY <1>1
<1>3. /\ t \in Seq(Nat) /\ OnlyOnce(t) /\ Ordered(t, d.size)
      /\ \A x : x \in Range(t) <=> x \in Range(d.free) /\ x # c
  <2>1. t \in Seq(Nat) /\ OnlyOnce(t)
    BY <1>1, RemovedFrom
  <2>2. Ordered(t, d.size) /\ \A x : x \in Range(t) <=> x \in Range(d.free) /\ x # c
    BY <1>1, RemovedFrom
  <2> QED
    BY <2>1, <2>2
<1>4. u \in Seq(Nat) /\ OnlyOnce(u) /\ \A x : x \in Range(u) <=> x \in O \/ x = c
  <2> HIDE DEF c
  <2>1. u \in Seq(Nat) /\ OnlyOnce(u)
    BY <1>1, <1>2, Prepended
  <2>2. \A x : x \in Range(u) <=> x \in Range(d.used) \/ x = c
    BY <1>1, <1>2, Prepended
  <2> QED
    BY <1>1, <2>1, <2>2
<1>5. q \in DynType /\ q.size = z /\ q.free = t /\ q.used = u
  <2>1. q = [[d EXCEPT !.free = t, !.used = u] EXCEPT !.size = z]
    BY DEF Reused
  <2> HIDE DEF q, t, u, c
  <2> QED
    BY <1>1, <1>3, <1>4, <2>1 DEF DynType
<1> HIDE DEF q, t, u, c
<1>6. DOMAIN t = 1 .. Len(t) /\ \A k \in 1 .. Len(t) : t[k] \in Range(t)
  BY <1>3 DEF Range
<1>7. \A j, k \in DOMAIN t : j < k => z[t[j]] <= z[t[k]]
  <2>1. ASSUME NEW k \in 1 .. Len(t) PROVE z[t[k]] = d.size[t[k]]
    <3>1. t[k] \in DOMAIN z \ {c}
      BY <1>1, <1>3, <1>6
    <3> QED
      BY <3>1 DEF c
  <2> QED
    BY <1>3, <1>6, <2>1 DEF Ordered
<1>8. Range(u) = O \cup {c} /\ O \cup {c} \subseteq DOMAIN z /\ Range(t) = DOMAIN z \ (O \cup {c})
  BY <1>1, <1>2, <1>3, <1>4
<1>9. Lists(q, O \cup {c})
  BY <1>3, <1>4, <1>5, <1>7, <1>8 DEF Lists
<1> QED
  BY <1>2, <1>5, <1>9 DEF DynInv, q, c, IsTaken

\* dyn_malloc: the lists as they were, or a chunk that nobody owned, large enough.
LEMMA DynMalloc ==
    ASSUME NEW d, NEW O, DynInv(d, O), NEW size \in Nat, NEW ok \in BOOLEAN
    PROVE  DynGave(d, dyn_malloc(d, size, ok), O, dyn_size_align(size))
<1> DEFINE n == dyn_size_align(size)
           fits == {i \in DOMAIN d.free : d.size[d.free[i]] >= n}
           news == 1 .. MaxChunks \ DOMAIN d.size
           last == Len(d.free)
           new == dyn_malloc(d, size, ok)
<1>1. n \in Nat
  BY DynSize
<1>2. /\ d \in DynType /\ d.size \in Hdrs /\ d.free \in Seq(Nat) /\ d.used \in Seq(Nat)
      /\ OnlyOnce(d.free) /\ OnlyOnce(d.used)
      /\ DOMAIN d.free = 1 .. Len(d.free) /\ Len(d.free) \in Nat
      /\ Range(d.used) = O /\ O \subseteq DOMAIN d.size /\ Range(d.free) = DOMAIN d.size \ O
      /\ DOMAIN d.size \subseteq Nat
      /\ \A k \in 1 .. Len(d.free) : d.free[k] \in Range(d.free)
      /\ \A c \in DOMAIN d.size : d.size[c] \in Nat
  BY DynFields DEF DynInv
<1>3. new = IF d.free = <<>>
            THEN IF ~ok \/ news = {} THEN Fail(d)
                 ELSE [at |-> LeastOf(news),
                       mem |-> [d EXCEPT !.size = With(@, LeastOf(news), n),
                                         !.used = <<LeastOf(news)>> \o @]]
            ELSE IF fits # {}
            THEN [mem |-> Reused(d, LeastOf(fits)), at |-> d.free[LeastOf(fits)]]
            ELSE IF ok
            THEN [mem |-> [Reused(d, last) EXCEPT !.size = With(@, d.free[last], n)],
                  at |-> d.free[last]]
            ELSE Fail(d)
  BY DEF dyn_malloc
<1> HIDE DEF new, n
<1>4. CASE new = Fail(d)
  BY <1>4 DEF new, n, Fail, DynGave
<1>5. CASE d.free = <<>> /\ ~(~ok \/ news = {})
  <2> DEFINE a == LeastOf(news)
             z == With(d.size, a, n)
             u == <<a>> \o d.used
             q == new.mem
  <2>1. new = [at |-> a, mem |-> [d EXCEPT !.size = With(@, a, n), !.used = <<a>> \o @]]
    BY <1>3, <1>5
  <2>2. a \in news /\ a \in Nat
    <3>1. news \in SUBSET Nat /\ news # {}
      BY <1>5, MemBounds
    <3> HIDE DEF news
    <3>2. a \in news
      BY <3>1, HasLeast
    <3> QED
      BY <3>1, <3>2
  <2>3. a \notin DOMAIN d.size /\ a \notin O
    BY <1>2, <2>2
  <2> HIDE DEF a
  <2>4. /\ z \in Hdrs /\ DOMAIN z = DOMAIN d.size \cup {a} /\ z[a] = n
        /\ \A x \in DOMAIN d.size \ {a} : z[x] = d.size[x]
    <3>1. IsWith(z, d.size, a, n)
      BY <1>1, <1>2, <2>2, WithIs
    <3> HIDE DEF z
    <3> QED
      BY <3>1 DEF IsWith
  <2>5. u \in Seq(Nat) /\ OnlyOnce(u) /\ \A x : x \in Range(u) <=> x \in O \/ x = a
    <3>1. u \in Seq(Nat) /\ OnlyOnce(u)
      BY <1>2, <2>2, <2>3, Prepended
    <3>2. \A x : x \in Range(u) <=> x \in Range(d.used) \/ x = a
      BY <1>2, <2>2, <2>3, Prepended
    <3> QED
      BY <1>2, <3>1, <3>2
  <2>6. new.at = a /\ q \in DynType /\ q.size = z /\ q.free = d.free /\ q.used = u
    <3>1. new = [at |-> a, mem |-> [d EXCEPT !.size = z, !.used = u]]
      BY <2>1
    <3> HIDE DEF z, u
    <3> QED
      BY <1>2, <2>4, <2>5, <3>1 DEF DynType
  <2> HIDE DEF z, u, q
  <2>7. Range(d.free) = {} /\ DOMAIN d.free = {}
    BY <1>5 DEF Range
  <2>8. Range(u) = O \cup {a} /\ O \cup {a} \subseteq DOMAIN z /\ Range(d.free) = DOMAIN z \ (O \cup {a})
    BY <1>2, <2>4, <2>5, <2>7
  <2>9. Lists(q, O \cup {a})
    BY <1>2, <2>5, <2>6, <2>7, <2>8 DEF Lists
  <2>10. DynInv(q, O \cup {a}) /\ q.size[a] >= n
    BY <1>1, <2>4, <2>6, <2>9 DEF DynInv
  <2>11. \A c \in O : q.size[c] = d.size[c]
    BY <1>2, <2>3, <2>4, <2>6
  <2> QED
    BY <2>2, <2>3, <2>6, <2>10, <2>11 DEF new, n, q, DynGave
<1>6. CASE d.free # <<>> /\ fits # {}
  <2> DEFINE i == LeastOf(fits)
             c == d.free[i]
             q == [Reused(d, i) EXCEPT !.size = d.size]
  <2>1. i \in fits
    <3>1. fits \in SUBSET Nat /\ fits # {}
      BY <1>2, <1>6
    <3> HIDE DEF fits
    <3> QED
      BY <3>1, HasLeast
  <2>2. i \in 1 .. Len(d.free) /\ d.size[c] >= n
    BY <1>2, <2>1
  <2>3. Reused(d, i) = q
    <3> HIDE DEF i
    <3>1. Reused(d, i) \in DynType /\ Reused(d, i).size = d.size
      <4> DEFINE t == RemoveAt(d.free, i)
                 u == <<c>> \o d.used
      <4>1. t \in Seq(Nat)
        BY <1>2, <2>2, Removed
      <4>2. c \in Nat /\ c \notin Range(d.used)
        BY <1>2, <2>2
      <4> HIDE DEF c
      <4>3. u \in Seq(Nat)
        BY <1>2, <4>2, Prepended
      <4>4. Reused(d, i) = [d EXCEPT !.free = t, !.used = u]
        BY DEF Reused, c
      <4> HIDE DEF t, u
      <4> QED
        BY <1>2, <4>1, <4>3, <4>4 DEF DynType
    <3> QED
      BY <3>1 DEF DynType
  <2>4. new.at = c /\ new.mem = q
    BY <1>3, <1>6, <2>3
  <2> HIDE DEF i
  <2>5. IsTaken(q, O, c, d.size)
    BY <1>2, <2>2, Taking
  <2> HIDE DEF q, c
  <2> QED
    BY <2>2, <2>4, <2>5 DEF new, n, DynGave, IsTaken
<1>7. CASE d.free # <<>> /\ fits = {} /\ ok
  <2> DEFINE c == d.free[last]
             z == With(d.size, c, n)
             q == [Reused(d, last) EXCEPT !.size = z]
  <2>1. last \in 1 .. Len(d.free)
    BY <1>2, <1>7
  <2>2. c \in Nat /\ c \in DOMAIN d.size /\ c \notin O
    BY <1>2, <2>1
  <2> HIDE DEF last
  <2>3. Reused(d, last).size = d.size
    BY <1>2 DEF Reused, DynType
  <2>4. new.at = c /\ new.mem = q
    <3>1. q = [Reused(d, last) EXCEPT !.size = With(@, c, n)]
      BY <2>3
    <3> QED
      BY <1>3, <1>7, <3>1
  <2>5. z \in Hdrs /\ DOMAIN z = DOMAIN d.size /\ z[c] = n /\ \A x \in DOMAIN z \ {c} : z[x] = d.size[x]
    <3> HIDE DEF c
    <3>1. IsWith(z, d.size, c, n)
      BY <1>1, <1>2, <2>2, WithIs
    <3> HIDE DEF z
    <3> QED
      BY <2>2, <3>1 DEF IsWith
  <2> HIDE DEF z
  <2>6. IsTaken(q, O, c, z)
    BY <2>1, <2>5, Taking
  <2> HIDE DEF q, c
  <2>7. \A x \in O : q.size[x] = d.size[x]
    BY <1>2, <2>2, <2>5, <2>6 DEF IsTaken
  <2> QED
    BY <1>1, <2>2, <2>4, <2>5, <2>6, <2>7 DEF new, n, DynGave, IsTaken
<1> QED
  BY <1>3, <1>4, <1>5, <1>6, <1>7

\* dyn_free: the chunk is in the free list, every other one is as it was.
LEMMA DynFree ==
    ASSUME NEW d, NEW O, DynInv(d, O), NEW c \in O
    PROVE  DynInv(dyn_free(d, c), O \ {c}) /\ dyn_free(d, c).size = d.size
<1> DEFINE s == d.free
           w == d.size
           T == {k \in 0 .. Len(s) : k < Len(s) => w[s[k + 1]] >= w[c]}
           n == LeastOf(T)
           t == InsertAt(s, n + 1, c)
           u == Unlinked(d.used, c)
           q == dyn_free(d, c)
<1>1. /\ d \in DynType /\ w \in Hdrs /\ s \in Seq(Nat) /\ d.used \in Seq(Nat)
      /\ OnlyOnce(s) /\ OnlyOnce(d.used) /\ Ordered(s, w)
      /\ DOMAIN s = 1 .. Len(s) /\ Len(s) \in Nat
      /\ Range(d.used) = O /\ O \subseteq DOMAIN w /\ Range(s) = DOMAIN w \ O
      /\ DOMAIN w \subseteq Nat
      /\ \A k \in 1 .. Len(s) : s[k] \in Range(s)
      /\ \A x \in DOMAIN w : w[x] \in Nat
  BY DynFields DEF DynInv
<1>2. q = [d EXCEPT !.used = u, !.free = t]
  BY DEF dyn_free
<1>3. c \in Nat /\ c \in DOMAIN w /\ c \in Range(d.used) /\ c \notin Range(s) /\ w[c] \in Nat
  BY <1>1
<1> HIDE DEF q, s, w
<1>4. \A k \in 1 .. Len(s) : w[s[k]] \in Nat
  BY <1>1
<1>5. n \in T /\ \A y \in T : n <= y
  <2>1. T \in SUBSET Nat /\ Len(s) \in T
    BY <1>1
  <2> HIDE DEF T
  <2> QED
    BY <2>1, HasLeast
<1> HIDE DEF n
<1>6. ASSUME NEW k \in 1 .. Len(s) PROVE IF k <= n THEN w[s[k]] <= w[c] ELSE w[c] <= w[s[k]]
  <2>1. CASE k <= n
    <3>1. k - 1 \in 0 .. Len(s) /\ k - 1 < Len(s) /\ (k - 1) + 1 = k /\ ~(n <= k - 1)
      BY <1>1, <1>5, <2>1
    <3>2. ~(w[s[k]] >= w[c])
      BY <1>5, <3>1
    <3> QED
      BY <1>3, <1>4, <2>1, <3>2
  <2>2. CASE ~(k <= n)
    <3>1. n \in 0 .. Len(s) /\ n < Len(s) /\ n + 1 \in 1 .. Len(s) /\ (n + 1 = k \/ n + 1 < k)
      BY <1>1, <1>5, <2>2
    <3>2. w[s[n + 1]] >= w[c]
      BY <1>5, <3>1
    <3>3. w[s[n + 1]] <= w[s[k]]
      BY <1>1, <1>4, <3>1 DEF Ordered
    <3> QED
      BY <1>3, <1>4, <2>2, <3>1, <3>2, <3>3
  <2> QED
    BY <2>1, <2>2
<1>7. /\ t \in Seq(Nat) /\ OnlyOnce(t) /\ Ordered(t, w)
      /\ \A x : x \in Range(t) <=> x \in Range(s) \/ x = c
  <2>1. /\ s \in Seq(Nat) /\ c \in Nat /\ n \in 0 .. Len(s) /\ OnlyOnce(s) /\ Ordered(s, w)
        /\ c \notin Range(s)
    BY <1>1, <1>3, <1>5
  <2>2. t \in Seq(Nat) /\ OnlyOnce(t)
    BY <1>6, <2>1, InsertedInto
  <2>3. Ordered(t, w)
    BY <1>6, <2>1, InsertedInto
  <2>4. \A x : x \in Range(t) <=> x \in Range(s) \/ x = c
    BY <1>6, <2>1, InsertedInto
  <2> QED
    BY <2>2, <2>3, <2>4
<1>8. u \in Seq(Nat) /\ OnlyOnce(u) /\ \A x : x \in Range(u) <=> x \in O /\ x # c
  <2>1. u \in Seq(Nat) /\ OnlyOnce(u)
    BY <1>1, <1>3, UnlinkedFrom
  <2>2. \A x : x \in Range(u) <=> x \in Range(d.used) /\ x # c
    BY <1>1, <1>3, UnlinkedFrom
  <2> QED
    BY <1>1, <2>1, <2>2
<1> HIDE DEF t, u
<1>9. q \in DynType /\ q.size = w /\ q.free = t /\ q.used = u
  BY <1>1, <1>2, <1>7, <1>8 DEF DynType, w, s
<1>10. Range(u) = O \ {c} /\ O \ {c} \subseteq DOMAIN w /\ Range(t) = DOMAIN w \ (O \ {c})
  BY <1>1, <1>3, <1>7, <1>8
<1>11. DOMAIN t = 1 .. Len(t)
  BY <1>7
<1>12. Lists(q, O \ {c})
  BY <1>7, <1>8, <1>9, <1>10, <1>11 DEF Lists, Ordered
<1> QED
  BY <1>9, <1>12 DEF DynInv, q, w

\* dyn_realloc: without memory the block keeps its size, and only its place in the list
\* of used chunks changes.
LEMMA DynRealloc ==
    ASSUME NEW d, NEW O, DynInv(d, O), NEW c \in O, NEW size \in Nat, NEW ok \in BOOLEAN
    PROVE  LET new == dyn_realloc(d, c, size, ok)
           IN  /\ new.at \in {c, None} /\ DynInv(new.mem, O)
               /\ new.at = c => new.mem.size[c] >= dyn_size_align(size)
               /\ new.at = None => new.mem.size = d.size
               /\ \A x \in O \ {c} : new.mem.size[x] = d.size[x]
<1> DEFINE n == dyn_size_align(size)
           new == dyn_realloc(d, c, size, ok)
           v == Unlinked(d.used, c)
           u == <<c>> \o v
           z == IF ok THEN With(d.size, c, n) ELSE d.size
           q == [d EXCEPT !.used = u, !.size = z]
<1>1. n \in Nat
  BY DynSize
<1>2. /\ d \in DynType /\ d.size \in Hdrs /\ d.free \in Seq(Nat) /\ d.used \in Seq(Nat)
      /\ OnlyOnce(d.free) /\ OnlyOnce(d.used) /\ Ordered(d.free, d.size)
      /\ DOMAIN d.free = 1 .. Len(d.free)
      /\ Range(d.used) = O /\ O \subseteq DOMAIN d.size /\ Range(d.free) = DOMAIN d.size \ O
      /\ DOMAIN d.size \subseteq Nat
      /\ \A k \in 1 .. Len(d.free) : d.free[k] \in Range(d.free)
      /\ \A x \in DOMAIN d.size : d.size[x] \in Nat
  BY DynFields DEF DynInv
<1>3. c \in Nat /\ c \in Range(d.used) /\ c \in DOMAIN d.size /\ c # None
  BY <1>2, MemBounds
<1>4. new = IF d.size[c] >= n THEN [mem |-> d, at |-> c] ELSE [at |-> IF ok THEN c ELSE None, mem |-> q]
  BY DEF dyn_realloc
<1> HIDE DEF new, n
<1>5. CASE d.size[c] >= n
  BY <1>3, <1>4, <1>5 DEF new, n
<1>6. CASE ~(d.size[c] >= n)
  <2>1. v \in Seq(Nat) /\ OnlyOnce(v) /\ \A x : x \in Range(v) <=> x \in O /\ x # c
    <3>1. v \in Seq(Nat) /\ OnlyOnce(v)
      BY <1>2, <1>3, UnlinkedFrom
    <3>2. \A x : x \in Range(v) <=> x \in Range(d.used) /\ x # c
      BY <1>2, <1>3, UnlinkedFrom
    <3> QED
      BY <1>2, <3>1, <3>2
  <2> HIDE DEF v
  <2>2. u \in Seq(Nat) /\ OnlyOnce(u) /\ \A x : x \in Range(u) <=> x \in O
    <3>1. u \in Seq(Nat) /\ OnlyOnce(u)
      BY <1>3, <2>1, Prepended
    <3>2. \A x : x \in Range(u) <=> x \in Range(v) \/ x = c
      BY <1>3, <2>1, Prepended
    <3> QED
      BY <2>1, <3>1, <3>2
  <2>3. /\ z \in Hdrs /\ DOMAIN z = DOMAIN d.size /\ (ok => z[c] = n) /\ (~ok => z = d.size)
        /\ \A x \in DOMAIN z \ {c} : z[x] = d.size[x]
    <3>1. CASE ok
      <4>1. z = With(d.size, c, n)
        BY <3>1
      <4>2. IsWith(With(d.size, c, n), d.size, c, n)
        BY <1>1, <1>2, <1>3, WithIs
      <4> HIDE DEF z
      <4> QED
        BY <1>3, <3>1, <4>1, <4>2 DEF IsWith
    <3>2. CASE ~ok
      BY <1>2, <3>2
    <3> QED
      BY <3>1, <3>2
  <2> HIDE DEF u, z
  <2>4. q \in DynType /\ q.size = z /\ q.free = d.free /\ q.used = u
    BY <1>2, <2>2, <2>3 DEF DynType
  <2> HIDE DEF q
  <2>5. \A j, k \in DOMAIN d.free : j < k => z[d.free[j]] <= z[d.free[k]]
    <3>1. ASSUME NEW k \in 1 .. Len(d.free) PROVE z[d.free[k]] = d.size[d.free[k]]
      <4>1. d.free[k] \in DOMAIN z \ {c}
        BY <1>2, <2>3
      <4> QED
        BY <2>3, <4>1
    <3>2. ASSUME NEW j \in 1 .. Len(d.free), NEW k \in 1 .. Len(d.free), j < k
          PROVE  z[d.free[j]] <= z[d.free[k]]
      <4>1. d.size[d.free[j]] <= d.size[d.free[k]]
        BY <1>2, <3>2 DEF Ordered
      <4> QED
        BY <3>1, <4>1
    <3> QED
      BY <1>2, <3>2
  <2>6. Range(u) = O /\ O \subseteq DOMAIN z /\ Range(d.free) = DOMAIN z \ O
    BY <1>2, <2>2, <2>3
  <2>7. DynInv(q, O)
    BY <1>2, <2>2, <2>4, <2>5, <2>6 DEF DynInv, Lists
  <2>8. new.at = (IF ok THEN c ELSE None) /\ new.mem = q
    BY <1>4, <1>6
  <2>9. \A x \in O \ {c} : q.size[x] = d.size[x]
    BY <1>2, <2>3, <2>4
  <2>10. ok => q.size[c] >= n
    BY <1>1, <2>3, <2>4
  <2> QED
    BY <1>3, <2>3, <2>4, <2>7, <2>8, <2>9, <2>10 DEF new, n
<1> QED
  BY <1>5, <1>6

-----------------------------------------------------------------------------
(* Either allocator, as its callers see it.                                *)

Allocs == {"pool", "dyn"}
Sound(a, s, O) == IF a = "pool" THEN PoolInv(s, O) ELSE DynInv(s, O)
Width(a, s, c) == IF a = "pool" THEN s.hdr[c] ELSE s.size[c]
Need(a, n) == IF a = "pool" THEN pool_size_align(n) ELSE dyn_size_align(n)
SameWidths(a, s, t, O) == \A c \in O : Width(a, t, c) = Width(a, s, c)
GaveOne(a, s, new, O, n) ==
    /\ new.at \in Nat /\ new.at \notin O /\ Sound(a, new.mem, O \cup {new.at})
    /\ Width(a, new.mem, new.at) >= n /\ SameWidths(a, s, new.mem, O)

\* A block is as large as its size with a header, rounded up.
LEMMA Needs ==
    ASSUME NEW a, NEW n \in Nat
    PROVE  Need(a, n) \in Nat /\ Need(a, n) >= n + Header
BY PoolSize, DynSize DEF Need
\* What is owned has an address and a size.
LEMMA SoundIs ==
    ASSUME NEW a \in Allocs, NEW s, NEW O, Sound(a, s, O)
    PROVE  O \subseteq Nat /\ \A c \in O : Width(a, s, c) \in Nat
<1>1. CASE a = "pool"
  <2>1. PoolInv(s, O)
    BY <1>1 DEF Sound
  <2>2. DOMAIN s.hdr \subseteq Nat /\ \A c \in DOMAIN s.hdr : s.hdr[c] \in Nat
    BY <2>1, PoolFields
  <2>3. O \subseteq DOMAIN s.hdr
    BY <2>1 DEF PoolInv
  <2> QED
    BY <1>1, <2>2, <2>3 DEF Width
<1>2. CASE a # "pool"
  <2>1. DynInv(s, O)
    BY <1>2 DEF Sound
  <2>2. DOMAIN s.size \subseteq Nat /\ \A c \in DOMAIN s.size : s.size[c] \in Nat
    BY <2>1, DynFields
  <2>3. O \subseteq DOMAIN s.size
    BY <2>1, DynFields
  <2> QED
    BY <1>2, <2>2, <2>3 DEF Width
<1> QED
  BY <1>1, <1>2

\* malloc: nothing, or a block that nobody owned.
LEMMA MallocIs ==
    ASSUME NEW s, NEW O, Sound(alc, s, O), NEW n \in Nat, NEW ok \in BOOLEAN
    PROVE  \/ Malloc(s, n, ok).at = None /\ Malloc(s, n, ok).mem = s
           \/ GaveOne(alc, s, Malloc(s, n, ok), O, Need(alc, n))
<1> DEFINE new == Malloc(s, n, ok)
<1>1. CASE alc = "pool"
  <2>1. new = pool_malloc(s, n) /\ PoolInv(s, O)
    BY <1>1 DEF Malloc, Sound
  <2>2. PoolGave(s, pool_malloc(s, n), O, pool_size_align(n))
    BY <2>1, PoolMalloc
  <2> HIDE DEF new
  <2>3. \/ new.at = None /\ new.mem = s
        \/ GaveOne(alc, s, new, O, Need(alc, n))
    BY <1>1, <2>1, <2>2 DEF PoolGave, GaveOne, Sound, Width, SameWidths, Need
  <2> QED
    BY <2>3 DEF new
<1>2. CASE alc # "pool"
  <2>1. new = dyn_malloc(s, n, ok) /\ DynInv(s, O)
    BY <1>2 DEF Malloc, Sound
  <2>2. DynGave(s, dyn_malloc(s, n, ok), O, dyn_size_align(n))
    BY <2>1, DynMalloc
  <2> HIDE DEF new
  <2>3. \/ new.at = None /\ new.mem = s
        \/ GaveOne(alc, s, new, O, Need(alc, n))
    BY <1>2, <2>1, <2>2 DEF DynGave, GaveOne, Sound, Width, SameWidths, Need
  <2> QED
    BY <2>3 DEF new
<1> QED
  BY <1>1, <1>2

\* free: the block is nobody's.
LEMMA FreeIs ==
    ASSUME NEW s, NEW O, Sound(alc, s, O), NEW c \in O
    PROVE  Sound(alc, Free(s, c), O \ {c}) /\ SameWidths(alc, s, Free(s, c), O \ {c})
<1>1. CASE alc = "pool"
  <2>1. Free(s, c) = pool_free(s, c) /\ PoolInv(s, O)
    BY <1>1 DEF Free, Sound
  <2>2. /\ PoolInv(pool_free(s, c), O \ {c})
        /\ \A x \in O \ {c} : pool_free(s, c).hdr[x] = s.hdr[x]
    BY <2>1, PoolFree
  <2> QED
    BY <1>1, <2>1, <2>2 DEF Sound, Width, SameWidths
<1>2. CASE alc # "pool"
  <2>1. Free(s, c) = dyn_free(s, c) /\ DynInv(s, O)
    BY <1>2 DEF Free, Sound
  <2>2. DynInv(dyn_free(s, c), O \ {c}) /\ dyn_free(s, c).size = s.size
    BY <2>1, DynFree
  <2> QED
    BY <1>2, <2>1, <2>2 DEF Sound, Width, SameWidths
<1> QED
  BY <1>1, <1>2

\* realloc: the blocks there were, or a larger one in place of c.
LEMMA ReallocIs ==
    ASSUME NEW s, NEW O, Sound(alc, s, O), NEW c \in O, NEW old \in Nat, NEW size \in Nat,
           NEW ok \in BOOLEAN, Width(alc, s, c) >= Need(alc, old)
    PROVE  LET new == Realloc(s, c, old, size, ok)
           IN  \/ new.at = None /\ Sound(alc, new.mem, O) /\ SameWidths(alc, s, new.mem, O)
               \/ GaveOne(alc, s, new, O \ {c}, Need(alc, size))
<1> DEFINE new == Realloc(s, c, old, size, ok)
<1>1. CASE alc = "pool"
  <2>1. new = pool_realloc(s, c, old, size) /\ PoolInv(s, O) /\ s.hdr[c] >= pool_size_align(old)
    BY <1>1 DEF Realloc, Sound, Width, Need
  <2>2. PoolGave(s, pool_realloc(s, c, old, size), O \ {c}, pool_size_align(size))
    BY <2>1, PoolRealloc
  <2> HIDE DEF new
  <2>3. \/ new.at = None /\ Sound(alc, new.mem, O) /\ SameWidths(alc, s, new.mem, O)
        \/ GaveOne(alc, s, new, O \ {c}, Need(alc, size))
    BY <1>1, <2>1, <2>2 DEF PoolGave, GaveOne, Sound, Width, SameWidths, Need
  <2> QED
    BY <2>3 DEF new
<1>2. CASE alc # "pool"
  <2>1. new = dyn_realloc(s, c, size, ok) /\ DynInv(s, O)
    BY <1>2 DEF Realloc, Sound
  <2>2. c \in Nat /\ (O \ {c}) \cup {c} = O
    BY <2>1, DynFields
  <2>3. /\ new.at \in {c, None} /\ DynInv(new.mem, O)
        /\ new.at = c => new.mem.size[c] >= dyn_size_align(size)
        /\ new.at = None => new.mem.size = s.size
        /\ \A x \in O \ {c} : new.mem.size[x] = s.size[x]
    BY <2>1, DynRealloc
  <2> HIDE DEF new
  <2>4. CASE new.at = None
    BY <1>2, <2>3, <2>4 DEF Sound, Width, SameWidths, new
  <2>5. CASE new.at = c
    <3>1. GaveOne(alc, s, new, O \ {c}, Need(alc, size))
      BY <1>2, <2>2, <2>3, <2>5 DEF GaveOne, Sound, Width, SameWidths, Need
    <3> QED
      BY <3>1 DEF new
  <2> QED
    BY <2>3, <2>4, <2>5
<1> QED
  BY <1>1, <1>2

-----------------------------------------------------------------------------
(* The blocks of a document.                                               *)

\* Two lists one behind the other.
LEMMA Joined ==
    ASSUME NEW s \in Seq(Nat), NEW t \in Seq(Nat)
    PROVE  /\ s \o t \in Seq(Nat)
           /\ \A x : x \in Range(s \o t) <=> x \in Range(s) \/ x \in Range(t)
           /\ OnlyOnce(s \o t) <=> OnlyOnce(s) /\ OnlyOnce(t) /\ \A x \in Range(s) : x \notin Range(t)
<1> DEFINE u == s \o t
           m == Len(s)
           n == Len(t)
<1>1. /\ u \in Seq(Nat) /\ Len(u) = m + n
      /\ \A k \in 1 .. m + n : u[k] = IF k <= m THEN s[k] ELSE t[k - m]
  BY ConcatProperties
<1>2. m \in Nat /\ n \in Nat /\ DOMAIN s = 1 .. m /\ DOMAIN t = 1 .. n
  OBVIOUS
<1> HIDE DEF u
<1>3. DOMAIN u = 1 .. m + n
  BY <1>1
<1> HIDE DEF m, n
<1>4. \A k \in 1 .. m : k \in 1 .. m + n /\ u[k] = s[k]
  BY <1>1, <1>2
<1>5. ASSUME NEW k \in 1 .. n PROVE m + k \in 1 .. m + n /\ u[m + k] = t[k]
  <2>1. m + k \in 1 .. m + n /\ ~(m + k <= m) /\ (m + k) - m = k
    BY <1>2
  <2> QED
    BY <1>1, <2>1
<1>6. ASSUME NEW k \in 1 .. m + n, ~(k <= m) PROVE k - m \in 1 .. n /\ u[k] = t[k - m]
  BY <1>1, <1>2, <1>6
<1>7. ASSUME NEW x PROVE x \in Range(u) <=> x \in Range(s) \/ x \in Range(t)
  <2>1. ASSUME x \in Range(u) PROVE x \in Range(s) \/ x \in Range(t)
    <3>1. PICK k \in 1 .. m + n : x = u[k]
      BY <1>3, <2>1 DEF Range
    <3>2. CASE k <= m
      <4>1. k \in 1 .. m
        BY <1>2, <3>2
      <4> QED
        BY <1>2, <1>4, <3>1, <4>1 DEF Range
    <3>3. CASE ~(k <= m)
      BY <1>2, <1>6, <3>1, <3>3 DEF Range
    <3> QED
      BY <3>2, <3>3
  <2>2. ASSUME x \in Range(s) PROVE x \in Range(u)
    BY <1>2, <1>3, <1>4, <2>2 DEF Range
  <2>3. ASSUME x \in Range(t) PROVE x \in Range(u)
    BY <1>2, <1>3, <1>5, <2>3 DEF Range
  <2> QED
    BY <2>1, <2>2, <2>3
<1>8. ASSUME OnlyOnce(u) PROVE OnlyOnce(s) /\ OnlyOnce(t) /\ \A x \in Range(s) : x \notin Range(t)
  <2>1. OnlyOnce(s)
    BY <1>2, <1>3, <1>4, <1>8 DEF OnlyOnce
  <2>2. ASSUME NEW j \in 1 .. n, NEW k \in 1 .. n, t[j] = t[k] PROVE j = k
    <3>1. m + j = m + k
      BY <1>3, <1>5, <1>8, <2>2 DEF OnlyOnce
    <3> QED
      BY <1>2, <3>1
  <2>3. ASSUME NEW x \in Range(s), x \in Range(t) PROVE FALSE
    <3>1. PICK j \in 1 .. m : x = s[j]
      BY <1>2, <2>3 DEF Range
    <3>2. PICK k \in 1 .. n : x = t[k]
      BY <1>2, <2>3 DEF Range
    <3>3. j = m + k
      BY <1>3, <1>4, <1>5, <1>8, <3>1, <3>2 DEF OnlyOnce
    <3> QED
      BY <1>2, <3>3
  <2> QED
    BY <1>2, <2>1, <2>2, <2>3 DEF OnlyOnce
<1>9. ASSUME OnlyOnce(s), OnlyOnce(t), \A x \in Range(s) : x \notin Range(t) PROVE OnlyOnce(u)
  <2>1. ASSUME NEW j \in 1 .. m + n, NEW k \in 1 .. m + n, u[j] = u[k] PROVE j = k
    <3>1. CASE j <= m /\ k <= m
      <4>1. j \in 1 .. m /\ k \in 1 .. m
        BY <1>2, <3>1
      <4> QED
        BY <1>2, <1>4, <1>9, <2>1, <4>1 DEF OnlyOnce
    <3>2. CASE ~(j <= m) /\ ~(k <= m)
      <4>1. j - m = k - m
        BY <1>2, <1>6, <1>9, <2>1, <3>2 DEF OnlyOnce
      <4> QED
        BY <1>2, <4>1
    <3>3. CASE j <= m /\ ~(k <= m)
      <4>1. j \in 1 .. m /\ s[j] = t[k - m] /\ k - m \in 1 .. n
        BY <1>2, <1>4, <1>6, <2>1, <3>3
      <4> QED
        BY <1>2, <1>9, <4>1 DEF Range
    <3>4. CASE ~(j <= m) /\ k <= m
      <4>1. k \in 1 .. m /\ s[k] = t[j - m] /\ j - m \in 1 .. n
        BY <1>2, <1>4, <1>6, <2>1, <3>4
      <4> QED
        BY <1>2, <1>9, <4>1 DEF Range
    <3> QED
      BY <3>1, <3>2, <3>3, <3>4
  <2> QED
    BY <1>3, <2>1 DEF OnlyOnce
<1> QED
  BY <1>1, <1>7, <1>8, <1>9 DEF u

\* A single block.
LEMMA Single ==
    ASSUME NEW c \in Nat
    PROVE  <<c>> \in Seq(Nat) /\ OnlyOnce(<<c>>) /\ \A x : x \in Range(<<c>>) <=> x = c
<1>1. <<c>> \in Seq(Nat) /\ DOMAIN <<c>> = {1} /\ <<c>>[1] = c
  OBVIOUS
<1> QED
  BY <1>1 DEF OnlyOnce, Range

\* The blocks of a document: those of its strings, those of its values and its own.
DocBlocks(d) == d.str.chunks \o d.val.chunks \o <<d.at>>
PartsApart(d) ==
    /\ OnlyOnce(d.str.chunks) /\ OnlyOnce(d.val.chunks)
    /\ \A x \in Range(d.str.chunks) : x \notin Range(d.val.chunks)
    /\ d.at \notin Range(d.str.chunks) /\ d.at \notin Range(d.val.chunks)
LEMMA DocBlocksAre ==
    ASSUME NEW d, d.str.chunks \in Seq(Nat), d.val.chunks \in Seq(Nat), d.at \in Nat
    PROVE  /\ DocBlocks(d) \in Seq(Nat)
           /\ Range(DocBlocks(d)) = Range(d.str.chunks) \cup Range(d.val.chunks) \cup {d.at}
           /\ OnlyOnce(DocBlocks(d)) <=> PartsApart(d)
<1> DEFINE s == d.str.chunks
           v == d.val.chunks
           c == d.at
           u == s \o v
<1>1. s \in Seq(Nat) /\ v \in Seq(Nat) /\ c \in Nat /\ DocBlocks(d) = u \o <<c>>
  BY DEF DocBlocks
<1>2. PartsApart(d) <=> /\ OnlyOnce(s) /\ OnlyOnce(v)
                        /\ \A x \in Range(s) : x \notin Range(v)
                        /\ c \notin Range(s) /\ c \notin Range(v)
  BY DEF PartsApart
<1> HIDE DEF s, v, c
<1>3. /\ u \in Seq(Nat) /\ \A x : x \in Range(u) <=> x \in Range(s) \/ x \in Range(v)
      /\ OnlyOnce(u) <=> OnlyOnce(s) /\ OnlyOnce(v) /\ \A x \in Range(s) : x \notin Range(v)
  BY <1>1, Joined
<1> HIDE DEF u
<1>4. <<c>> \in Seq(Nat) /\ OnlyOnce(<<c>>) /\ \A x : x \in Range(<<c>>) <=> x = c
  BY <1>1, Single
<1> DEFINE e == <<c>>
<1> HIDE DEF e
<1>5. e \in Seq(Nat) /\ OnlyOnce(e) /\ \A x : x \in Range(e) <=> x = c
  BY <1>4 DEF e
<1>6. /\ u \o e \in Seq(Nat) /\ \A x : x \in Range(u \o e) <=> x \in Range(u) \/ x \in Range(e)
      /\ OnlyOnce(u \o e) <=> OnlyOnce(u) /\ OnlyOnce(e) /\ \A x \in Range(u) : x \notin Range(e)
  BY <1>3, <1>5, Joined
<1>7. DocBlocks(d) = u \o e
  BY <1>1 DEF e
<1>8. Range(u \o e) = Range(s) \cup Range(v) \cup {c}
  BY <1>3, <1>5, <1>6
<1>9. OnlyOnce(u \o e) <=> PartsApart(d)
  BY <1>2, <1>3, <1>5, <1>6
<1> QED
  BY <1>6, <1>7, <1>8, <1>9 DEF s, v, c

\* A pool of strings or values that keeps its spans apart, on a memory s.
PoolRec == [chunks : Seq(Nat), cur : Nat, end : Nat, chunk_size : Nat,
            spans : SUBSET [at : Nat, from : Nat, n : Nat, room : Nat]]
PoolOk(a, s, pool) ==
    /\ pool \in PoolRec /\ pool.cur <= pool.end
    /\ pool.chunks = <<>> => pool.end = 0
    /\ pool.chunks # <<>> => pool.end + Header <= Width(a, s, Head(pool.chunks))
    /\ \A x \in pool.spans :
          /\ x.at \in Range(pool.chunks)
          /\ x.from + x.n <= x.room /\ x.room + Header <= Width(a, s, x.at)
          /\ x.at = Head(pool.chunks) => x.from + x.n <= pool.cur
          /\ \A y \in pool.spans : x.at = y.at /\ x # y => x.from + x.n <= y.from \/ y.from + y.n <= x.from

\* A pool stays as it is while its chunks keep their sizes.
LEMMA PoolStays ==
    ASSUME NEW a, NEW s, NEW t, NEW O, NEW pool, PoolOk(a, s, pool), Range(pool.chunks) \subseteq O,
           SameWidths(a, s, t, O)
    PROVE  PoolOk(a, t, pool)
<1>1. \A c \in Range(pool.chunks) : Width(a, t, c) = Width(a, s, c)
  BY DEF SameWidths
<1>2. pool.chunks # <<>> => Head(pool.chunks) \in Range(pool.chunks)
  <2>1. pool.chunks \in Seq(Nat)
    BY DEF PoolOk, PoolRec
  <2> QED
    BY <2>1 DEF Range
<1> QED
  BY <1>1, <1>2 DEF PoolOk

\* n units more are taken from the chunk there is.
LEMMA TakenIs ==
    ASSUME NEW a, NEW s, NEW pool, PoolOk(a, s, pool), pool.chunks # <<>>, NEW n \in Nat,
           pool.cur + n <= pool.end, Width(a, s, Head(pool.chunks)) \in Nat
    PROVE  PoolOk(a, s, Taken(pool, n)) /\ Taken(pool, n).chunks = pool.chunks
<1> DEFINE q == Taken(pool, n)
           h == Head(pool.chunks)
           z == [at |-> h, from |-> pool.cur, n |-> n, room |-> pool.end]
<1>1. pool \in PoolRec /\ pool.cur \in Nat /\ pool.end \in Nat /\ pool.chunks \in Seq(Nat)
      /\ \A x \in pool.spans : x.at \in Nat /\ x.from \in Nat /\ x.n \in Nat /\ x.room \in Nat
  BY DEF PoolOk, PoolRec
<1>2. h \in Nat /\ h \in Range(pool.chunks)
  BY <1>1 DEF Range
<1>3. q = [pool EXCEPT !.cur = @ + n, !.spans = @ \cup {z}]
  BY DEF Taken
<1>4. z \in [at : Nat, from : Nat, n : Nat, room : Nat]
  BY <1>1, <1>2
<1>5. z.at = h /\ z.from = pool.cur /\ z.n = n /\ z.room = pool.end
  OBVIOUS
<1> HIDE DEF q, h, z
<1>6. /\ q \in PoolRec /\ q.cur = pool.cur + n /\ q.end = pool.end /\ q.chunks = pool.chunks
      /\ q.spans = pool.spans \cup {z}
  <2> DEFINE cur == pool.cur + n
             spans == pool.spans \cup {z}
  <2>1. /\ cur \in Nat /\ spans \in SUBSET [at : Nat, from : Nat, n : Nat, room : Nat]
        /\ q = [pool EXCEPT !.cur = cur, !.spans = spans]
    BY <1>1, <1>3, <1>4 DEF PoolRec
  <2> HIDE DEF cur, spans
  <2>2. /\ q \in PoolRec /\ q.cur = cur /\ q.end = pool.end /\ q.chunks = pool.chunks
        /\ q.spans = spans
    BY <1>1, <2>1 DEF PoolRec
  <2> QED
    BY <2>2 DEF cur, spans
<1>7. pool.end + Header <= Width(a, s, h)
  BY DEF PoolOk, h
<1>8. ASSUME NEW x \in q.spans
      PROVE  /\ x.at \in Range(q.chunks) /\ x.from + x.n <= x.room /\ x.room + Header <= Width(a, s, x.at)
             /\ x.at = Head(q.chunks) => x.from + x.n <= q.cur
  <2>1. CASE x = z
    BY <1>1, <1>2, <1>5, <1>6, <1>7, <2>1
  <2>2. CASE x \in pool.spans
    <3>1. x.at \in Range(q.chunks) /\ x.from + x.n <= x.room /\ x.room + Header <= Width(a, s, x.at)
      BY <1>6, <2>2 DEF PoolOk
    <3>2. x.at = Head(q.chunks) => x.from + x.n <= pool.cur
      BY <1>6, <2>2 DEF PoolOk
    <3> QED
      BY <1>1, <1>6, <2>2, <3>1, <3>2
  <2> QED
    BY <1>6, <2>1, <2>2
<1>9. ASSUME NEW x \in q.spans, NEW y \in q.spans, x.at = y.at, x # y
      PROVE  x.from + x.n <= y.from \/ y.from + y.n <= x.from
  <2>1. CASE x \in pool.spans /\ y \in pool.spans
    BY <1>9, <2>1 DEF PoolOk
  <2>2. CASE x = z /\ y \in pool.spans
    <3>1. y.from + y.n <= pool.cur
      BY <1>5, <1>9, <2>2 DEF PoolOk, h
    <3> QED
      BY <1>5, <2>2, <3>1
  <2>3. CASE x \in pool.spans /\ y = z
    <3>1. x.from + x.n <= pool.cur
      BY <1>5, <1>9, <2>3 DEF PoolOk, h
    <3> QED
      BY <1>5, <2>3, <3>1
  <2> QED
    BY <1>6, <1>9, <2>1, <2>2, <2>3
<1>10. PoolOk(a, s, q)
  BY <1>1, <1>6, <1>7, <1>8, <1>9 DEF PoolOk, h
<1> QED
  BY <1>6, <1>10 DEF q

\* A pool that grows: as it was, or with a new chunk of the allocator's at its head.
Grew(a, s, O, pool, g, size) ==
    /\ g.at \in Nat /\ g.at \notin O /\ Sound(a, g.mem, O \cup {g.at})
    /\ SameWidths(a, s, g.mem, O) /\ g.pool.chunks = <<g.at>> \o pool.chunks
    /\ PoolOk(a, g.mem, g.pool) /\ g.pool.cur + size <= g.pool.end
LEMMA GrownIs ==
    ASSUME alc \in Allocs, NEW s, NEW O, Sound(alc, s, O), NEW pool, PoolOk(alc, s, pool),
           Range(pool.chunks) \subseteq O, NEW size \in Nat, NEW hdr \in Nat, NEW most \in Nat,
           NEW ok \in BOOLEAN
    PROVE  LET g == Grown(s, pool, size, hdr, most, ok)
           IN  \/ g.at = None /\ g.mem = s /\ g.pool = pool
               \/ Grew(alc, s, O, pool, g, size)
<1> DEFINE room == IF size + hdr > pool.chunk_size THEN size + hdr ELSE pool.chunk_size
           new == Malloc(s, room, ok)
           next == IF 2 * pool.chunk_size < most THEN 2 * pool.chunk_size ELSE most
           then == IF next < pool.chunk_size THEN most ELSE next
           q == [pool EXCEPT !.chunks = <<new.at>> \o @, !.cur = hdr, !.end = room, !.chunk_size = then]
           g == Grown(s, pool, size, hdr, most, ok)
<1>1. /\ pool \in PoolRec /\ pool.cur \in Nat /\ pool.end \in Nat /\ pool.chunks \in Seq(Nat)
      /\ pool.chunk_size \in Nat
      /\ \A x \in pool.spans : x.at \in Nat /\ x.from \in Nat /\ x.n \in Nat /\ x.room \in Nat
  BY DEF PoolOk, PoolRec
<1>2. room \in Nat /\ room >= size + hdr /\ next \in Nat /\ then \in Nat
  BY <1>1
<1>3. g = [mem |-> new.mem, at |-> new.at, pool |-> IF new.at = None THEN pool ELSE q]
  BY DEF Grown
<1> HIDE DEF g, room, then, next
<1>4. \/ new.at = None /\ new.mem = s
      \/ GaveOne(alc, s, new, O, Need(alc, room))
  BY <1>2, MallocIs
<1> HIDE DEF new
<1>5. CASE new.at = None /\ new.mem = s
  BY <1>3, <1>5 DEF g
<1>6. CASE GaveOne(alc, s, new, O, Need(alc, room))
  <2> DEFINE c == new.at
             t == new.mem
  <2>1. /\ c \in Nat /\ c \notin O /\ Sound(alc, t, O \cup {c}) /\ Width(alc, t, c) >= Need(alc, room)
        /\ SameWidths(alc, s, t, O)
    BY <1>6 DEF GaveOne
  <2>2. c # None /\ c \notin Range(pool.chunks)
    BY <2>1, MemBounds
  <2>3. Width(alc, t, c) \in Nat /\ room + Header <= Width(alc, t, c)
    <3>1. Width(alc, t, c) \in Nat
      BY <2>1, SoundIs
    <3>2. Need(alc, room) \in Nat /\ Need(alc, room) >= room + Header
      BY <1>2, Needs
    <3> QED
      BY <1>2, <2>1, <3>1, <3>2 DEF Header
  <2>4. g.at = c /\ g.mem = t /\ g.pool = q
    BY <1>3, <2>2
  <2> DEFINE L == <<c>> \o pool.chunks
  <2>5. L \in Seq(Nat) /\ L # <<>> /\ Head(L) = c
    BY <1>1, <2>1
  <2>6. \A x : x \in Range(L) <=> x = c \/ x \in Range(pool.chunks)
    <3>1. <<c>> \in Seq(Nat) /\ \A x : x \in Range(<<c>>) <=> x = c
      BY <2>1, Single
    <3> DEFINE e == <<c>>
    <3>2. e \in Seq(Nat) /\ \A x : x \in Range(e) <=> x = c
      BY <3>1
    <3> HIDE DEF e
    <3>3. \A x : x \in Range(e \o pool.chunks) <=> x \in Range(e) \/ x \in Range(pool.chunks)
      BY <1>1, <3>2, Joined
    <3>4. L = e \o pool.chunks
      BY DEF e
    <3> QED
      BY <3>2, <3>3, <3>4
  <2> HIDE DEF L
  <2>7. /\ q \in PoolRec /\ q.chunks = L /\ q.cur = hdr /\ q.end = room /\ q.spans = pool.spans
    <3>1. q = [pool EXCEPT !.chunks = L, !.cur = hdr, !.end = room, !.chunk_size = then]
      BY DEF L
    <3> HIDE DEF q
    <3> QED
      BY <1>1, <1>2, <2>5, <3>1 DEF PoolRec
  <2> HIDE DEF q
  <2>8. ASSUME NEW x \in q.spans
        PROVE  /\ x.at \in Range(L) /\ x.from + x.n <= x.room /\ x.room + Header <= Width(alc, t, x.at)
               /\ x.at # c
    <3>1. x.at \in Range(pool.chunks) /\ x.from + x.n <= x.room /\ x.room + Header <= Width(alc, s, x.at)
      BY <2>7, <2>8 DEF PoolOk
    <3>2. x.at \in O
      BY <3>1
    <3> QED
      BY <2>1, <2>2, <2>6, <3>1, <3>2 DEF SameWidths
  <2>9. ASSUME NEW x \in q.spans, NEW y \in q.spans, x.at = y.at, x # y
        PROVE  x.from + x.n <= y.from \/ y.from + y.n <= x.from
    BY <2>7, <2>9 DEF PoolOk
  <2>10. PoolOk(alc, t, q)
    <3>1. q.cur <= q.end
      BY <1>2, <2>7
    <3> QED
      BY <2>3, <2>5, <2>7, <2>8, <2>9, <3>1 DEF PoolOk
  <2>11. q.cur + size <= q.end
    BY <1>2, <2>7
  <2>12. Grew(alc, s, O, pool, g, size)
    BY <2>1, <2>4, <2>7, <2>10, <2>11 DEF Grew, L
  <2> QED
    BY <2>12 DEF g
<1> QED
  BY <1>4, <1>5, <1>6

\* A string or a value finds its place in the chunk there is, in a new one, or nowhere.
Extended(a, s, O, pool, r) ==
    \/ r.mem = s /\ r.pool.chunks = pool.chunks /\ PoolOk(a, s, r.pool)
    \/ \E c \in Nat : /\ c \notin O /\ Sound(a, r.mem, O \cup {c}) /\ SameWidths(a, s, r.mem, O)
                      /\ r.pool.chunks = <<c>> \o pool.chunks /\ PoolOk(a, r.mem, r.pool)
\* What is asked for is taken from the new chunk.
LEMMA GrownTaken ==
    ASSUME alc \in Allocs, NEW s, NEW O, NEW pool, PoolOk(alc, s, pool), NEW size \in Nat, NEW g,
           g = [mem |-> g.mem, at |-> g.at, pool |-> g.pool], Grew(alc, s, O, pool, g, size)
    PROVE  Extended(alc, s, O, pool, [g EXCEPT !.pool = Taken(@, size)])
<1> DEFINE L == <<g.at>> \o pool.chunks
           r == [g EXCEPT !.pool = Taken(@, size)]
<1>1. /\ g.at \in Nat /\ g.at \notin O /\ Sound(alc, g.mem, O \cup {g.at})
      /\ SameWidths(alc, s, g.mem, O) /\ g.pool.chunks = L
      /\ PoolOk(alc, g.mem, g.pool) /\ g.pool.cur + size <= g.pool.end
  BY DEF Grew
<1>2. L # <<>> /\ Head(L) = g.at
  <2>1. pool.chunks \in Seq(Nat)
    BY DEF PoolOk, PoolRec
  <2> QED
    BY <1>1, <2>1
<1>3. Width(alc, g.mem, Head(L)) \in Nat
  BY <1>1, <1>2, SoundIs
<1>4. r.mem = g.mem /\ r.pool = Taken(g.pool, size)
  <2> DEFINE p == Taken(g.pool, size)
  <2>1. r = [g EXCEPT !.pool = p]
    OBVIOUS
  <2> HIDE DEF p, r
  <2>2. r.mem = g.mem /\ r.pool = p
    BY <2>1
  <2> QED
    BY <2>2 DEF p
<1> HIDE DEF L, r
<1>5. PoolOk(alc, g.mem, Taken(g.pool, size)) /\ Taken(g.pool, size).chunks = g.pool.chunks
  BY <1>1, <1>2, <1>3, TakenIs
<1>6. Extended(alc, s, O, pool, r)
  BY <1>1, <1>4, <1>5 DEF Extended, L
<1> QED
  BY <1>6 DEF r

\* unsafe_yyjson_mut_str_alc: a string has a place of its own.
LEMMA StrAlc ==
    ASSUME alc \in Allocs, NEW s, NEW O, Sound(alc, s, O), NEW pool, PoolOk(alc, s, pool),
           Range(pool.chunks) \subseteq O, NEW len \in Nat, NEW ok \in BOOLEAN
    PROVE  Extended(alc, s, O, pool, mut_str_alc(s, pool, len, ok))
<1> DEFINE g == Grown(s, pool, len + 1, StrHeader, StrMax, ok)
           r == mut_str_alc(s, pool, len, ok)
<1>1. pool \in PoolRec /\ pool.cur \in Nat /\ pool.end \in Nat /\ pool.chunks \in Seq(Nat)
  BY DEF PoolOk, PoolRec
<1>2. len + 1 \in Nat /\ StrHeader \in Nat /\ StrMax \in Nat
  BY DEF StrHeader, StrMax
<1>3. CASE pool.end - pool.cur <= len
  <2>1. r = IF g.at = None THEN g ELSE [g EXCEPT !.pool = Taken(@, len + 1)]
    BY <1>3 DEF mut_str_alc, str_pool_grow
  <2>2. \/ g.at = None /\ g.mem = s /\ g.pool = pool
        \/ Grew(alc, s, O, pool, g, len + 1)
    BY <1>2, GrownIs
  <2>3. g = [mem |-> g.mem, at |-> g.at, pool |-> g.pool]
    BY DEF Grown
  <2> HIDE DEF g, r
  <2>4. CASE g.at = None /\ g.mem = s /\ g.pool = pool
    BY <2>1, <2>4 DEF Extended, r
  <2>5. CASE Grew(alc, s, O, pool, g, len + 1)
    <3>1. g.at # None
      BY <2>5, MemBounds DEF Grew
    <3>2. Extended(alc, s, O, pool, [g EXCEPT !.pool = Taken(@, len + 1)])
      BY <1>2, <2>3, <2>5, GrownTaken
    <3> QED
      BY <2>1, <3>1, <3>2 DEF r
  <2> QED
    BY <2>2, <2>4, <2>5
<1>4. CASE ~(pool.end - pool.cur <= len)
  <2>1. r.mem = s /\ r.pool = Taken(pool, len + 1)
    <3> DEFINE e == [mem |-> s, at |-> 0, pool |-> pool]
               p == Taken(pool, len + 1)
    <3>1. e.at # None
      BY MemBounds
    <3>2. r = [e EXCEPT !.pool = Taken(@, len + 1)]
      BY <1>4, <3>1 DEF mut_str_alc
    <3>3. r = [e EXCEPT !.pool = p]
      BY <3>2
    <3> HIDE DEF p, r
    <3>4. r.mem = s /\ r.pool = p
      BY <3>3
    <3> QED
      BY <3>4 DEF p
  <2>2. pool.cur + (len + 1) <= pool.end /\ pool.end # 0
    BY <1>1, <1>4
  <2>3. pool.chunks # <<>>
    BY <2>2 DEF PoolOk
  <2>4. Head(pool.chunks) \in O
    BY <1>1, <2>3 DEF Range
  <2>5. Width(alc, s, Head(pool.chunks)) \in Nat
    BY <2>4, SoundIs
  <2>6. PoolOk(alc, s, Taken(pool, len + 1)) /\ Taken(pool, len + 1).chunks = pool.chunks
    BY <1>2, <2>2, <2>3, <2>5, TakenIs
  <2> HIDE DEF r
  <2>7. Extended(alc, s, O, pool, r)
    BY <2>1, <2>6 DEF Extended
  <2> QED
    BY <2>7 DEF r
<1> QED
  BY <1>3, <1>4

\* unsafe_yyjson_mut_val: so has a value.
LEMMA ValAlc ==
    ASSUME alc \in Allocs, NEW s, NEW O, Sound(alc, s, O), NEW pool, PoolOk(alc, s, pool),
           Range(pool.chunks) \subseteq O, NEW count \in 1 .. 2, NEW ok \in BOOLEAN
    PROVE  Extended(alc, s, O, pool, mut_val(s, pool, count, ok))
<1> DEFINE n == count * ValSize
           g == Grown(s, pool, n, ValSize, ValMax, ok)
           r == mut_val(s, pool, count, ok)
<1>1. pool \in PoolRec /\ pool.cur \in Nat /\ pool.end \in Nat /\ pool.chunks \in Seq(Nat)
  BY DEF PoolOk, PoolRec
<1>2. n \in Nat /\ n > 0 /\ ValSize \in Nat /\ ValMax \in Nat
  BY DEF ValSize, ValMax
<1>3. r = LET new == IF pool.end - pool.cur < n THEN g ELSE [mem |-> s, at |-> 0, pool |-> pool]
          IN IF new.at = None THEN new ELSE [new EXCEPT !.pool = Taken(@, n)]
  BY DEF mut_val, val_pool_grow
<1>4. g = [mem |-> g.mem, at |-> g.at, pool |-> g.pool]
  BY DEF Grown
<1> HIDE DEF n
<1>5. \/ g.at = None /\ g.mem = s /\ g.pool = pool
      \/ Grew(alc, s, O, pool, g, n)
  BY <1>2, GrownIs
<1> HIDE DEF g, r
<1>6. CASE pool.end - pool.cur < n
  <2>1. r = IF g.at = None THEN g ELSE [g EXCEPT !.pool = Taken(@, n)]
    BY <1>3, <1>6
  <2>2. CASE g.at = None /\ g.mem = s /\ g.pool = pool
    BY <2>1, <2>2 DEF Extended, r
  <2>3. CASE Grew(alc, s, O, pool, g, n)
    <3>1. g.at # None
      BY <2>3, MemBounds DEF Grew
    <3>2. Extended(alc, s, O, pool, [g EXCEPT !.pool = Taken(@, n)])
      BY <1>2, <1>4, <2>3, GrownTaken
    <3> QED
      BY <2>1, <3>1, <3>2 DEF r
  <2> QED
    BY <1>5, <2>2, <2>3
<1>7. CASE ~(pool.end - pool.cur < n)
  <2>1. r.mem = s /\ r.pool = Taken(pool, n)
    <3> DEFINE e == [mem |-> s, at |-> 0, pool |-> pool]
               p == Taken(pool, n)
    <3>1. e.at # None
      BY MemBounds
    <3>2. r = [e EXCEPT !.pool = p]
      BY <1>3, <1>7, <3>1
    <3> HIDE DEF p
    <3>3. r.mem = s /\ r.pool = p
      BY <3>2
    <3> QED
      BY <3>3 DEF p
  <2>2. pool.cur + n <= pool.end /\ pool.end # 0
    BY <1>1, <1>2, <1>7
  <2>3. pool.chunks # <<>>
    BY <2>2 DEF PoolOk
  <2>4. Head(pool.chunks) \in O
    BY <1>1, <2>3 DEF Range
  <2>5. Width(alc, s, Head(pool.chunks)) \in Nat
    BY <2>4, SoundIs
  <2>6. PoolOk(alc, s, Taken(pool, n)) /\ Taken(pool, n).chunks = pool.chunks
    BY <1>2, <2>2, <2>3, <2>5, TakenIs
  <2>7. Extended(alc, s, O, pool, r)
    BY <2>1, <2>6 DEF Extended
  <2> QED
    BY <2>7 DEF r
<1> QED
  BY <1>6, <1>7 DEF r

-----------------------------------------------------------------------------
(* The invariant: the allocator is sound for what the user and a document  *)
(* own, the user's blocks are as large as was asked for, and there is one  *)
(* document at most, or blocks of one that was.                            *)

HeldOk(a, s, h) == \A c \in DOMAIN h : h[c] \in Nat /\ Width(a, s, c) >= Need(a, h[c])
DocRec == [at : Nat, str : PoolRec, val : PoolRec]
DocOk ==
    /\ doc \in DocRec /\ PoolOk(alc, mem, doc.str) /\ PoolOk(alc, mem, doc.val)
    /\ imdoc = <<>> /\ freeing = <<>>
ImdocOk == doc = NoneYet /\ imdoc \in Seq(Nat) /\ imdoc # <<>> /\ freeing = <<>>
FreeingOk == doc = NoneYet /\ imdoc = <<>> /\ freeing \in Seq(Nat)
MemInv ==
    /\ alc \in Allocs /\ HeldOk(alc, mem, held)
    /\ DocOk \/ ImdocOk \/ FreeingOk
    /\ Sound(alc, mem, Owned)
    /\ OnlyOnce(Lent) /\ DOMAIN held \cap Range(Lent) = {}

\* What a call is given.
LEMMA Inputs == /\ Sizes \subseteq Nat /\ None \notin Nat /\ Outcomes \subseteq BOOLEAN
                /\ DocSize \in Nat /\ NoneYet.at = None
<1>1. Sizes \subseteq Nat /\ None \notin Int
  BY MemBounds
<1>2. None \notin Nat
  BY <1>1
<1>3. Outcomes \subseteq BOOLEAN
  BY DEF Outcomes
<1>4. DocSize \in Nat /\ NoneYet.at = None
  BY DEF DocSize, NoneYet
<1> QED
  BY <1>1, <1>2, <1>3, <1>4

\* The list of none.
LEMMA Nothing == <<>> \in Seq(Nat) /\ OnlyOnce(<<>>) /\ Range(<<>>) = {}
BY DEF OnlyOnce, Range

\* A user's blocks stay as large as they were.
LEMMA HeldStays ==
    ASSUME NEW a, NEW s, NEW t, NEW O, NEW h, SameWidths(a, s, t, O), DOMAIN h \subseteq O, HeldOk(a, s, h)
    PROVE  HeldOk(a, t, h)
BY DEF HeldOk, SameWidths

\* Without a document everything that is owned is the user's.
LEMMA UsersOnly ==
    ASSUME MemInv, NoDoc
    PROVE  /\ doc = NoneYet /\ imdoc = <<>> /\ freeing = <<>> /\ Owned = DOMAIN held
           /\ alc \in Allocs /\ Sound(alc, mem, DOMAIN held) /\ HeldOk(alc, mem, held)
<1>1. doc.at = None /\ imdoc = <<>> /\ freeing = <<>>
  BY DEF NoDoc
<1>2. doc = NoneYet
  BY <1>1, Inputs DEF MemInv, DocOk, ImdocOk, FreeingOk, DocRec
<1>3. Owned = DOMAIN held
  BY <1>1, Nothing DEF Owned, Lent
<1> QED
  BY <1>1, <1>2, <1>3 DEF MemInv
\* The invariant of a step that leaves the user's blocks only.
LEMMA UsersOnlyNext ==
    ASSUME doc' = NoneYet, imdoc' = <<>>, freeing' = <<>>, alc' \in Allocs,
           Sound(alc', mem', DOMAIN held'), HeldOk(alc', mem', held')
    PROVE  MemInv'
<1>1. Lent' = <<>> /\ Owned' = DOMAIN held'
  BY Inputs, Nothing DEF Lent, Owned
<1>2. FreeingOk'
  BY Nothing DEF FreeingOk
<1>3. Range(Lent') = {} /\ OnlyOnce(Lent')
  BY <1>1, Nothing
<1> QED
  BY <1>1, <1>2, <1>3 DEF MemInv

\* A user's block more, or less.
HeldWith(a, t, g, h, c) == HeldOk(a, t, g) /\ DOMAIN g = DOMAIN h \cup {c}
HeldWithout(a, s, g, h, c) == HeldOk(a, s, g) /\ DOMAIN g = DOMAIN h \ {c}
LEMMA HeldMore ==
    ASSUME NEW a, NEW s, NEW t, NEW O, NEW h, HeldOk(a, s, h), DOMAIN h \subseteq O,
           NEW c, SameWidths(a, s, t, O), NEW size \in Nat, Width(a, t, c) >= Need(a, size)
    PROVE  HeldWith(a, t, With(h, c, size), h, c)
<1> DEFINE g == With(h, c, size)
<1>1. DOMAIN g = DOMAIN h \cup {c} /\ \A x \in DOMAIN g : g[x] = IF x = c THEN size ELSE h[x]
  BY DEF With
<1> HIDE DEF g
<1>2. HeldOk(a, t, g)
  BY <1>1 DEF HeldOk, SameWidths
<1> QED
  BY <1>1, <1>2 DEF g, HeldWith

\* The user asks for a block.
LEMMA UserMallocKeeps == ASSUME MemInv, UserMalloc PROVE MemInv'
<1>1. NoDoc /\ alc' = alc /\ doc' = doc /\ imdoc' = imdoc /\ freeing' = freeing
  BY DEF UserMalloc
<1>2. /\ doc = NoneYet /\ imdoc = <<>> /\ freeing = <<>>
      /\ alc \in Allocs /\ Sound(alc, mem, DOMAIN held) /\ HeldOk(alc, mem, held)
  BY <1>1, UsersOnly
<1>3. PICK size \in Sizes, ok \in Outcomes :
         LET new == Malloc(mem, size, ok)
         IN /\ mem' = new.mem
            /\ held' = IF new.at = None THEN held ELSE With(held, new.at, size)
  BY DEF UserMalloc
<1> DEFINE new == Malloc(mem, size, ok)
<1>4. size \in Nat /\ ok \in BOOLEAN
  BY Inputs
<1>5. mem' = new.mem /\ held' = IF new.at = None THEN held ELSE With(held, new.at, size)
  BY <1>3
<1>6. \/ new.at = None /\ new.mem = mem
      \/ GaveOne(alc, mem, new, DOMAIN held, Need(alc, size))
  BY <1>2, <1>4, MallocIs
<1> HIDE DEF new
<1>7. Sound(alc, mem', DOMAIN held') /\ HeldOk(alc, mem', held')
  <2>1. CASE new.at = None /\ new.mem = mem
    BY <1>2, <1>5, <2>1
  <2>2. CASE GaveOne(alc, mem, new, DOMAIN held, Need(alc, size))
    <3>1. /\ new.at \in Nat /\ Sound(alc, mem', DOMAIN held \cup {new.at})
          /\ Width(alc, mem', new.at) >= Need(alc, size) /\ SameWidths(alc, mem, mem', DOMAIN held)
      BY <1>5, <2>2 DEF GaveOne
    <3>2. held' = With(held, new.at, size)
      BY <1>5, <3>1, Inputs
    <3>3. HeldWith(alc, mem', With(held, new.at, size), held, new.at)
      BY <1>2, <1>4, <3>1, HeldMore
    <3> QED
      BY <3>1, <3>2, <3>3 DEF HeldWith
  <2> QED
    BY <1>6, <2>1, <2>2
<1> QED
  BY <1>1, <1>2, <1>7, UsersOnlyNext

\* A user's block less.
LEMMA HeldLess ==
    ASSUME NEW a, NEW s, NEW h, HeldOk(a, s, h), NEW c
    PROVE  HeldWithout(a, s, Drop(h, c), h, c)
<1> DEFINE g == Drop(h, c)
<1>1. DOMAIN g = DOMAIN h \ {c} /\ \A x \in DOMAIN g : g[x] = h[x]
  BY DEF Drop
<1> HIDE DEF g
<1>2. HeldOk(a, s, g)
  BY <1>1 DEF HeldOk
<1> QED
  BY <1>1, <1>2 DEF g, HeldWithout

\* The user asks for more room.
LEMMA UserReallocKeeps == ASSUME MemInv, UserRealloc PROVE MemInv'
<1>1. NoDoc /\ alc' = alc /\ doc' = doc /\ imdoc' = imdoc /\ freeing' = freeing
  BY DEF UserRealloc
<1>2. /\ doc = NoneYet /\ imdoc = <<>> /\ freeing = <<>>
      /\ alc \in Allocs /\ Sound(alc, mem, DOMAIN held) /\ HeldOk(alc, mem, held)
  BY <1>1, UsersOnly
<1>3. PICK c \in DOMAIN held, size \in Sizes, ok \in Outcomes :
         LET new == Realloc(mem, c, held[c], size, ok)
         IN /\ mem' = new.mem
            /\ held' = IF new.at = None THEN held ELSE With(Drop(held, c), new.at, size)
  BY DEF UserRealloc
<1> DEFINE new == Realloc(mem, c, held[c], size, ok)
           rest == Drop(held, c)
<1>4. size \in Nat /\ ok \in BOOLEAN /\ held[c] \in Nat /\ Width(alc, mem, c) >= Need(alc, held[c])
  BY <1>2, Inputs DEF HeldOk
<1>5. mem' = new.mem /\ held' = IF new.at = None THEN held ELSE With(rest, new.at, size)
  BY <1>3
<1>6. \/ new.at = None /\ Sound(alc, new.mem, DOMAIN held) /\ SameWidths(alc, mem, new.mem, DOMAIN held)
      \/ GaveOne(alc, mem, new, DOMAIN held \ {c}, Need(alc, size))
  BY <1>2, <1>4, ReallocIs
<1>7. HeldWithout(alc, mem, rest, held, c)
  BY <1>2, HeldLess
<1> HIDE DEF new, rest
<1>8. Sound(alc, mem', DOMAIN held') /\ HeldOk(alc, mem', held')
  <2>1. CASE new.at = None /\ Sound(alc, new.mem, DOMAIN held) /\ SameWidths(alc, mem, new.mem, DOMAIN held)
    BY <1>2, <1>5, <2>1, HeldStays
  <2>2. CASE GaveOne(alc, mem, new, DOMAIN held \ {c}, Need(alc, size))
    <3>1. /\ new.at \in Nat /\ Sound(alc, mem', DOMAIN rest \cup {new.at})
          /\ Width(alc, mem', new.at) >= Need(alc, size) /\ SameWidths(alc, mem, mem', DOMAIN rest)
      BY <1>5, <1>7, <2>2 DEF GaveOne, HeldWithout
    <3>2. held' = With(rest, new.at, size)
      BY <1>5, <3>1, Inputs
    <3>3. HeldOk(alc, mem, rest)
      BY <1>7 DEF HeldWithout
    <3>4. HeldWith(alc, mem', With(rest, new.at, size), rest, new.at)
      BY <1>4, <3>1, <3>3, HeldMore
    <3> QED
      BY <3>1, <3>2, <3>4 DEF HeldWith
  <2> QED
    BY <1>6, <2>1, <2>2
<1> QED
  BY <1>1, <1>2, <1>8, UsersOnlyNext

\* The user gives a block back.
LEMMA UserFreeKeeps == ASSUME MemInv, UserFree PROVE MemInv'
<1>1. NoDoc /\ alc' = alc /\ doc' = doc /\ imdoc' = imdoc /\ freeing' = freeing
  BY DEF UserFree
<1>2. /\ doc = NoneYet /\ imdoc = <<>> /\ freeing = <<>>
      /\ alc \in Allocs /\ Sound(alc, mem, DOMAIN held) /\ HeldOk(alc, mem, held)
  BY <1>1, UsersOnly
<1>3. PICK c \in DOMAIN held : mem' = Free(mem, c) /\ held' = Drop(held, c)
  BY DEF UserFree
<1>4. Sound(alc, Free(mem, c), DOMAIN held \ {c}) /\ SameWidths(alc, mem, Free(mem, c), DOMAIN held \ {c})
  BY <1>2, FreeIs
<1>5. HeldWithout(alc, mem, Drop(held, c), held, c)
  BY <1>2, HeldLess
<1>6. Sound(alc, mem', DOMAIN held') /\ SameWidths(alc, mem, mem', DOMAIN held')
      /\ HeldOk(alc, mem, held')
  BY <1>3, <1>4, <1>5 DEF HeldWithout
<1>7. HeldOk(alc, mem', held')
  BY <1>6, HeldStays
<1> QED
  BY <1>1, <1>2, <1>6, <1>7, UsersOnlyNext

\* With a document its blocks are the others that are owned.
BlockSet(d) == Range(d.str.chunks) \cup Range(d.val.chunks) \cup {d.at}
LEMMA DocOnly ==
    ASSUME MemInv, doc.at # None
    PROVE  /\ doc \in DocRec /\ PoolOk(alc, mem, doc.str) /\ PoolOk(alc, mem, doc.val)
           /\ imdoc = <<>> /\ freeing = <<>> /\ alc \in Allocs /\ HeldOk(alc, mem, held)
           /\ Lent = DocBlocks(doc) /\ PartsApart(doc)
           /\ Owned = DOMAIN held \cup BlockSet(doc) /\ Sound(alc, mem, Owned)
           /\ \A x \in DOMAIN held : x \notin BlockSet(doc)
<1>1. DocOk /\ alc \in Allocs /\ HeldOk(alc, mem, held) /\ Sound(alc, mem, Owned)
  BY Inputs DEF MemInv, ImdocOk, FreeingOk
<1>2. /\ doc \in DocRec /\ PoolOk(alc, mem, doc.str) /\ PoolOk(alc, mem, doc.val)
      /\ imdoc = <<>> /\ freeing = <<>>
  BY <1>1 DEF DocOk
<1>3. Lent = DocBlocks(doc)
  BY DEF Lent, DocBlocks
<1>4. doc.str.chunks \in Seq(Nat) /\ doc.val.chunks \in Seq(Nat) /\ doc.at \in Nat
  BY <1>2 DEF DocRec, PoolRec
<1>5. /\ Range(DocBlocks(doc)) = Range(doc.str.chunks) \cup Range(doc.val.chunks) \cup {doc.at}
      /\ OnlyOnce(DocBlocks(doc)) <=> PartsApart(doc)
  BY <1>4, DocBlocksAre
<1>6. OnlyOnce(Lent) /\ DOMAIN held \cap Range(Lent) = {}
  BY DEF MemInv
<1>7. Range(Lent) = BlockSet(doc)
  BY <1>3, <1>5 DEF BlockSet
<1>8. Owned = DOMAIN held \cup BlockSet(doc) /\ \A x \in DOMAIN held : x \notin BlockSet(doc)
  BY <1>6, <1>7 DEF Owned
<1> QED
  BY <1>1, <1>2, <1>3, <1>5, <1>6, <1>8
\* The invariant of a step that leaves a document.
LEMMA DocOnlyNext ==
    ASSUME doc' \in DocRec, PoolOk(alc', mem', doc.str'), PoolOk(alc', mem', doc.val'),
           imdoc' = <<>>, freeing' = <<>>, alc' \in Allocs, HeldOk(alc', mem', held'),
           PartsApart(doc'), Sound(alc', mem', DOMAIN held' \cup BlockSet(doc')),
           \A x \in DOMAIN held' : x \notin BlockSet(doc')
    PROVE  MemInv'
<1>1. doc.str.chunks' \in Seq(Nat) /\ doc.val.chunks' \in Seq(Nat) /\ doc.at' \in Nat
  BY DEF DocRec, PoolRec
<1>2. doc.at' # None
  BY <1>1, Inputs
<1>3. Lent' = DocBlocks(doc')
  BY <1>2 DEF Lent, DocBlocks
<1> DEFINE d == doc'
<1>4. d.str.chunks \in Seq(Nat) /\ d.val.chunks \in Seq(Nat) /\ d.at \in Nat
  BY <1>1
<1> HIDE DEF d
<1>5. /\ Range(DocBlocks(d)) = Range(d.str.chunks) \cup Range(d.val.chunks) \cup {d.at}
      /\ OnlyOnce(DocBlocks(d)) <=> PartsApart(d)
  BY <1>4, DocBlocksAre
<1>6. Range(Lent') = BlockSet(doc') /\ OnlyOnce(Lent')
  BY <1>3, <1>5 DEF BlockSet, d
<1>7. Owned' = DOMAIN held' \cup BlockSet(doc')
  BY <1>6 DEF Owned
<1>8. DOMAIN held' \cap Range(Lent') = {}
  BY <1>6
<1>9. DocOk'
  BY DEF DocOk
<1> QED
  BY <1>6, <1>7, <1>8, <1>9 DEF MemInv

\* A pool that gave nothing yet.
LEMMA PoolNew ==
    ASSUME NEW a, NEW s, NEW n \in Nat
    PROVE  Pool(n) \in PoolRec /\ PoolOk(a, s, Pool(n)) /\ Pool(n).chunks = <<>>
<1>1. Pool(n) \in PoolRec
  BY Nothing DEF Pool, PoolRec
<1>2. Pool(n).chunks = <<>> /\ Pool(n).cur = 0 /\ Pool(n).end = 0 /\ Pool(n).spans = {}
  BY DEF Pool
<1> QED
  BY <1>1, <1>2 DEF PoolOk

\* yyjson_mut_doc_new.
LEMMA DocNewKeeps == ASSUME MemInv, DocNew PROVE MemInv'
<1>1. NoDoc /\ alc' = alc /\ held' = held /\ imdoc' = imdoc /\ freeing' = freeing
  BY DEF DocNew
<1>2. /\ doc = NoneYet /\ imdoc = <<>> /\ freeing = <<>>
      /\ alc \in Allocs /\ Sound(alc, mem, DOMAIN held) /\ HeldOk(alc, mem, held)
  BY <1>1, UsersOnly
<1>3. PICK ok \in Outcomes : LET new == Malloc(mem, DocSize, ok)
                             IN mem' = new.mem /\ doc' = [NoneYet EXCEPT !.at = new.at]
  BY DEF DocNew
<1> DEFINE new == Malloc(mem, DocSize, ok)
<1>4. ok \in BOOLEAN /\ DocSize \in Nat
  BY Inputs
<1>5. mem' = new.mem /\ doc' = [NoneYet EXCEPT !.at = new.at]
  BY <1>3
<1>6. \/ new.at = None /\ new.mem = mem
      \/ GaveOne(alc, mem, new, DOMAIN held, Need(alc, DocSize))
  BY <1>2, <1>4, MallocIs
<1> HIDE DEF new
<1>7. doc' = [at |-> new.at, str |-> Pool(StrInit), val |-> Pool(ValInit)]
  BY <1>5 DEF NoneYet
<1>8. CASE new.at = None /\ new.mem = mem
  <2>1. doc' = NoneYet
    BY <1>7, <1>8 DEF NoneYet
  <2> QED
    BY <1>1, <1>2, <1>5, <1>8, <2>1, UsersOnlyNext
<1>9. CASE GaveOne(alc, mem, new, DOMAIN held, Need(alc, DocSize))
  <2> DEFINE c == new.at
             str == Pool(StrInit)
             val == Pool(ValInit)
  <2>1. /\ c \in Nat /\ c \notin DOMAIN held /\ Sound(alc, mem', DOMAIN held \cup {c})
        /\ SameWidths(alc, mem, mem', DOMAIN held)
    BY <1>5, <1>9 DEF GaveOne
  <2>2. StrInit \in Nat /\ ValInit \in Nat
    BY DEF StrInit, ValInit
  <2>3. str \in PoolRec /\ PoolOk(alc, mem', str) /\ str.chunks = <<>>
    BY <2>2, PoolNew
  <2>4. val \in PoolRec /\ PoolOk(alc, mem', val) /\ val.chunks = <<>>
    BY <2>2, PoolNew
  <2>5. HeldOk(alc, mem', held)
    BY <1>2, <2>1, HeldStays
  <2> HIDE DEF str, val
  <2>6. doc' = [at |-> c, str |-> str, val |-> val]
    BY <1>7 DEF str, val
  <2>7. doc' \in DocRec /\ doc.at' = c /\ doc.str' = str /\ doc.val' = val
    BY <2>1, <2>3, <2>4, <2>6 DEF DocRec
  <2>8. BlockSet(doc') = {c} /\ PartsApart(doc')
    BY <2>3, <2>4, <2>7, Nothing DEF BlockSet, PartsApart
  <2>9. \A x \in DOMAIN held' : x \notin BlockSet(doc')
    BY <1>1, <2>1, <2>8
  <2>10. Sound(alc', mem', DOMAIN held' \cup BlockSet(doc'))
    BY <1>1, <2>1, <2>8
  <2>11. /\ imdoc' = <<>> /\ freeing' = <<>> /\ alc' \in Allocs /\ HeldOk(alc', mem', held')
         /\ PoolOk(alc', mem', doc.str') /\ PoolOk(alc', mem', doc.val')
    BY <1>1, <1>2, <2>3, <2>4, <2>5, <2>7
  <2> QED
    BY <2>7, <2>8, <2>9, <2>10, <2>11, DocOnlyNext
<1> QED
  BY <1>6, <1>8, <1>9

\* yyjson_mut_doc_set_str_pool_size and yyjson_mut_doc_set_val_pool_size.
LEMMA SetPoolSizeKeeps == ASSUME MemInv, SetPoolSize PROVE MemInv'
<1>1. /\ doc.at # None /\ alc' = alc /\ mem' = mem /\ held' = held /\ imdoc' = imdoc
      /\ freeing' = freeing
  BY DEF SetPoolSize
<1>2. /\ doc \in DocRec /\ PoolOk(alc, mem, doc.str) /\ PoolOk(alc, mem, doc.val)
      /\ imdoc = <<>> /\ freeing = <<>> /\ alc \in Allocs /\ HeldOk(alc, mem, held)
      /\ PartsApart(doc)
      /\ Owned = DOMAIN held \cup BlockSet(doc) /\ Sound(alc, mem, Owned)
      /\ \A x \in DOMAIN held : x \notin BlockSet(doc)
  BY <1>1, DocOnly
<1>3. ASSUME NEW pool, PoolOk(alc, mem, pool), NEW n \in Nat
      PROVE  /\ PoolOk(alc, mem, [pool EXCEPT !.chunk_size = n])
             /\ [pool EXCEPT !.chunk_size = n].chunks = pool.chunks
             /\ [pool EXCEPT !.chunk_size = n] \in PoolRec
  <2> DEFINE q == [pool EXCEPT !.chunk_size = n]
  <2>1. pool \in PoolRec
    BY <1>3 DEF PoolOk
  <2>2. /\ q \in PoolRec /\ q.chunks = pool.chunks /\ q.cur = pool.cur /\ q.end = pool.end
        /\ q.spans = pool.spans
    BY <2>1 DEF PoolRec
  <2> HIDE DEF q
  <2>3. PoolOk(alc, mem, q)
    BY <1>3, <2>2 DEF PoolOk
  <2> QED
    BY <2>2, <2>3 DEF q
<1>4. /\ doc' \in DocRec /\ doc.at' = doc.at
      /\ PoolOk(alc, mem, doc.str') /\ doc.str.chunks' = doc.str.chunks
      /\ PoolOk(alc, mem, doc.val') /\ doc.val.chunks' = doc.val.chunks
  <2>1. CASE \E len \in Sizes : doc' = [doc EXCEPT !.str.chunk_size = len + StrHeader]
    <3>1. PICK len \in Sizes : doc' = [doc EXCEPT !.str.chunk_size = len + StrHeader]
      BY <2>1
    <3> DEFINE n == len + StrHeader
               q == [doc.str EXCEPT !.chunk_size = n]
    <3>2. n \in Nat
      BY Inputs DEF StrHeader
    <3> HIDE DEF n
    <3>3. PoolOk(alc, mem, q) /\ q.chunks = doc.str.chunks /\ q \in PoolRec
      BY <1>2, <1>3, <3>2
    <3>4. doc' = [doc EXCEPT !.str = q]
      BY <1>2, <3>1 DEF DocRec, n
    <3> HIDE DEF q
    <3>5. doc' \in DocRec /\ doc.at' = doc.at /\ doc.str' = q /\ doc.val' = doc.val
      BY <1>2, <3>3, <3>4 DEF DocRec
    <3> QED
      BY <1>2, <3>3, <3>5
  <2>2. CASE doc' = [doc EXCEPT !.val.chunk_size = 3 * ValSize]
    <3> DEFINE n == 3 * ValSize
               q == [doc.val EXCEPT !.chunk_size = n]
    <3>1. n \in Nat
      BY DEF ValSize
    <3> HIDE DEF n
    <3>2. PoolOk(alc, mem, q) /\ q.chunks = doc.val.chunks /\ q \in PoolRec
      BY <1>2, <1>3, <3>1
    <3>3. doc' = [doc EXCEPT !.val = q]
      BY <1>2, <2>2 DEF DocRec, n
    <3> HIDE DEF q
    <3>4. doc' \in DocRec /\ doc.at' = doc.at /\ doc.val' = q /\ doc.str' = doc.str
      BY <1>2, <3>2, <3>3 DEF DocRec
    <3> QED
      BY <1>2, <3>2, <3>4
  <2> QED
    BY <2>1, <2>2 DEF SetPoolSize
<1>5. BlockSet(doc') = BlockSet(doc) /\ PartsApart(doc')
  BY <1>2, <1>4 DEF BlockSet, PartsApart
<1> QED
  BY <1>1, <1>2, <1>4, <1>5, DocOnlyNext

\* A document that took a string or a value, with a new chunk or without.
TookBlocks(a, s, t, O, d, e, N) ==
    /\ BlockSet(e) = BlockSet(d) \cup N /\ \A c \in N : c \notin O
    /\ Sound(a, t, O \cup N) /\ SameWidths(a, s, t, O)
LEMMA DocTook ==
    ASSUME MemInv, doc.at # None, alc' = alc, held' = held, imdoc' = imdoc, freeing' = freeing,
           doc' \in DocRec, PoolOk(alc, mem', doc.str'), PoolOk(alc, mem', doc.val'),
           PartsApart(doc'), \E N \in SUBSET Nat : TookBlocks(alc, mem, mem', Owned, doc, doc', N)
    PROVE  MemInv'
<1> PICK N \in SUBSET Nat : TookBlocks(alc, mem, mem', Owned, doc, doc', N)
  OBVIOUS
<1>1. /\ BlockSet(doc') = BlockSet(doc) \cup N /\ \A c \in N : c \notin Owned
      /\ Sound(alc, mem', Owned \cup N) /\ SameWidths(alc, mem, mem', Owned)
  BY DEF TookBlocks
<1>2. /\ imdoc = <<>> /\ freeing = <<>> /\ alc \in Allocs /\ HeldOk(alc, mem, held)
      /\ Owned = DOMAIN held \cup BlockSet(doc)
      /\ \A x \in DOMAIN held : x \notin BlockSet(doc)
  BY DocOnly
<1>3. HeldOk(alc, mem', held)
  BY <1>1, <1>2, HeldStays
<1>4. DOMAIN held' \cup BlockSet(doc') = Owned \cup N /\ \A x \in DOMAIN held' : x \notin BlockSet(doc')
  BY <1>1, <1>2
<1>5. /\ PoolOk(alc', mem', doc.str') /\ PoolOk(alc', mem', doc.val') /\ HeldOk(alc', mem', held')
      /\ imdoc' = <<>> /\ freeing' = <<>> /\ alc' \in Allocs
      /\ Sound(alc', mem', DOMAIN held' \cup BlockSet(doc'))
  BY <1>1, <1>2, <1>3, <1>4
<1> QED
  BY <1>4, <1>5, DocOnlyNext

\* A document takes a string.
LEMMA NewStrKeeps == ASSUME MemInv, NewStr PROVE MemInv'
<1>1. doc.at # None /\ alc' = alc /\ held' = held /\ imdoc' = imdoc /\ freeing' = freeing
  BY DEF NewStr
<1>2. /\ doc \in DocRec /\ PoolOk(alc, mem, doc.str) /\ PoolOk(alc, mem, doc.val)
      /\ alc \in Allocs /\ PartsApart(doc)
      /\ Owned = DOMAIN held \cup BlockSet(doc) /\ Sound(alc, mem, Owned)
  BY <1>1, DocOnly
<1>3. PICK len \in Sizes, ok \in Outcomes :
         LET new == mut_str_alc(mem, doc.str, len, ok)
         IN mem' = new.mem /\ doc' = [doc EXCEPT !.str = new.pool]
  BY DEF NewStr
<1> DEFINE r == mut_str_alc(mem, doc.str, len, ok)
           L == doc.str.chunks
           V == doc.val.chunks
<1>4. len \in Nat /\ ok \in BOOLEAN
  BY Inputs
<1>5. mem' = r.mem /\ doc' = [doc EXCEPT !.str = r.pool]
  BY <1>3
<1>6. /\ L \in Seq(Nat) /\ V \in Seq(Nat) /\ doc.at \in Nat
      /\ Range(L) \subseteq Owned /\ Range(V) \subseteq Owned /\ doc.at \in Owned
  BY <1>2 DEF DocRec, PoolRec, BlockSet
<1>7. Extended(alc, mem, Owned, doc.str, r)
  BY <1>2, <1>4, <1>6, StrAlc
<1>8. /\ OnlyOnce(L) /\ OnlyOnce(V) /\ doc.at \notin Range(L) /\ doc.at \notin Range(V)
      /\ \A x \in Range(L) : x \notin Range(V)
  BY <1>2 DEF PartsApart
<1> HIDE DEF r
<1>9. ASSUME r.pool \in PoolRec
      PROVE  /\ doc' \in DocRec /\ doc.at' = doc.at /\ doc.str' = r.pool /\ doc.val' = doc.val
             /\ doc.val.chunks' = V
  BY <1>2, <1>5, <1>9 DEF DocRec
<1>10. CASE r.mem = mem /\ r.pool.chunks = L /\ PoolOk(alc, mem, r.pool)
  <2>1. r.pool \in PoolRec
    BY <1>10 DEF PoolOk
  <2>2. /\ doc' \in DocRec /\ doc.at' = doc.at /\ doc.str.chunks' = L /\ doc.val.chunks' = V
        /\ PoolOk(alc, mem', doc.str') /\ PoolOk(alc, mem', doc.val')
    BY <1>2, <1>5, <1>9, <1>10, <2>1
  <2>3. BlockSet(doc') = BlockSet(doc) \cup {} /\ PartsApart(doc')
    BY <1>8, <2>2 DEF BlockSet, PartsApart
  <2>4. Sound(alc, mem', Owned \cup {}) /\ SameWidths(alc, mem, mem', Owned)
    BY <1>2, <1>5, <1>10 DEF SameWidths
  <2>5. TookBlocks(alc, mem, mem', Owned, doc, doc', {})
    BY <2>3, <2>4 DEF TookBlocks
  <2> QED
    BY <1>1, <2>2, <2>3, <2>5, DocTook
<1>11. CASE \E c \in Nat : /\ c \notin Owned /\ Sound(alc, r.mem, Owned \cup {c})
                           /\ SameWidths(alc, mem, r.mem, Owned)
                           /\ r.pool.chunks = <<c>> \o L /\ PoolOk(alc, r.mem, r.pool)
  <2>1. PICK c \in Nat : /\ c \notin Owned /\ Sound(alc, r.mem, Owned \cup {c})
                         /\ SameWidths(alc, mem, r.mem, Owned)
                         /\ r.pool.chunks = <<c>> \o L /\ PoolOk(alc, r.mem, r.pool)
    BY <1>11
  <2>2. r.pool \in PoolRec
    BY <2>1 DEF PoolOk
  <2> DEFINE M == <<c>> \o L
  <2>3. M \in Seq(Nat) /\ OnlyOnce(M) /\ \A x : x \in Range(M) <=> x \in Range(L) \/ x = c
    BY <1>6, <1>8, <2>1, Prepended
  <2> HIDE DEF M, L, V
  <2>4. PoolOk(alc, r.mem, doc.val)
    BY <1>2, <1>6, <2>1, PoolStays DEF V
  <2>5. /\ doc' \in DocRec /\ doc.at' = doc.at /\ doc.str.chunks' = M /\ doc.val.chunks' = V
        /\ PoolOk(alc, mem', doc.str') /\ PoolOk(alc, mem', doc.val')
    BY <1>5, <1>9, <2>1, <2>2, <2>4 DEF M
  <2>6. c \notin Range(V) /\ c # doc.at
    BY <1>6, <2>1
  <2>7. PartsApart(doc')
    BY <1>8, <2>3, <2>5, <2>6 DEF PartsApart
  <2>8. BlockSet(doc') = BlockSet(doc) \cup {c}
    BY <2>3, <2>5 DEF BlockSet, L, V
  <2>9. Sound(alc, mem', Owned \cup {c}) /\ SameWidths(alc, mem, mem', Owned) /\ \A x \in {c} : x \notin Owned
    BY <1>5, <2>1
  <2>10. TookBlocks(alc, mem, mem', Owned, doc, doc', {c})
    BY <2>8, <2>9 DEF TookBlocks
  <2> QED
    BY <1>1, <2>5, <2>7, <2>10, DocTook
<1> QED
  BY <1>7, <1>10, <1>11 DEF Extended

\* A document takes values.
LEMMA NewValKeeps == ASSUME MemInv, NewVal PROVE MemInv'
<1>1. doc.at # None /\ alc' = alc /\ held' = held /\ imdoc' = imdoc /\ freeing' = freeing
  BY DEF NewVal
<1>2. /\ doc \in DocRec /\ PoolOk(alc, mem, doc.str) /\ PoolOk(alc, mem, doc.val)
      /\ alc \in Allocs /\ PartsApart(doc)
      /\ Owned = DOMAIN held \cup BlockSet(doc) /\ Sound(alc, mem, Owned)
  BY <1>1, DocOnly
<1>3. PICK count \in 1 .. 2, ok \in Outcomes :
         LET new == mut_val(mem, doc.val, count, ok)
         IN mem' = new.mem /\ doc' = [doc EXCEPT !.val = new.pool]
  BY DEF NewVal
<1> DEFINE r == mut_val(mem, doc.val, count, ok)
           L == doc.str.chunks
           V == doc.val.chunks
<1>4. ok \in BOOLEAN
  BY Inputs
<1>5. mem' = r.mem /\ doc' = [doc EXCEPT !.val = r.pool]
  BY <1>3
<1>6. /\ L \in Seq(Nat) /\ V \in Seq(Nat) /\ doc.at \in Nat
      /\ Range(L) \subseteq Owned /\ Range(V) \subseteq Owned /\ doc.at \in Owned
  BY <1>2 DEF DocRec, PoolRec, BlockSet
<1>7. Extended(alc, mem, Owned, doc.val, r)
  BY <1>2, <1>4, <1>6, ValAlc
<1>8. /\ OnlyOnce(L) /\ OnlyOnce(V) /\ doc.at \notin Range(L) /\ doc.at \notin Range(V)
      /\ \A x \in Range(L) : x \notin Range(V)
  BY <1>2 DEF PartsApart
<1> HIDE DEF r
<1>9. ASSUME r.pool \in PoolRec
      PROVE  /\ doc' \in DocRec /\ doc.at' = doc.at /\ doc.val' = r.pool /\ doc.str' = doc.str
             /\ doc.str.chunks' = L
  BY <1>2, <1>5, <1>9 DEF DocRec
<1>10. CASE r.mem = mem /\ r.pool.chunks = V /\ PoolOk(alc, mem, r.pool)
  <2>1. r.pool \in PoolRec
    BY <1>10 DEF PoolOk
  <2>2. /\ doc' \in DocRec /\ doc.at' = doc.at /\ doc.str.chunks' = L /\ doc.val.chunks' = V
        /\ PoolOk(alc, mem', doc.str') /\ PoolOk(alc, mem', doc.val')
    BY <1>2, <1>5, <1>9, <1>10, <2>1
  <2>3. BlockSet(doc') = BlockSet(doc) \cup {} /\ PartsApart(doc')
    BY <1>8, <2>2 DEF BlockSet, PartsApart
  <2>4. Sound(alc, mem', Owned \cup {}) /\ SameWidths(alc, mem, mem', Owned)
    BY <1>2, <1>5, <1>10 DEF SameWidths
  <2>5. TookBlocks(alc, mem, mem', Owned, doc, doc', {})
    BY <2>3, <2>4 DEF TookBlocks
  <2> QED
    BY <1>1, <2>2, <2>3, <2>5, DocTook
<1>11. CASE \E c \in Nat : /\ c \notin Owned /\ Sound(alc, r.mem, Owned \cup {c})
                           /\ SameWidths(alc, mem, r.mem, Owned)
                           /\ r.pool.chunks = <<c>> \o V /\ PoolOk(alc, r.mem, r.pool)
  <2>1. PICK c \in Nat : /\ c \notin Owned /\ Sound(alc, r.mem, Owned \cup {c})
                         /\ SameWidths(alc, mem, r.mem, Owned)
                         /\ r.pool.chunks = <<c>> \o V /\ PoolOk(alc, r.mem, r.pool)
    BY <1>11
  <2>2. r.pool \in PoolRec
    BY <2>1 DEF PoolOk
  <2> DEFINE M == <<c>> \o V
  <2>3. M \in Seq(Nat) /\ OnlyOnce(M) /\ \A x : x \in Range(M) <=> x \in Range(V) \/ x = c
    BY <1>6, <1>8, <2>1, Prepended
  <2> HIDE DEF M, L, V
  <2>4. PoolOk(alc, r.mem, doc.str)
    BY <1>2, <1>6, <2>1, PoolStays DEF L
  <2>5. /\ doc' \in DocRec /\ doc.at' = doc.at /\ doc.str.chunks' = L /\ doc.val.chunks' = M
        /\ PoolOk(alc, mem', doc.str') /\ PoolOk(alc, mem', doc.val')
    BY <1>5, <1>9, <2>1, <2>2, <2>4 DEF M
  <2>6. c \notin Range(L) /\ c # doc.at
    BY <1>6, <2>1
  <2>7. PartsApart(doc')
    BY <1>8, <2>3, <2>5, <2>6 DEF PartsApart
  <2>8. BlockSet(doc') = BlockSet(doc) \cup {c}
    BY <2>3, <2>5 DEF BlockSet, L, V
  <2>9. Sound(alc, mem', Owned \cup {c}) /\ SameWidths(alc, mem, mem', Owned) /\ \A x \in {c} : x \notin Owned
    BY <1>5, <2>1
  <2>10. TookBlocks(alc, mem, mem', Owned, doc, doc', {c})
    BY <2>8, <2>9 DEF TookBlocks
  <2> QED
    BY <1>1, <2>5, <2>7, <2>10, DocTook
<1> QED
  BY <1>7, <1>10, <1>11 DEF Extended

\* What is left of a document is what its blocks were.
LEMMA StillLent ==
    ASSUME MemInv, alc' = alc, mem' = mem, held' = held, Lent' = Lent,
           ImdocOk' \/ FreeingOk'
    PROVE  MemInv'
<1>1. Owned' = Owned
  BY DEF Owned
<1> QED
  BY <1>1 DEF MemInv

\* The blocks of a document are to be given back.
LEMMA DocFreeKeeps == ASSUME MemInv, DocFree PROVE MemInv'
<1>1. /\ doc.at # None /\ doc' = NoneYet /\ alc' = alc /\ mem' = mem /\ held' = held /\ imdoc' = imdoc
      /\ freeing' = DocBlocks(doc)
  BY DEF DocFree, DocBlocks
<1>2. doc \in DocRec /\ imdoc = <<>> /\ Lent = DocBlocks(doc)
  BY <1>1, DocOnly
<1>3. DocBlocks(doc) \in Seq(Nat)
  BY <1>2, DocBlocksAre DEF DocRec, PoolRec
<1>4. Lent' = Lent
  BY <1>1, <1>2, Inputs DEF Lent
<1>5. FreeingOk'
  BY <1>1, <1>2, <1>3 DEF FreeingOk
<1> QED
  BY <1>1, <1>4, <1>5, StillLent

\* So are those of an immutable one.
LEMMA ImDocFreeKeeps == ASSUME MemInv, ImDocFree PROVE MemInv'
<1>1. /\ imdoc # <<>> /\ imdoc' = <<>> /\ freeing' = imdoc /\ alc' = alc /\ mem' = mem
      /\ held' = held /\ doc' = doc
  BY DEF ImDocFree
<1>2. ImdocOk
  BY <1>1 DEF MemInv, DocOk, FreeingOk
<1>3. FreeingOk'
  BY <1>1, <1>2 DEF ImdocOk, FreeingOk
<1>4. Lent' = Lent
  BY <1>1, <1>2, Inputs DEF Lent, ImdocOk
<1> QED
  BY <1>1, <1>3, <1>4, StillLent

\* A list without its first.
LEMMA Shorter ==
    ASSUME NEW s \in Seq(Nat), s # <<>>, OnlyOnce(s)
    PROVE  /\ Head(s) \in Range(s) /\ Tail(s) \in Seq(Nat) /\ OnlyOnce(Tail(s))
           /\ \A x : x \in Range(Tail(s)) <=> x \in Range(s) /\ x # Head(s)
<1> DEFINE t == Tail(s)
           n == Len(s)
<1>1. /\ n \in Nat /\ n > 0 /\ DOMAIN s = 1 .. n /\ Head(s) = s[1]
      /\ t \in Seq(Nat) /\ DOMAIN t = 1 .. n - 1
      /\ \A k \in 1 .. n - 1 : t[k] = s[k + 1]
  OBVIOUS
<1> HIDE DEF t, n
<1>2. s[1] \in Range(s)
  BY <1>1 DEF Range
<1>3. OnlyOnce(t)
  <2>1. ASSUME NEW j \in 1 .. n - 1, NEW k \in 1 .. n - 1, t[j] = t[k] PROVE j = k
    <3>1. j + 1 \in 1 .. n /\ k + 1 \in 1 .. n /\ s[j + 1] = s[k + 1]
      BY <1>1, <2>1
    <3>2. j + 1 = k + 1
      BY <1>1, <3>1 DEF OnlyOnce
    <3> QED
      BY <3>2
  <2> QED
    BY <1>1, <2>1 DEF OnlyOnce
<1>4. ASSUME NEW x PROVE x \in Range(t) <=> x \in Range(s) /\ x # s[1]
  <2>1. ASSUME x \in Range(t) PROVE x \in Range(s) /\ x # s[1]
    <3>1. PICK k \in 1 .. n - 1 : x = t[k]
      BY <1>1, <2>1 DEF Range
    <3>2. k + 1 \in 1 .. n /\ 1 \in 1 .. n /\ k + 1 # 1 /\ x = s[k + 1]
      BY <1>1, <3>1
    <3> QED
      BY <1>1, <3>2 DEF OnlyOnce, Range
  <2>2. ASSUME x \in Range(s), x # s[1] PROVE x \in Range(t)
    <3>1. PICK k \in 1 .. n : x = s[k]
      BY <1>1, <2>2 DEF Range
    <3>2. k - 1 \in 1 .. n - 1 /\ (k - 1) + 1 = k
      BY <1>1, <2>2, <3>1
    <3>3. t[k - 1] = x
      BY <1>1, <3>1, <3>2
    <3> QED
      BY <1>1, <3>2, <3>3 DEF Range
  <2> QED
    BY <2>1, <2>2
<1> QED
  BY <1>1, <1>2, <1>3, <1>4 DEF t

\* One of them is given back.
LEMMA ReleaseKeeps == ASSUME MemInv, Release PROVE MemInv'
<1> DEFINE c == Head(freeing)
<1>1. /\ freeing # <<>> /\ mem' = Free(mem, c) /\ freeing' = Tail(freeing)
      /\ alc' = alc /\ held' = held /\ doc' = doc /\ imdoc' = imdoc
  BY DEF Release
<1>2. FreeingOk /\ alc \in Allocs /\ HeldOk(alc, mem, held) /\ Sound(alc, mem, Owned)
      /\ OnlyOnce(Lent) /\ DOMAIN held \cap Range(Lent) = {}
  BY <1>1 DEF MemInv, DocOk, ImdocOk
<1>3. Lent = freeing /\ Lent' = freeing'
  BY <1>1, <1>2, Inputs DEF Lent, FreeingOk
<1>4. freeing \in Seq(Nat)
  BY <1>2 DEF FreeingOk
<1>5. /\ c \in Range(freeing) /\ freeing' \in Seq(Nat) /\ OnlyOnce(freeing')
      /\ \A x : x \in Range(freeing') <=> x \in Range(freeing) /\ x # c
  BY <1>1, <1>2, <1>3, <1>4, Shorter
<1> HIDE DEF c
<1>6. c \in Owned /\ c \notin DOMAIN held
  BY <1>2, <1>3, <1>5 DEF Owned
<1>7. Owned' = Owned \ {c}
  BY <1>1, <1>3, <1>5, <1>6 DEF Owned
<1>8. Sound(alc, mem', Owned') /\ SameWidths(alc, mem, mem', Owned \ {c})
  BY <1>1, <1>2, <1>6, <1>7, FreeIs
<1>9. DOMAIN held \subseteq Owned \ {c}
  BY <1>6 DEF Owned
<1>10. HeldOk(alc, mem', held)
  BY <1>2, <1>8, <1>9, HeldStays
<1>11. FreeingOk'
  BY <1>1, <1>2, <1>5 DEF FreeingOk
<1>12. OnlyOnce(Lent') /\ DOMAIN held' \cap Range(Lent') = {}
  BY <1>1, <1>2, <1>3, <1>5
<1> QED
  BY <1>1, <1>2, <1>8, <1>10, <1>11, <1>12 DEF MemInv

\* An immutable document more.
LEMMA ImdocNext ==
    ASSUME doc' = NoneYet, freeing' = <<>>, alc' \in Allocs, imdoc' \in Seq(Nat), imdoc' # <<>>,
           OnlyOnce(imdoc'), \A x \in DOMAIN held' : x \notin Range(imdoc'),
           Sound(alc', mem', DOMAIN held' \cup Range(imdoc')), HeldOk(alc', mem', held')
    PROVE  MemInv'
<1>1. Lent' = imdoc'
  BY Inputs DEF Lent
<1>2. Owned' = DOMAIN held' \cup Range(imdoc')
  BY <1>1 DEF Owned
<1>3. ImdocOk'
  BY DEF ImdocOk
<1>4. OnlyOnce(Lent') /\ DOMAIN held' \cap Range(Lent') = {}
  BY <1>1
<1> QED
  BY <1>2, <1>3, <1>4 DEF MemInv

\* Two blocks.
LEMMA Double ==
    ASSUME NEW b \in Nat, NEW a \in Nat, a # b
    PROVE  /\ <<b, a>> \in Seq(Nat) /\ OnlyOnce(<<b, a>>)
           /\ \A x : x \in Range(<<b, a>>) <=> x = a \/ x = b
<1>1. <<b, a>> \in Seq(Nat) /\ DOMAIN <<b, a>> = 1 .. 2 /\ <<b, a>>[1] = b /\ <<b, a>>[2] = a
  OBVIOUS
<1> DEFINE s == <<b, a>>
<1> HIDE DEF s
<1>2. s \in Seq(Nat) /\ DOMAIN s = 1 .. 2 /\ s[1] = b /\ s[2] = a
  BY <1>1 DEF s
<1>3. OnlyOnce(s)
  BY <1>2 DEF OnlyOnce
<1>4. \A x : x \in Range(s) <=> x = a \/ x = b
  BY <1>2 DEF Range
<1> QED
  BY <1>2, <1>3, <1>4 DEF s

\* yyjson_mut_val_imut_copy: two blocks, one, or none.
LEMMA ImutCopyKeeps == ASSUME MemInv, ImutCopy PROVE MemInv'
<1>1. NoDoc /\ alc' = alc /\ held' = held /\ doc' = doc /\ freeing' = freeing
  BY DEF ImutCopy
<1>2. /\ doc = NoneYet /\ imdoc = <<>> /\ freeing = <<>>
      /\ alc \in Allocs /\ Sound(alc, mem, DOMAIN held) /\ HeldOk(alc, mem, held)
  BY <1>1, UsersOnly
<1>3. PICK vals \in 1 .. 2, strs \in Sizes \cup {0}, ok1 \in Outcomes, ok2 \in Outcomes :
         LET new == imut_alloc(mem, vals, strs, ok1, ok2)
         IN mem' = new.mem /\ imdoc' = new.doc
  BY DEF ImutCopy
<1> DEFINE H == DOMAIN held
           n == DocSize + 2 * vals
           a == Malloc(mem, n, ok1)
           b == Malloc(a.mem, strs, ok2)
           s == a.mem
<1>4. strs \in Nat /\ ok1 \in BOOLEAN /\ ok2 \in BOOLEAN /\ n \in Nat
  BY Inputs
<1>5. /\ a.at = None => mem' = a.mem /\ imdoc' = <<>>
      /\ a.at # None /\ strs = 0 => mem' = a.mem /\ imdoc' = <<a.at>>
      /\ a.at # None /\ strs # 0 /\ b.at = None => mem' = Free(b.mem, a.at) /\ imdoc' = <<>>
      /\ a.at # None /\ strs # 0 /\ b.at # None => mem' = b.mem /\ imdoc' = <<b.at, a.at>>
  BY <1>3 DEF imut_alloc
<1> HIDE DEF n
<1>6. \/ a.at = None /\ a.mem = mem
      \/ GaveOne(alc, mem, a, H, Need(alc, n))
  BY <1>2, <1>4, MallocIs
<1> HIDE DEF a
<1>7. CASE a.at = None /\ a.mem = mem
  BY <1>1, <1>2, <1>5, <1>7, UsersOnlyNext
<1>8. CASE GaveOne(alc, mem, a, H, Need(alc, n))
  <2> DEFINE c == a.at
  <2>1. /\ c \in Nat /\ c # None /\ c \notin H /\ Sound(alc, s, H \cup {c}) /\ SameWidths(alc, mem, s, H)
    BY <1>8, Inputs DEF GaveOne
  <2>2. HeldOk(alc, s, held)
    BY <1>2, <2>1, HeldStays
  <2>3. \/ b.at = None /\ b.mem = s
        \/ GaveOne(alc, s, b, H \cup {c}, Need(alc, strs))
    BY <1>4, <2>1, MallocIs
  <2> HIDE DEF b
  <2>4. CASE strs = 0
    <3>1. imdoc' = <<c>> /\ mem' = s
      BY <1>5, <2>1, <2>4
    <3>2. <<c>> \in Seq(Nat) /\ OnlyOnce(<<c>>) /\ \A x : x \in Range(<<c>>) <=> x = c
      BY <2>1, Single
    <3>3. imdoc' # <<>>
      BY <3>1
    <3>4. imdoc' \in Seq(Nat) /\ OnlyOnce(imdoc') /\ \A x : x \in Range(imdoc') <=> x = c
      BY <3>1, <3>2
    <3>5. H \cup Range(imdoc') = H \cup {c} /\ \A x \in H : x \notin Range(imdoc')
      BY <2>1, <3>4
    <3> QED
      BY <1>1, <1>2, <2>1, <2>2, <3>1, <3>3, <3>4, <3>5, ImdocNext
  <2>5. CASE strs # 0 /\ b.at = None /\ b.mem = s
    <3>1. imdoc' = <<>> /\ mem' = Free(s, c)
      BY <1>5, <2>1, <2>5
    <3>2. Sound(alc, Free(s, c), (H \cup {c}) \ {c}) /\ SameWidths(alc, s, Free(s, c), (H \cup {c}) \ {c})
      BY <2>1, FreeIs
    <3>3. (H \cup {c}) \ {c} = H
      BY <2>1
    <3>4. Sound(alc, mem', H) /\ SameWidths(alc, s, mem', H)
      BY <3>1, <3>2, <3>3
    <3>5. HeldOk(alc, mem', held)
      BY <2>2, <3>4, HeldStays
    <3> QED
      BY <1>1, <1>2, <3>1, <3>4, <3>5, UsersOnlyNext
  <2>6. CASE strs # 0 /\ GaveOne(alc, s, b, H \cup {c}, Need(alc, strs))
    <3> DEFINE d == b.at
               t == b.mem
    <3>1. /\ d \in Nat /\ d # None /\ d \notin H \cup {c} /\ Sound(alc, t, H \cup {c} \cup {d})
          /\ SameWidths(alc, s, t, H \cup {c})
      BY <2>6, Inputs DEF GaveOne
    <3>2. imdoc' = <<d, c>> /\ mem' = t
      BY <1>5, <2>1, <2>6, <3>1
    <3> HIDE DEF d, t, c, H
    <3>3. /\ <<d, c>> \in Seq(Nat) /\ OnlyOnce(<<d, c>>)
          /\ \A x : x \in Range(<<d, c>>) <=> x = c \/ x = d
      BY <2>1, <3>1, Double
    <3>4. imdoc' # <<>>
      BY <3>2
    <3>5. imdoc' \in Seq(Nat) /\ OnlyOnce(imdoc') /\ \A x : x \in Range(imdoc') <=> x = c \/ x = d
      BY <3>2, <3>3
    <3>6. H \cup Range(imdoc') = H \cup {c} \cup {d} /\ \A x \in H : x \notin Range(imdoc')
      BY <2>1, <3>1, <3>5
    <3>7. HeldOk(alc, mem', held)
      BY <2>2, <3>1, <3>2, HeldStays DEF H
    <3> QED
      BY <1>1, <1>2, <3>1, <3>2, <3>4, <3>5, <3>6, <3>7, ImdocNext DEF H
  <2> QED
    BY <2>3, <2>4, <2>5, <2>6
<1> QED
  BY <1>6, <1>7, <1>8

-----------------------------------------------------------------------------
(* The theorem.                                                            *)

\* The buffer is one free chunk at first.
LEMMA PoolInitIs == ASSUME NEW skew \in 0 .. 1 PROVE PoolInv(pool_init(Total, skew), {})
<1> DEFINE n == ((Total - skew) \div 2) * 2
           h == [c \in {0} |-> n - 2]
           p == [size |-> n, hdr |-> h, free |-> <<0>>]
<1>1. pool_init(Total, skew) = p
  BY DEF pool_init, Header
<1>2. n \in Nat /\ n >= 6
  <2>1. Total - skew \in Nat /\ Total - skew >= 7
    BY MemBounds
  <2> QED
    BY <2>1
<1> HIDE DEF n
<1>3. DOMAIN h = {0} /\ h[0] = n - 2 /\ h \in [{0} -> Nat] /\ n - 2 \in Nat
  BY <1>2
<1> HIDE DEF h
<1>4. h \in Hdrs
  <2>1. {0} \in SUBSET Nat
    OBVIOUS
  <2> QED
    BY <1>3, <2>1 DEF Hdrs
<1>5. <<0>> \in Seq(Nat) /\ \A x : x \in Range(<<0>>) <=> x = 0
  <2>1. 0 \in Nat
    OBVIOUS
  <2> QED
    BY <2>1, Single
<1>6. p \in PoolType /\ p.size = n /\ p.hdr = h /\ p.free = <<0>>
  BY <1>2, <1>4, <1>5 DEF PoolType
<1>7. Cover(h, n - 2)
  BY <1>2, <1>3 DEF Cover
<1>8. Upward(<<0>>) /\ Gaps(h, {0})
  <2>1. Len(<<0>>) = 1
    OBVIOUS
  <2>2. Upward(<<0>>)
    BY <2>1 DEF Upward
  <2>3. Gaps(h, {0})
    BY <1>3 DEF Gaps
  <2> QED
    BY <2>2, <2>3
<1>9. Range(<<0>>) = {0}
  BY <1>5
<1> HIDE DEF p
<1>10. p \in PoolType /\ p.size >= Header
  BY <1>2, <1>6 DEF Header
<1>11. Cover(p.hdr, p.size - Header)
  BY <1>6, <1>7 DEF Header
<1>12. /\ Upward(p.free) /\ Range(p.free) = DOMAIN p.hdr \ {} /\ {} \subseteq DOMAIN p.hdr
       /\ Gaps(p.hdr, Range(p.free))
  BY <1>3, <1>6, <1>8, <1>9
<1> QED
  BY <1>1, <1>10, <1>11, <1>12 DEF PoolInv

\* libc gave nothing at first.
LEMMA DynInitIs == DynInv(dyn_init, {})
<1>1. DOMAIN Empty = {} /\ Empty \in [{} -> Nat]
  BY DEF Empty
<1>2. Empty \in Hdrs
  BY <1>1 DEF Hdrs
<1>3. dyn_init.size = Empty /\ dyn_init.free = <<>> /\ dyn_init.used = <<>>
  BY DEF dyn_init
<1>4. dyn_init \in DynType
  BY <1>2, Nothing DEF dyn_init, DynType
<1>5. Lists(dyn_init, {})
  BY <1>1, <1>3, Nothing DEF Lists
<1> QED
  BY <1>4, <1>5 DEF DynInv

\* The invariant at the start.
LEMMA MemStarts == ASSUME MemInit PROVE MemInv
<1>1. alc \in Allocs
  BY DEF MemInit, Allocs
<1>2. held = Empty /\ doc = NoneYet /\ imdoc = <<>> /\ freeing = <<>>
  BY DEF MemInit
<1>3. DOMAIN held = {}
  BY <1>2 DEF Empty
<1>4. Lent = <<>>
  BY <1>2, Inputs DEF Lent
<1>5. Owned = {} /\ OnlyOnce(Lent) /\ DOMAIN held \cap Range(Lent) = {}
  BY <1>3, <1>4, Nothing DEF Owned
<1>6. Sound(alc, mem, {})
  <2>1. CASE alc = "pool"
    <3>1. PICK skew \in 0 .. 1 : mem = pool_init(Total, skew)
      BY <2>1 DEF MemInit
    <3> QED
      BY <2>1, <3>1, PoolInitIs DEF Sound
  <2>2. CASE alc # "pool"
    <3>1. mem = dyn_init
      BY <2>2 DEF MemInit
    <3> QED
      BY <2>2, <3>1, DynInitIs DEF Sound
  <2> QED
    BY <2>1, <2>2
<1>7. HeldOk(alc, mem, held)
  BY <1>3 DEF HeldOk
<1>8. FreeingOk
  BY <1>2, Nothing DEF FreeingOk
<1> QED
  BY <1>1, <1>5, <1>6, <1>7, <1>8 DEF MemInv

\* The invariant of every step.
LEMMA MemKeeps == ASSUME MemInv, [MemNext]_memVars PROVE MemInv'
<1>1. CASE UserMalloc
  BY <1>1, UserMallocKeeps
<1>2. CASE UserRealloc
  BY <1>2, UserReallocKeeps
<1>3. CASE UserFree
  BY <1>3, UserFreeKeeps
<1>4. CASE DocNew
  BY <1>4, DocNewKeeps
<1>5. CASE SetPoolSize
  BY <1>5, SetPoolSizeKeeps
<1>6. CASE NewStr
  BY <1>6, NewStrKeeps
<1>7. CASE NewVal
  BY <1>7, NewValKeeps
<1>8. CASE DocFree
  BY <1>8, DocFreeKeeps
<1>9. CASE ImutCopy
  BY <1>9, ImutCopyKeeps
<1>10. CASE ImDocFree
  BY <1>10, ImDocFreeKeeps
<1>11. CASE Release
  BY <1>11, ReleaseKeeps
<1>12. CASE UNCHANGED memVars
  <2>1. /\ alc' = alc /\ mem' = mem /\ held' = held /\ doc' = doc /\ imdoc' = imdoc
        /\ freeing' = freeing
    BY <1>12 DEF memVars
  <2>2. Lent' = Lent
    BY <2>1 DEF Lent
  <2>3. Owned' = Owned
    BY <2>1, <2>2 DEF Owned
  <2>4. DocOk' = DocOk /\ ImdocOk' = ImdocOk /\ FreeingOk' = FreeingOk
    BY <2>1 DEF DocOk, ImdocOk, FreeingOk
  <2> QED
    BY <2>1, <2>2, <2>3, <2>4 DEF MemInv
<1> QED
  BY <1>1, <1>2, <1>3, <1>4, <1>5, <1>6, <1>7, <1>8, <1>9, <1>10, <1>11, <1>12 DEF MemNext

\* What the invariant says of the blocks.
LEMMA KeepsBlocks == ASSUME MemInv PROVE BlocksKept
<1>1. /\ alc \in Allocs /\ HeldOk(alc, mem, held) /\ Sound(alc, mem, Owned)
      /\ OnlyOnce(Lent) /\ DOMAIN held \cap Range(Lent) = {}
  BY DEF MemInv
<1>2. CASE alc = "pool"
  <2> DEFINE p == mem
             O == Owned
  <2>1. PoolInv(p, O)
    BY <1>1, <1>2 DEF Sound
  <2> HIDE DEF p, O
  <2>2. Cover(p.hdr, p.size - Header) /\ Range(p.free) = DOMAIN p.hdr \ O /\ O \subseteq DOMAIN p.hdr
        /\ Upward(p.free) /\ Gaps(p.hdr, Range(p.free))
    BY <2>1 DEF PoolInv
  <2>3. DOMAIN p.free = 1 .. Len(p.free) /\ \A i \in 1 .. Len(p.free) : p.free[i] \in Range(p.free)
    BY <2>1, PoolFields
  <2>4. ASSUME NEW i \in DOMAIN p.free, NEW j \in DOMAIN p.free, i < j
        PROVE  EndOf(p, p.free[i]) < p.free[j]
    <3>1. p.free[i] \in Range(p.free) /\ p.free[j] \in Range(p.free) /\ p.free[i] < p.free[j]
      BY <2>2, <2>3, <2>4 DEF Upward
    <3> QED
      BY <2>2, <3>1 DEF Gaps, EndOf
  <2>5. Tiles(p, O)
    BY <2>2, <2>4 DEF Tiles, Cover, EndOf
  <2>6. \A c \in DOMAIN held : Room(mem, c) >= held[c]
    <3>1. ASSUME NEW c \in DOMAIN held PROVE Room(mem, c) >= held[c]
      <4>1. held[c] \in Nat /\ mem.hdr[c] >= Need(alc, held[c]) /\ c \in Owned
        BY <1>1, <1>2 DEF HeldOk, Width, Owned
      <4>2. mem.hdr[c] \in Nat
        BY <1>1, <1>2, <4>1, SoundIs DEF Width
      <4>3. Need(alc, held[c]) \in Nat /\ Need(alc, held[c]) >= held[c] + Header
        BY <4>1, Needs
      <4>4. Room(mem, c) = mem.hdr[c] - Header
        BY <1>2 DEF Room
      <4> QED
        BY <4>1, <4>2, <4>3, <4>4 DEF Header
    <3> QED
      BY <3>1
  <2> QED
    BY <1>1, <1>2, <2>5, <2>6 DEF BlocksKept, p, O
<1>3. CASE alc # "pool"
  <2>1. Lists(mem, Owned)
    BY <1>1, <1>3 DEF Sound, DynInv
  <2>2. \A c \in DOMAIN held : Room(mem, c) >= held[c]
    <3>1. ASSUME NEW c \in DOMAIN held PROVE Room(mem, c) >= held[c]
      <4>1. held[c] \in Nat /\ mem.size[c] >= Need(alc, held[c]) /\ c \in Owned
        BY <1>1, <1>3 DEF HeldOk, Width, Owned
      <4>2. mem.size[c] \in Nat
        BY <1>1, <1>3, <4>1, SoundIs DEF Width
      <4>3. Need(alc, held[c]) \in Nat /\ Need(alc, held[c]) >= held[c] + Header
        BY <4>1, Needs
      <4>4. Room(mem, c) = mem.size[c] - Header
        BY <1>3 DEF Room
      <4> QED
        BY <4>1, <4>2, <4>3, <4>4 DEF Header
    <3> QED
      BY <3>1
  <2> QED
    BY <1>1, <1>3, <2>1, <2>2 DEF BlocksKept
<1> QED
  BY <1>2, <1>3

\* What it says of a pool of strings or values.
LEMMA PoolApart ==
    ASSUME alc \in Allocs, NEW O, Sound(alc, mem, O), NEW pool, PoolOk(alc, mem, pool),
           Range(pool.chunks) \subseteq O
    PROVE  \A s \in pool.spans :
              /\ s.at \in Range(pool.chunks)
              /\ s.from + s.n <= s.room /\ s.room <= Room(mem, s.at)
              /\ \A t \in pool.spans : s.at = t.at /\ s # t =>
                    s.from + s.n <= t.from \/ t.from + t.n <= s.from
<1> TAKE s \in pool.spans
<1>1. /\ s.at \in Range(pool.chunks)
      /\ s.from + s.n <= s.room /\ s.room + Header <= Width(alc, mem, s.at)
      /\ \A t \in pool.spans : s.at = t.at /\ s # t => s.from + s.n <= t.from \/ t.from + t.n <= s.from
  BY DEF PoolOk
<1>2. s.room \in Nat
  BY DEF PoolOk, PoolRec
<1>3. Width(alc, mem, s.at) \in Nat
  BY <1>1, SoundIs
<1>4. Room(mem, s.at) = Width(alc, mem, s.at) - Header
  BY DEF Room, Width
<1>5. s.room <= Room(mem, s.at)
  BY <1>1, <1>2, <1>3, <1>4 DEF Header
<1> QED
  BY <1>1, <1>5

\* What it says of a document.
LEMMA KeepsSpans == ASSUME MemInv PROVE SpansApart
<1>1. CASE doc.at # None
  <2>1. /\ PoolOk(alc, mem, doc.str) /\ PoolOk(alc, mem, doc.val) /\ alc \in Allocs
        /\ Owned = DOMAIN held \cup BlockSet(doc) /\ Sound(alc, mem, Owned)
    BY <1>1, DocOnly
  <2>2. Range(doc.str.chunks) \subseteq Owned /\ Range(doc.val.chunks) \subseteq Owned
    BY <2>1 DEF BlockSet
  <2> DEFINE P(pool) == \A s \in pool.spans :
                /\ s.at \in Range(pool.chunks)
                /\ s.from + s.n <= s.room /\ s.room <= Room(mem, s.at)
                /\ \A t \in pool.spans : s.at = t.at /\ s # t =>
                      s.from + s.n <= t.from \/ t.from + t.n <= s.from
  <2>3. P(doc.str)
    BY <2>1, <2>2, PoolApart
  <2>4. P(doc.val)
    BY <2>1, <2>2, PoolApart
  <2>5. SpansApart = (\A pool \in {doc.str, doc.val} : P(pool))
    BY DEF SpansApart
  <2> HIDE DEF P
  <2> QED
    BY <2>3, <2>4, <2>5
<1>2. CASE doc.at = None
  <2>1. doc = NoneYet
    BY <1>2, Inputs DEF MemInv, DocOk, ImdocOk, FreeingOk, DocRec
  <2>2. doc.str.spans = {} /\ doc.val.spans = {}
    BY <2>1 DEF NoneYet, Pool
  <2> QED
    BY <2>2 DEF SpansApart
<1> QED
  BY <1>1, <1>2

\* Whatever the sizes and the order of the calls, and whenever libc is out of memory:
\* no block has two owners, none is lost, each is as large as was asked for, free
\* chunks are in order and never side by side, and what a document takes from its
\* chunks does not overlap.  Calls of realloc whose copy does not fit (CopyFits) are
\* no steps of MemSpec.
THEOREM Apart == MemSpec => []BlocksApart
<1>1. MemInit => MemInv
  BY MemStarts
<1>2. MemInv /\ [MemNext]_memVars => MemInv'
  BY MemKeeps
<1>3. MemInv => BlocksApart
  BY KeepsBlocks, KeepsSpans DEF BlocksApart
<1> QED
  BY <1>1, <1>2, <1>3, PTL DEF MemSpec
=============================================================================
