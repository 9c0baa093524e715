--------------------------- MODULE RefCountProofs ----------------------------
(***************************************************************************)
(* The counted handles, for any number of threads, handles and objects, in *)
(* a program that is Confined: an object is deleted once, when no handle   *)
(* refers to it any more, and the counters are the numbers of handles.     *)
(***************************************************************************)
EXTENDS RefCount, FiniteSetTheorems, SequenceTheorems, TLAPS

Strong == RCs \cup Uniques
RelOps    == {"release", "weak_release", "detach"}
AcqOps    == {"add_ref", "weak_add_ref", "set_unique"}
Decisions == {"weak_count", "count", "delete"}
HandleOps == RelOps \cup AcqOps \cup {"lock", "clear"}
Ops       == HandleOps \cup Decisions
Accesses  == [op : Ops, obj : Objs \cup {Null}, h : Handles \cup {Null}]

\* An operation detaches, then releases, then acquires, then clears.
Rank(op) == IF op = "detach" THEN 1
            ELSE IF op \in AcqOps THEN 3 ELSE IF op = "clear" THEN 4 ELSE 2

ItemsOf(L) == {L[i] : i \in DOMAIN L}
Items(t) == ItemsOf(todo[t])
Sorted(L) == \A i, j \in DOMAIN L : i < j => Rank(L[i].op) < Rank(L[j].op)

Fits(t, x) ==
    /\ x.obj \in Objs <=> x.op # "clear"
    /\ x.op \in HandleOps => x.h \in Handles /\ Owner[x.h] = t
    /\ x.op = "release" => x.h \in Strong
    /\ x.op = "detach" => x.h \in Uniques
    /\ x.op = "weak_release" => x.h \in Weaks
    /\ x.op \in AcqOps => x.op = AcquireOp(x.h)
    /\ x.op = "lock" => x.h \in RCs
    /\ x.op = "clear" => x.h \in RCs \cup Weaks

Typed ==
    /\ ptr \in [Handles -> Objs \cup {Null}]
    /\ \A h \in Handles : ptr[h] \in Use[h] \cup {Null}
    /\ counter \in [Objs -> Nat] /\ weak_counter \in [Objs -> Nat]
    /\ status \in [Objs -> {"none", "alive", "deleted"}]
    /\ faults = {}
    /\ todo \in [Owners -> Seq(Accesses)]
    /\ \A t \in Owners : Sorted(todo[t])
    /\ \A t \in Owners : \A x \in Items(t) : Fits(t, x)

-----------------------------------------------------------------------------
(* What counts for a handle: held[h] is the object whose counter counts h. *)

Quiet(h) == \A x \in Items(Owner[h]) : x.op \in RelOps \cup AcqOps => x.h # h
Counted1(held, hs, o) == Cardinality({h \in hs : held[h] = o})
Counting(held) ==
    /\ \A h \in Handles : held[h] \in Use[h] \cup {Null}
    /\ \A o \in Objs : counter[o] = Counted1(held, Strong, o)
    /\ \A o \in Objs : weak_counter[o] = Counted1(held, Weaks, o)
    /\ \A h \in Handles : Quiet(h) => held[h] = ptr[h]
    /\ \A u \in Uniques, g \in Strong : g # u /\ held[u] # Null => held[g] # held[u]

\* What a thread knows of an object.
Knows(held, t, o) ==
    \/ \E g \in Handles : Owner[g] = t /\ (ptr[g] = o \/ held[g] = o)
    \/ \E y \in Items(t) : y.obj = o
Alone(held, t, o) == \A s \in Owners : s # t => ~Knows(held, s, o)

Releasing(held, t, x) == x.op \in RelOps =>
    /\ held[x.h] = x.obj
    /\ ptr[x.h] = Null \/ \E y \in Items(t) : y.op \in AcqOps /\ y.h = x.h
Detaching(t, x) == x.op = "detach" =>
    /\ ptr[x.h] = Null
    /\ \E y \in Items(t) : y.op \in AcqOps /\ y.obj = x.obj
    /\ \A y \in Items(t) : y # x /\ y.op \in HandleOps => y.h # x.h
Acquiring(held, t, x) == x.op \in AcqOps =>
    /\ ptr[x.h] = x.obj
    /\ held[x.h] = Null \/ \E y \in Items(t) : y.op \in RelOps /\ y.h = x.h
Locking(held, t, x) == x.op = "lock" =>
    /\ x.obj \in Use[x.h] /\ ptr[x.h] = Null
    /\ \E w \in Weaks : Owner[w] = t /\ held[w] = x.obj
    /\ \A y \in Items(t) : y = x
Clearing(t, x) == x.op = "clear" =>
    /\ ptr[x.h] # Null
    /\ \A y \in Items(t) : y # x /\ y.op \in HandleOps => y.h # x.h

\* Why an object that is to be acquired is still there: another handle of the
\* thread holds it and stays, or nobody else knows of it.
Source(held, t, x) ==
    \E g \in Handles :
        /\ g # x.h /\ Owner[g] = t /\ held[g] = x.obj
        /\ \A y \in Items(t) : y.op \in RelOps => y.h # g
        /\ x.h \in RCs => g \in RCs
        /\ x.h \notin Uniques
Sole(held, t, x) ==
    /\ x.h \in Strong /\ held[x.h] # x.obj
    /\ \A g \in Handles : Owner[g] = t /\ g # x.h =>
          /\ ptr[g] # x.obj
          /\ held[g] = x.obj => \E y \in Items(t) : y.op = "detach" /\ y.h = g
    /\ \A y \in Items(t) : y.obj = x.obj => y = x \/ y.op = "detach"
    /\ Alone(held, t, x.obj)
Granted(held, t, x) == x.op \in AcqOps => Source(held, t, x) \/ Sole(held, t, x)

Own(t, o) == HasWeak(o) /\ \A h \in Handles : o \in Use[h] => Owner[h] = t
Deciding(held, t, x) ==
    /\ x.op = "weak_count" => Own(t, x.obj) /\ \A h \in Strong : held[h] # x.obj
    /\ x.op = "count" => Own(t, x.obj) /\ \A h \in Weaks : held[h] # x.obj
    /\ x.op = "delete" =>
          /\ \A h \in Handles : Owner[h] = t => held[h] # x.obj /\ ptr[h] # x.obj
          /\ \A y \in Items(t) : y.obj = x.obj => y = x
          /\ Alone(held, t, x.obj)

Item(held, t, x) ==
    /\ Releasing(held, t, x) /\ Detaching(t, x) /\ Acquiring(held, t, x)
    /\ Locking(held, t, x) /\ Clearing(t, x)
    /\ Granted(held, t, x) /\ Deciding(held, t, x)
Scheduled(held, t) == \A x \in Items(t) : Item(held, t, x)

Living(held) ==
    /\ \A t \in Owners : \A o \in Objs : Knows(held, t, o) => status[o] = "alive"
    /\ \A o \in Objs : status[o] = "alive" =>
          \/ \E h \in Handles : held[h] = o
          \/ \E t \in Owners : \E x \in Items(t) : x.op \in AcqOps \cup Decisions /\ x.obj = o

Held == [Handles -> Objs \cup {Null}]
HInv(held) == Counting(held) /\ (\A t \in Owners : Scheduled(held, t)) /\ Living(held)
IInv == Typed /\ \E held \in Held : HInv(held)

-----------------------------------------------------------------------------
(* The lists of accesses, as sets.                                         *)

\* The rank of an access is a number.
LEMMA RankType == \A op : Rank(op) \in Nat
BY DEF Rank

\* The head comes before the others, and what is left is the tail.
LEMMA HeadAndTail ==
    ASSUME NEW L \in Seq(Accesses), L # <<>>, Sorted(L)
    PROVE  /\ Head(L) \in ItemsOf(L) /\ Head(L) \in Accesses
           /\ Tail(L) \in Seq(Accesses) /\ Sorted(Tail(L))
           /\ ItemsOf(Tail(L)) = ItemsOf(L) \ {Head(L)}
           /\ \A y \in ItemsOf(L) : y # Head(L) => Rank(Head(L).op) < Rank(y.op)
<1> PICK n \in Nat : n = Len(L)
  OBVIOUS
<1> DEFINE r == Tail(L)
<1>1. /\ DOMAIN L = 1 .. n /\ Head(L) = L[1] /\ 1 \in 1 .. n
      /\ r \in Seq(Accesses) /\ DOMAIN r = 1 .. n - 1
  OBVIOUS
<1>2. \A i \in 1 .. n - 1 : r[i] = L[i + 1] /\ i + 1 \in 1 .. n
  OBVIOUS
<1>3. \A i, j \in 1 .. n : i < j => Rank(L[i].op) < Rank(L[j].op)
  BY <1>1 DEF Sorted
<1>4. \A i \in 1 .. n : i # 1 => Rank(L[1].op) < Rank(L[i].op)
  BY <1>1, <1>3
<1>5. \A i \in 1 .. n : i # 1 => L[i] # L[1]
  BY <1>4, RankType
<1>6. \A i \in 1 .. n : i # 1 => i - 1 \in 1 .. n - 1 /\ L[i] = r[i - 1]
  OBVIOUS
<1>7. Sorted(r)
  BY <1>1, <1>2, <1>3 DEF Sorted
<1>8. ItemsOf(r) = ItemsOf(L) \ {L[1]}
  <2>1. \A i \in 1 .. n - 1 : r[i] \in ItemsOf(L) \ {L[1]}
    <3> TAKE i \in 1 .. n - 1
    <3>1. i + 1 \in 1 .. n /\ i + 1 # 1 /\ r[i] = L[i + 1]
      BY <1>2
    <3>2. L[i + 1] # L[1]
      BY <3>1, <1>5
    <3> QED
      BY <3>1, <3>2, <1>1 DEF ItemsOf
  <2>2. \A x \in ItemsOf(L) \ {L[1]} : \E i \in 1 .. n - 1 : x = r[i]
    BY <1>1, <1>6 DEF ItemsOf
  <2>3. \A x : x \in ItemsOf(r) <=> \E i \in 1 .. n - 1 : x = r[i]
    BY <1>1 DEF ItemsOf
  <2> HIDE DEF r
  <2> QED
    BY <2>1, <2>2, <2>3
<1>9. \A y \in ItemsOf(L) : y # L[1] => Rank(L[1].op) < Rank(y.op)
  BY <1>1, <1>4 DEF ItemsOf
<1>10. L[1] \in Accesses /\ L[1] \in ItemsOf(L)
  BY <1>1 DEF ItemsOf
<1> QED
  BY <1>1, <1>7, <1>8, <1>9, <1>10

\* A list is followed by one whose accesses all rank higher.
LEMMA Joined ==
    ASSUME NEW K \in Seq(Accesses), NEW L \in Seq(Accesses), Sorted(K), Sorted(L),
           \A x \in ItemsOf(K), y \in ItemsOf(L) : Rank(x.op) < Rank(y.op)
    PROVE  /\ K \o L \in Seq(Accesses)
           /\ Sorted(K \o L)
           /\ ItemsOf(K \o L) = ItemsOf(K) \cup ItemsOf(L)
<1> PICK m \in Nat : m = Len(K)
  OBVIOUS
<1> PICK n \in Nat : n = Len(L)
  OBVIOUS
<1> DEFINE q == K \o L
<1>1. /\ q \in Seq(Accesses) /\ DOMAIN q = 1 .. m + n
      /\ DOMAIN K = 1 .. m /\ DOMAIN L = 1 .. n
  OBVIOUS
<1>2. \A i \in 1 .. m : i \in 1 .. m + n /\ q[i] = K[i]
  OBVIOUS
<1>3. \A i \in 1 .. m + n : i > m => i - m \in 1 .. n /\ q[i] = L[i - m]
  OBVIOUS
<1>4. \A i \in 1 .. n : i + m \in 1 .. m + n /\ q[i + m] = L[i]
  OBVIOUS
<1> HIDE DEF q
<1>5. \A i \in 1 .. m, j \in 1 .. n : Rank(K[i].op) < Rank(L[j].op)
  BY <1>1 DEF ItemsOf
<1>6. Sorted(q)
  <2> SUFFICES ASSUME NEW i \in 1 .. m + n, NEW j \in 1 .. m + n, i < j
               PROVE  Rank(q[i].op) < Rank(q[j].op)
    BY <1>1 DEF Sorted
  <2>1. CASE j <= m
    <3>1. i \in 1 .. m /\ j \in 1 .. m
      BY <2>1
    <3>2. Rank(K[i].op) < Rank(K[j].op)
      BY <3>1, <1>1 DEF Sorted
    <3> QED
      BY <3>1, <3>2, <1>2
  <2>2. CASE i <= m /\ j > m
    <3>1. i \in 1 .. m /\ j - m \in 1 .. n /\ q[j] = L[j - m] /\ q[i] = K[i]
      BY <2>2, <1>2, <1>3
    <3> QED
      BY <3>1, <1>5
  <2>3. CASE i > m
    <3>1. j > m
      BY <2>3
    <3>2. i - m < j - m
      OBVIOUS
    <3>3. /\ i - m \in 1 .. n /\ j - m \in 1 .. n
          /\ q[i] = L[i - m] /\ q[j] = L[j - m]
      BY <2>3, <3>1, <1>3
    <3>4. Rank(L[i - m].op) < Rank(L[j - m].op)
      BY <3>2, <3>3, <1>1 DEF Sorted
    <3> QED
      BY <3>3, <3>4
  <2> QED
    BY <2>1, <2>2, <2>3
<1>7. ItemsOf(q) = ItemsOf(K) \cup ItemsOf(L)
  <2>1. /\ \A x : x \in ItemsOf(q) <=> \E i \in 1 .. m + n : x = q[i]
        /\ \A x : x \in ItemsOf(K) <=> \E i \in 1 .. m : x = K[i]
        /\ \A x : x \in ItemsOf(L) <=> \E i \in 1 .. n : x = L[i]
    BY <1>1 DEF ItemsOf
  <2>2. \A i \in 1 .. m + n : q[i] \in ItemsOf(K) \/ q[i] \in ItemsOf(L)
    <3> TAKE i \in 1 .. m + n
    <3>1. CASE i <= m
      <4>1. i \in 1 .. m
        BY <3>1
      <4> QED
        BY <4>1, <2>1, <1>2
    <3>2. CASE i > m
      BY <3>2, <2>1, <1>3
    <3> QED
      BY <3>1, <3>2
  <2>3. \A x \in ItemsOf(K) : x \in ItemsOf(q)
    BY <2>1, <1>2
  <2>4. \A x \in ItemsOf(L) : x \in ItemsOf(q)
    BY <2>1, <1>4
  <2> QED
    BY <2>1, <2>2, <2>3, <2>4
<1> QED
  BY <1>1, <1>6, <1>7 DEF q

\* The list of one access.
LEMMA Single ==
    ASSUME NEW d \in Accesses
    PROVE  <<d>> \in Seq(Accesses) /\ Sorted(<<d>>) /\ ItemsOf(<<d>>) = {d}
<1>1. <<d>> \in Seq(Accesses) /\ DOMAIN <<d>> = 1 .. 1 /\ <<d>>[1] = d
  OBVIOUS
<1>2. Sorted(<<d>>)
  BY <1>1 DEF Sorted
<1>3. \A x : x \in ItemsOf(<<d>>) <=> x = d
  BY <1>1 DEF ItemsOf
<1> QED
  BY <1>1, <1>2, <1>3

\* The list without accesses.
LEMMA NoItems ==
    /\ <<>> \in Seq(Accesses) /\ Sorted(<<>>) /\ ItemsOf(<<>>) = {}
    /\ \A L \in Seq(Accesses) : <<>> \o L = L /\ L \o <<>> = L
    /\ \A L \in Seq(Accesses) : ItemsOf(L) = {} => L = <<>>
<1>1. <<>> \in Seq(Accesses) /\ Sorted(<<>>) /\ ItemsOf(<<>>) = {}
  BY DEF Sorted, ItemsOf
<1>2. \A L \in Seq(Accesses) : <<>> \o L = L /\ L \o <<>> = L
  OBVIOUS
<1>3. ASSUME NEW L \in Seq(Accesses), L # <<>> PROVE ItemsOf(L) # {}
  <2>1. 1 \in DOMAIN L
    BY <1>3
  <2> QED
    BY <2>1 DEF ItemsOf
<1> QED
  BY <1>1, <1>2, <1>3

\* An item of a list comes once, and the head before the others.
LEMMA Listed ==
    ASSUME Typed, NEW t \in Owners
    PROVE  /\ todo[t] \in Seq(Accesses) /\ Sorted(todo[t])
           /\ \A x \in Items(t) : x \in Accesses /\ Fits(t, x)
           /\ todo[t] = <<>> => Items(t) = {}
<1>1. todo[t] \in Seq(Accesses) /\ Sorted(todo[t]) /\ \A x \in Items(t) : Fits(t, x)
  BY DEF Typed
<1>2. \A x \in Items(t) : x \in Accesses
  <2> PICK n \in Nat : n = Len(todo[t])
    BY <1>1
  <2>1. DOMAIN todo[t] = 1 .. n /\ \A i \in 1 .. n : todo[t][i] \in Accesses
    BY <1>1
  <2> QED
    BY <2>1 DEF Items, ItemsOf
<1>3. todo[t] = <<>> => Items(t) = {}
  BY NoItems DEF Items
<1> QED
  BY <1>1, <1>2, <1>3

\* One access is done and another one may take its place.
LEMMA StepItems ==
    ASSUME Typed, NEW t \in Owners, todo[t] # <<>>, NEW then, NEW D,
           \/ then = <<>> /\ D = {}
           \/ \E d \in Accesses :
                /\ then = <<d>> /\ D = {d} /\ Fits(t, d)
                /\ \A y \in Items(t) : y # Head(todo[t]) => Rank(d.op) < Rank(y.op),
           todo' = [todo EXCEPT ![t] = then \o Tail(@)]
    PROVE  /\ todo' \in [Owners -> Seq(Accesses)]
           /\ \A s \in Owners : Sorted(todo'[s])
           /\ \A s \in Owners : \A x \in ItemsOf(todo'[s]) : Fits(s, x)
           /\ \A s \in Owners : s # t => ItemsOf(todo'[s]) = Items(s)
           /\ ItemsOf(todo'[t]) = (Items(t) \ {Head(todo[t])}) \cup D
<1> DEFINE L == todo[t]
           q == then \o Tail(L)
<1>1. L \in Seq(Accesses) /\ Sorted(L) /\ todo \in [Owners -> Seq(Accesses)]
  BY DEF Typed
<1>2. /\ Tail(L) \in Seq(Accesses) /\ Sorted(Tail(L))
      /\ ItemsOf(Tail(L)) = Items(t) \ {Head(L)}
  BY <1>1, HeadAndTail DEF Items
<1>3. /\ q \in Seq(Accesses) /\ Sorted(q)
      /\ ItemsOf(q) = (Items(t) \ {Head(L)}) \cup D
      /\ \A x \in D : Fits(t, x)
  <2>1. CASE then = <<>> /\ D = {}
    <3>1. q = Tail(L)
      BY <2>1, <1>2, NoItems
    <3> QED
      BY <3>1, <2>1, <1>2
  <2>2. ASSUME NEW d \in Accesses, then = <<d>> /\ D = {d} /\ Fits(t, d),
               \A y \in Items(t) : y # Head(L) => Rank(d.op) < Rank(y.op)
        PROVE  /\ q \in Seq(Accesses) /\ Sorted(q)
               /\ ItemsOf(q) = (Items(t) \ {Head(L)}) \cup D
               /\ \A x \in D : Fits(t, x)
    <3>1. \A y \in ItemsOf(Tail(L)) : Rank(d.op) < Rank(y.op)
      BY <2>2, <1>2
    <3> DEFINE r == Tail(L)
    <3>2. r \in Seq(Accesses) /\ Sorted(r) /\ \A y \in ItemsOf(r) : Rank(d.op) < Rank(y.op)
      BY <3>1, <1>2
    <3>3. q = <<d>> \o r /\ ItemsOf(r) = Items(t) \ {Head(L)}
      BY <2>2, <1>2
    <3> HIDE DEF r, q, L
    <3>4. /\ <<d>> \o r \in Seq(Accesses) /\ Sorted(<<d>> \o r)
          /\ ItemsOf(<<d>> \o r) = {d} \cup ItemsOf(r)
      <4> DEFINE K == <<d>>
      <4>1. K \in Seq(Accesses) /\ Sorted(K) /\ ItemsOf(K) = {d}
        BY Single
      <4> HIDE DEF K
      <4>2. \A y \in ItemsOf(K), z \in ItemsOf(r) : Rank(y.op) < Rank(z.op)
        BY <4>1, <3>2
      <4>3. /\ K \o r \in Seq(Accesses) /\ Sorted(K \o r)
            /\ ItemsOf(K \o r) = ItemsOf(K) \cup ItemsOf(r)
        BY <4>1, <4>2, <3>2, Joined
      <4> QED
        BY <4>1, <4>3 DEF K
    <3> QED
      BY <3>3, <3>4, <2>2
  <2> QED
    BY <2>1, <2>2
<1> PICK k : k = q
  OBVIOUS
<1>4. todo' \in [Owners -> Seq(Accesses)] /\ todo'[t] = k
      /\ \A u \in Owners : u # t => todo'[u] = todo[u]
  <2>1. todo' = [todo EXCEPT ![t] = k]
    OBVIOUS
  <2>2. k \in Seq(Accesses)
    BY <1>3
  <2> HIDE DEF L, q
  <2> QED
    BY <2>1, <2>2, <1>1
<1>5. k \in Seq(Accesses) /\ Sorted(k)
      /\ ItemsOf(k) = (Items(t) \ {Head(L)}) \cup D
      /\ \A x \in D : Fits(t, x)
  BY <1>3
<1> HIDE DEF L, q
<1>6. \A u \in Owners : Sorted(todo'[u])
  BY <1>4, <1>5 DEF Typed
<1>7. \A u \in Owners : u # t => ItemsOf(todo'[u]) = Items(u)
  BY <1>4 DEF Items
<1>8. \A u \in Owners : \A x \in ItemsOf(todo'[u]) : Fits(u, x)
  BY <1>4, <1>5, <1>7 DEF Typed
<1> QED
  BY <1>4, <1>5, <1>6, <1>7, <1>8 DEF L

\* An idle thread gets a list of its own.
LEMMA StartItems ==
    ASSUME Typed, NEW t \in Owners, NEW L \in Seq(Accesses), Sorted(L),
           \A x \in ItemsOf(L) : Fits(t, x), todo' = [todo EXCEPT ![t] = L]
    PROVE  /\ todo' \in [Owners -> Seq(Accesses)]
           /\ \A s \in Owners : Sorted(todo'[s])
           /\ \A s \in Owners : \A x \in ItemsOf(todo'[s]) : Fits(s, x)
           /\ \A s \in Owners : s # t => ItemsOf(todo'[s]) = Items(s)
           /\ ItemsOf(todo'[t]) = ItemsOf(L)
<1>1. todo' \in [Owners -> Seq(Accesses)] /\ todo'[t] = L
      /\ \A u \in Owners : u # t => todo'[u] = todo[u]
  BY DEF Typed
<1>2. \A u \in Owners : u # t => ItemsOf(todo'[u]) = Items(u)
  BY <1>1 DEF Items
<1>3. \A u \in Owners : Sorted(todo'[u])
  BY <1>1 DEF Typed
<1>4. \A u \in Owners : \A x \in ItemsOf(todo'[u]) : Fits(u, x)
  BY <1>1, <1>2 DEF Typed
<1> QED
  BY <1>1, <1>2, <1>3, <1>4

-----------------------------------------------------------------------------
(* Counting handles.                                                       *)

Holders(f, hs, o) == {h \in hs : f[h] = o}

\* What is counted is a finite set of handles, no larger than all of them.
LEMMA Finite ==
    ASSUME NEW hs \in SUBSET Handles, NEW f, NEW o
    PROVE  /\ IsFiniteSet(Holders(f, hs, o))
           /\ Counted1(f, hs, o) = Cardinality(Holders(f, hs, o))
           /\ Counted1(f, hs, o) \in Nat /\ Counted1(f, hs, o) <= Cardinality(Handles)
<1>1. IsFiniteSet(Handles)
  BY HandlesAssumption
<1>2. Holders(f, hs, o) \subseteq Handles
  BY DEF Holders
<1>3. /\ IsFiniteSet(Holders(f, hs, o))
      /\ Cardinality(Holders(f, hs, o)) <= Cardinality(Handles)
  BY <1>1, <1>2, FS_Subset
<1>4. Cardinality(Holders(f, hs, o)) \in Nat
  BY <1>3, FS_CardinalityType
<1> QED
  BY <1>3, <1>4 DEF Counted1, Holders

\* A counter is 0 when no handle of its class refers to the object.
LEMMA CountZero ==
    ASSUME NEW hs \in SUBSET Handles, NEW f, NEW o
    PROVE  Counted1(f, hs, o) = 0 <=> \A h \in hs : f[h] # o
<1>1. Cardinality(Holders(f, hs, o)) = 0 <=> Holders(f, hs, o) = {}
  BY Finite, FS_EmptySet
<1> QED
  BY <1>1, Finite DEF Holders

\* A counter is 1 when its handle h is the only one of its class.
LEMMA CountOne ==
    ASSUME NEW hs \in SUBSET Handles, NEW f, NEW o, NEW h \in hs, f[h] = o
    PROVE  Counted1(f, hs, o) = 1 <=> \A g \in hs : f[g] = o => g = h
<1> DEFINE S == Holders(f, hs, o)
<1>1. IsFiniteSet(S) /\ h \in S
  BY Finite DEF Holders
<1>2. /\ IsFiniteSet(S \ {h}) /\ Cardinality(S \ {h}) = Cardinality(S) - 1
  BY <1>1, FS_RemoveElement
<1>3. Cardinality(S) \in Nat
  BY <1>1, FS_CardinalityType
<1>4. Cardinality(S \ {h}) = 0 <=> S \ {h} = {}
  BY <1>2, FS_EmptySet
<1>5. S \ {h} = {} <=> \A g \in hs : f[g] = o => g = h
  BY DEF Holders
<1> QED
  BY <1>2, <1>3, <1>4, <1>5, Finite

\* A counter stays when no handle of its class turns to or from the object.
LEMMA CountSame ==
    ASSUME NEW hs \in SUBSET Handles, NEW f, NEW e, NEW o,
           \A h \in hs : f[h] = o <=> e[h] = o
    PROVE  Counted1(e, hs, o) = Counted1(f, hs, o)
<1>1. {h \in hs : e[h] = o} = {h \in hs : f[h] = o}
  OBVIOUS
<1> QED
  BY <1>1 DEF Counted1

\* From f to e, h is the one handle of hs that turns to o.
Gained(f, e, hs, h, o) ==
    /\ h \in hs /\ f[h] # o /\ e[h] = o
    /\ \A g \in hs : g # h => (e[g] = o <=> f[g] = o)

\* One handle more, or one less.
LEMMA CountMore ==
    ASSUME NEW hs \in SUBSET Handles, NEW f, NEW e, NEW o, NEW h, Gained(f, e, hs, h, o)
    PROVE  /\ Counted1(e, hs, o) = Counted1(f, hs, o) + 1
           /\ Counted1(f, hs, o) = Counted1(e, hs, o) - 1
           /\ Counted1(f, hs, o) < Cardinality(Handles)
<1> DEFINE S == Holders(f, hs, o)
           T == Holders(e, hs, o)
<1>1. T = S \cup {h} /\ h \notin S
  BY DEF Holders, Gained
<1>2. IsFiniteSet(S) /\ Cardinality(S) \in Nat /\ Cardinality(T) \in Nat
      /\ Cardinality(T) <= Cardinality(Handles)
  BY Finite
<1>3. Cardinality(T) = Cardinality(S) + 1
  BY <1>1, <1>2, FS_AddElement
<1>4. Cardinality(Handles) \in Nat
  BY HandlesAssumption, FS_CardinalityType
<1> HIDE DEF S, T
<1>5. Counted1(f, hs, o) = Cardinality(S) /\ Counted1(e, hs, o) = Cardinality(T)
  BY Finite DEF S, T
<1> QED
  BY <1>2, <1>3, <1>4, <1>5

\* Two handles of the same class have exchanged what they hold.
LEMMA CountSwap ==
    ASSUME NEW hs \in SUBSET Handles, NEW f, NEW e, NEW h \in Handles, NEW g \in Handles,
           NEW o, h \in hs <=> g \in hs, e[h] = f[g], e[g] = f[h],
           \A k \in hs : k # h /\ k # g => e[k] = f[k]
    PROVE  Counted1(e, hs, o) = Counted1(f, hs, o)
<1>1. CASE h \in hs /\ f[h] = o /\ f[g] # o
  <2> DEFINE S == Holders(f, hs, o) \ {h}
  <2>1. g # h /\ g \in hs
    BY <1>1
  <2>2. /\ Holders(f, hs, o) = S \cup {h} /\ Holders(e, hs, o) = S \cup {g}
        /\ h \notin S /\ g \notin S
    BY <1>1, <2>1 DEF Holders
  <2>3. IsFiniteSet(S)
    BY Finite, FS_Subset
  <2>4. /\ Cardinality(S \cup {h}) = Cardinality(S) + 1
        /\ Cardinality(S \cup {g}) = Cardinality(S) + 1
    BY <2>2, <2>3, FS_AddElement
  <2>5. /\ Counted1(f, hs, o) = Cardinality(Holders(f, hs, o))
        /\ Counted1(e, hs, o) = Cardinality(Holders(e, hs, o))
    BY Finite
  <2> QED
    BY <2>2, <2>4, <2>5
<1>2. CASE h \in hs /\ f[g] = o /\ f[h] # o
  <2> DEFINE S == Holders(f, hs, o) \ {g}
  <2>1. g # h /\ g \in hs
    BY <1>2
  <2>2. /\ Holders(f, hs, o) = S \cup {g} /\ Holders(e, hs, o) = S \cup {h}
        /\ h \notin S /\ g \notin S
    BY <1>2, <2>1 DEF Holders
  <2>3. IsFiniteSet(S)
    BY Finite, FS_Subset
  <2>4. /\ Cardinality(S \cup {h}) = Cardinality(S) + 1
        /\ Cardinality(S \cup {g}) = Cardinality(S) + 1
    BY <2>2, <2>3, FS_AddElement
  <2>5. /\ Counted1(f, hs, o) = Cardinality(Holders(f, hs, o))
        /\ Counted1(e, hs, o) = Cardinality(Holders(e, hs, o))
    BY Finite
  <2> QED
    BY <2>2, <2>4, <2>5
<1>3. CASE h \notin hs \/ (f[h] = o <=> f[g] = o)
  <2>1. \A k \in hs : f[k] = o <=> e[k] = o
    BY <1>3
  <2> QED
    BY <2>1, CountSame
<1> QED
  BY <1>1, <1>2, <1>3

\* A counter below the number of handles does not wrap.
LEMMA NoWrap ==
    /\ \A n \in Nat : n < Cardinality(Handles) => Add(n, 1) = n + 1
    /\ \A n \in Nat : n > 0 /\ n <= Cardinality(Handles) => Add(n, -1) = n - 1
<1>1. Cardinality(Handles) \in Nat
  BY HandlesAssumption, FS_CardinalityType
<1> PICK c \in Nat : c = Cardinality(Handles)
  BY <1>1
<1> PICK m \in Nat : m = CounterMod
  BY CounterAssumption
<1>2. m > c + 1
  BY CounterAssumption
<1>3. ASSUME NEW n \in Nat, n < c PROVE (n + 1 + m) % m = n + 1
  BY <1>2, <1>3
<1>4. ASSUME NEW n \in Nat, n > 0, n <= c PROVE (n + -1 + m) % m = n - 1
  BY <1>2, <1>4
<1> QED
  BY <1>3, <1>4 DEF Add

-----------------------------------------------------------------------------
(* What the threads know of the objects.                                   *)

\* The order of the accesses of an operation, by their kinds.
LEMMA RankOps ==
    /\ \A op \in Ops : Rank(op) > 2 => op \in AcqOps \/ op = "clear"
    /\ \A op \in Ops : Rank(op) > 3 => op = "clear"
    /\ \A op \in Ops : op # "detach" => Rank(op) >= 2
    /\ \A op \in Ops : op \in AcqOps => Rank(op) = 3
    /\ \A op \in Ops : Rank(op) >= 1 /\ Rank(op) <= 4
    /\ \A op \in Ops : op \in RelOps \cup Decisions \cup {"lock"} => Rank(op) <= 2
BY DEF Rank, Ops, HandleOps, RelOps, AcqOps, Decisions

\* An access is of one of five kinds; all but the decisions are a handle's of the thread.
LEMMA Kinds ==
    ASSUME Typed, NEW t \in Owners, NEW x \in Items(t)
    PROVE  /\ x.op \in Ops /\ x.h \in Handles \cup {Null}
           /\ x.op # "clear" => x.obj \in Objs
           /\ x.op = "clear" => x.obj \notin Objs
           /\ x.op \in HandleOps => x.h \in Handles /\ Owner[x.h] = t
           /\ \/ x.op \in RelOps \/ x.op \in AcqOps \/ x.op \in Decisions
              \/ x.op = "lock" \/ x.op = "clear"
<1>1. x \in Accesses /\ Fits(t, x)
  BY Listed
<1>2. x.op \in Ops /\ x.h \in Handles \cup {Null}
  BY <1>1 DEF Accesses
<1>3. \/ x.op \in RelOps \/ x.op \in AcqOps \/ x.op \in Decisions
      \/ x.op = "lock" \/ x.op = "clear"
  BY <1>2 DEF Ops, HandleOps
<1> QED
  BY <1>1, <1>2, <1>3 DEF Fits

\* A thread knows the object of an access that it still has to do, so it is alive.
LEMMA Known ==
    ASSUME Typed, NEW held, HInv(held), NEW t \in Owners, NEW x \in Items(t), x.op # "clear"
    PROVE  x.obj \in Objs /\ Knows(held, t, x.obj) /\ status[x.obj] = "alive"
<1>1. x.obj \in Objs
  BY Kinds
<1>2. Knows(held, t, x.obj)
  BY DEF Knows
<1> QED
  BY <1>1, <1>2 DEF HInv, Living

\* A handle whose pointer is not counted is about to have it counted.
LEMMA NotCounted ==
    ASSUME Typed, NEW held, HInv(held), NEW g \in Handles, ptr[g] # Null, held[g] # ptr[g]
    PROVE  \E y \in Items(Owner[g]) : y.op \in AcqOps /\ y.h = g /\ y.obj = ptr[g]
<1> DEFINE t == Owner[g]
<1>1. t \in Owners
  BY HandlesAssumption
<1>2. ~Quiet(g)
  BY DEF HInv, Counting
<1> PICK z \in Items(t) : z.op \in RelOps \cup AcqOps /\ z.h = g
  BY <1>2 DEF Quiet
<1>3. Item(held, t, z)
  BY <1>1 DEF HInv, Scheduled
<1> PICK y \in Items(t) : y.op \in AcqOps /\ y.h = g
  BY <1>3 DEF Item, Releasing
<1>4. Item(held, t, y)
  BY <1>1 DEF HInv, Scheduled
<1>5. y.obj = ptr[g]
  BY <1>4 DEF Item, Acquiring
<1> QED
  BY <1>5

\* A thread that knows of an object has a handle for it, or is alone to know.
LEMMA MayUse ==
    ASSUME Typed, NEW held, HInv(held), NEW t \in Owners, NEW o \in Objs, Knows(held, t, o)
    PROVE  (\E g \in Handles : Owner[g] = t /\ o \in Use[g]) \/ Alone(held, t, o)
<1> USE HandlesAssumption
<1>1. ASSUME NEW g \in Handles, Owner[g] = t, ptr[g] = o \/ held[g] = o
      PROVE  o \in Use[g]
  BY <1>1 DEF Typed, HInv, Counting
<1>2. ASSUME NEW y \in Items(t), y.obj = o
      PROVE  (\E g \in Handles : Owner[g] = t /\ o \in Use[g]) \/ Alone(held, t, o)
  <2>1. Item(held, t, y)
    BY DEF HInv, Scheduled
  <2>2. CASE y.op \in RelOps
    <3>1. held[y.h] = o
      BY <1>2, <2>1, <2>2 DEF Item, Releasing
    <3>2. y.h \in Handles /\ Owner[y.h] = t
      BY <2>2, Kinds DEF HandleOps
    <3> QED
      BY <3>1, <3>2, <1>1
  <2>3. CASE y.op \in AcqOps
    <3>1. ptr[y.h] = o
      BY <1>2, <2>1, <2>3 DEF Item, Acquiring
    <3>2. y.h \in Handles /\ Owner[y.h] = t
      BY <2>3, Kinds DEF HandleOps
    <3> QED
      BY <3>1, <3>2, <1>1
  <2>4. CASE y.op = "lock"
    <3>1. o \in Use[y.h]
      BY <1>2, <2>1, <2>4 DEF Item, Locking
    <3>2. y.h \in Handles /\ Owner[y.h] = t
      BY <2>4, Kinds DEF HandleOps
    <3> QED
      BY <3>1, <3>2
  <2>5. CASE y.op \in Decisions
    <3>1. y.op = "delete" => Alone(held, t, o)
      BY <1>2, <2>1 DEF Item, Deciding
    <3>2. y.op # "delete" => Own(t, o)
      BY <1>2, <2>1, <2>5 DEF Item, Deciding, Decisions
    <3>3. Own(t, o) => \E g \in Handles : Owner[g] = t /\ o \in Use[g]
      BY DEF Own, HasWeak, Handles
    <3> QED
      BY <3>1, <3>2, <3>3
  <2>6. y.op # "clear"
    BY <1>2, Kinds
  <2> QED
    BY <2>2, <2>3, <2>4, <2>5, <2>6, Kinds
<1> QED
  BY <1>1, <1>2 DEF Knows

\* An object that one thread's handles alone may refer to is known to it alone.
LEMMA Private ==
    ASSUME Typed, NEW held, HInv(held), NEW t \in Owners, NEW o \in Objs,
           Own(t, o), Knows(held, t, o)
    PROVE  Alone(held, t, o)
<1> SUFFICES ASSUME NEW s \in Owners, s # t, Knows(held, s, o) PROVE FALSE
  BY DEF Alone
<1>1. CASE \E g \in Handles : Owner[g] = s /\ o \in Use[g]
  BY <1>1 DEF Own
<1>2. CASE Alone(held, s, o)
  BY <1>2 DEF Alone
<1> QED
  BY <1>1, <1>2, MayUse

\* Without weak handles, threads that know of the same object hold it.
LEMMA Shares ==
    ASSUME Typed, NEW held, HInv(held), NEW t \in Owners, NEW o \in Objs, Knows(held, t, o),
           ~HasWeak(o), NEW s \in Owners, s # t, Knows(held, s, o)
    PROVE  \E k \in Strong : Owner[k] = t /\ held[k] = o
<1> USE HandlesAssumption
<1>1. ASSUME NEW g \in Handles, held[g] = o PROVE g \in Strong
  <2>1. o \in Use[g]
    BY <1>1 DEF HInv, Counting
  <2> QED
    BY <2>1 DEF HasWeak, Handles, Strong
<1>2. ASSUME NEW y \in Items(t), y.obj = o
      PROVE  \E k \in Handles : Owner[k] = t /\ held[k] = o
  <2>1. Item(held, t, y)
    BY DEF HInv, Scheduled
  <2>2. CASE y.op \in RelOps
    <3>1. held[y.h] = o
      BY <1>2, <2>1, <2>2 DEF Item, Releasing
    <3>2. y.h \in Handles /\ Owner[y.h] = t
      BY <2>2, Kinds DEF HandleOps
    <3> QED
      BY <3>1, <3>2
  <2>3. CASE y.op \in AcqOps
    <3>1. CASE Source(held, t, y)
      BY <3>1, <1>2 DEF Source
    <3>2. ~Sole(held, t, y)
      BY <1>2 DEF Sole, Alone
    <3> QED
      BY <3>1, <3>2, <2>1, <2>3 DEF Item, Granted
  <2>4. CASE y.op = "lock"
    <3>1. \E w \in Weaks : held[w] = o
      BY <1>2, <2>1, <2>4 DEF Item, Locking
    <3> QED
      BY <3>1, <1>1 DEF Handles, Strong
  <2>5. CASE y.op \in Decisions
    <3>1. y.op # "delete"
      BY <1>2, <2>1 DEF Item, Deciding, Alone
    <3> QED
      BY <3>1, <1>2, <2>1, <2>5 DEF Item, Deciding, Decisions, Own
  <2>6. y.op # "clear"
    BY <1>2, Kinds
  <2> QED
    BY <2>2, <2>3, <2>4, <2>5, <2>6, Kinds
<1>3. ASSUME NEW g \in Handles, Owner[g] = t, ptr[g] = o, held[g] # o
      PROVE  \E y \in Items(t) : y.obj = o
  BY <1>3, NotCounted
<1>4. \E k \in Handles : Owner[k] = t /\ held[k] = o
  BY <1>2, <1>3 DEF Knows
<1> QED
  BY <1>1, <1>4

\* Nothing refers to an object when its last handle lets go of it.
LEMMA NobodyElse ==
    ASSUME Typed, NEW held, HInv(held), NEW t \in Owners, NEW x \in Items(t),
           \A y \in Items(t) : y # x => Rank(x.op) < Rank(y.op),
           x.op \in {"release", "weak_count", "count"},
           \A h \in Handles : held[h] = x.obj => x.op = "release" /\ h = x.h,
           x.op = "release" => ~HasWeak(x.obj),
           x.op # "release" => Own(t, x.obj)
    PROVE  /\ \A h \in Handles : Owner[h] = t => ptr[h] # x.obj
           /\ \A y \in Items(t) : y.obj = x.obj => y = x
           /\ Alone(held, t, x.obj)
<1> DEFINE o == x.obj
<1> USE HandlesAssumption
<1>1. o \in Objs /\ Knows(held, t, o) /\ Item(held, t, x)
  BY Known DEF HInv, Scheduled
<1>2. ASSUME NEW y \in Items(t), y # x
      PROVE  y.op \in AcqOps \/ y.op = "clear"
  <2>1. Rank(y.op) > 2
    BY <1>2, RankType, RankOps, Kinds
  <2> QED
    BY <2>1, RankOps, Kinds
<1>3. ASSUME NEW y \in Items(t), y.obj = o, y # x
      PROVE  FALSE
  <2>1. y.op \in AcqOps
    BY <1>1, <1>2, <1>3, Kinds
  <2>2. ~Sole(held, t, y)
    BY <1>3 DEF Sole
  <2>3. ~Source(held, t, y)
    <3> SUFFICES ASSUME NEW g \in Handles, held[g] = o, \A z \in Items(t) : z.op \in RelOps => z.h # g
                 PROVE  FALSE
      BY <1>3 DEF Source
    <3>1. x.op = "release" /\ g = x.h
      OBVIOUS
    <3> QED
      BY <3>1 DEF RelOps
  <2> QED
    BY <2>1, <2>2, <2>3 DEF HInv, Scheduled, Item, Granted
<1>4. ASSUME NEW h \in Handles, Owner[h] = t, ptr[h] = o
      PROVE  FALSE
  <2>1. held[h] = o
    <3> SUFFICES ASSUME held[h] # o PROVE FALSE
      OBVIOUS
    <3> PICK y \in Items(t) : y.op \in AcqOps /\ y.obj = o
      BY <1>1, <1>4, NotCounted
    <3>1. y = x
      BY <1>3
    <3> QED
      BY <3>1 DEF AcqOps
  <2>2. x.op = "release" /\ h = x.h
    BY <2>1
  <2> PICK y \in Items(t) : y.op \in AcqOps /\ y.h = x.h
    BY <1>1, <1>4, <2>2 DEF Item, Releasing, RelOps
  <2>3. y.obj = o
    BY <1>4, <2>2 DEF HInv, Scheduled, Item, Acquiring
  <2>4. y = x
    BY <2>3, <1>3
  <2> QED
    BY <2>4, <2>2 DEF AcqOps
<1>5. Alone(held, t, o)
  <2>1. CASE x.op # "release"
    BY <2>1, <1>1, Private
  <2>2. CASE x.op = "release"
    <3> SUFFICES ASSUME NEW s \in Owners, s # t, Knows(held, s, o) PROVE FALSE
      BY DEF Alone
    <3>1. \E k \in Strong : Owner[k] = s /\ held[k] = o
      BY <1>1, <2>2, Shares
    <3>2. Owner[x.h] = t
      BY <2>2, Kinds DEF HandleOps, RelOps
    <3> QED
      BY <3>1, <3>2 DEF Strong, Handles
  <2> QED
    BY <2>1, <2>2
<1> QED
  BY <1>3, <1>4, <1>5

-----------------------------------------------------------------------------
(* What a step of one thread leaves to the others.                         *)

Undisturbed(held, e, t) ==
    /\ \A s \in Owners : s # t => Scheduled(e, s)'
    /\ \A s \in Owners, o \in Objs : s # t => (Knows(e, s, o)' <=> Knows(held, s, o))
    /\ \A o \in Objs : Alone(e, t, o)' <=> Alone(held, t, o)

\* What the other threads still have to do stays right when thread t changes its own
\* handles and learns of no living object.
LEMMA Others ==
    ASSUME Typed, NEW held, HInv(held), NEW e, NEW t \in Owners,
           \A h \in Handles : e[h] \in Use[h] \cup {Null},
           \A h \in Handles : Owner[h] # t => ptr'[h] = ptr[h] /\ e[h] = held[h],
           \A s \in Owners : s # t => ItemsOf(todo'[s]) = Items(s),
           \A o \in Objs : Knows(e, t, o)' => Knows(held, t, o) \/ status[o] = "none"
    PROVE  Undisturbed(held, e, t)
<1> USE HandlesAssumption
<1>1. \A s \in Owners : s # t => Items(s)' = Items(s)
  BY DEF Items
<1>2. ASSUME NEW s \in Owners, s # t, NEW o \in Objs
      PROVE  Knows(e, s, o)' <=> Knows(held, s, o)
  <2>1. Items(s)' = Items(s)
    BY <1>1, <1>2
  <2> QED
    BY <2>1, <1>2 DEF Knows
<1>3. ASSUME NEW s \in Owners, s # t, NEW o \in Objs, Knows(held, s, o), Alone(held, s, o)
      PROVE  Alone(e, s, o)'
  <2>1. status[o] = "alive"
    BY <1>3 DEF HInv, Living
  <2>2. ~Knows(held, t, o)
    BY <1>3 DEF Alone
  <2>3. ~Knows(e, t, o)'
    BY <2>1, <2>2
  <2> QED
    BY <2>3, <1>2, <1>3 DEF Alone
<1>4. ASSUME NEW s \in Owners, s # t, NEW x \in Items(s)
      PROVE  Item(e, s, x)'
  <2>1. Items(s)' = Items(s)
    BY <1>1, <1>4
  <2>2. Item(held, s, x)
    BY DEF HInv, Scheduled
  <2>3. x.op \in HandleOps => /\ x.h \in Handles /\ Owner[x.h] = s
                              /\ ptr'[x.h] = ptr[x.h] /\ e[x.h] = held[x.h]
    BY <1>4, Kinds
  <2>4. Releasing(e, s, x)'
    BY <2>1, <2>2, <2>3 DEF Item, Releasing, HandleOps
  <2>5. Detaching(s, x)'
    BY <2>1, <2>2, <2>3 DEF Item, Detaching, HandleOps, RelOps
  <2>6. Acquiring(e, s, x)'
    BY <2>1, <2>2, <2>3 DEF Item, Acquiring, HandleOps
  <2>7. Locking(e, s, x)'
    <3> SUFFICES ASSUME x.op = "lock" PROVE Locking(e, s, x)'
      BY DEF Locking
    <3>1. /\ x.obj \in Use[x.h] /\ ptr[x.h] = Null
          /\ \E w \in Weaks : Owner[w] = s /\ held[w] = x.obj
          /\ \A y \in Items(s) : y = x
      BY <2>2 DEF Item, Locking
    <3>2. \E w \in Weaks : Owner[w] = s /\ e[w] = x.obj
      BY <3>1, <1>4 DEF Handles
    <3> QED
      BY <2>1, <2>3, <3>1, <3>2 DEF Locking, HandleOps
  <2>8. Clearing(s, x)'
    BY <2>1, <2>2, <2>3 DEF Item, Clearing, HandleOps
  <2>9. Granted(e, s, x)'
    <3> SUFFICES ASSUME x.op \in AcqOps PROVE Source(e, s, x)' \/ Sole(e, s, x)'
      BY DEF Granted
    <3>0. x.op \in HandleOps /\ x.op # "clear"
      BY DEF HandleOps, AcqOps
    <3>1. CASE Source(held, s, x)
      <4> PICK g \in Handles :
              /\ g # x.h /\ Owner[g] = s /\ held[g] = x.obj
              /\ \A y \in Items(s) : y.op \in RelOps => y.h # g
              /\ x.h \in RCs => g \in RCs
              /\ x.h \notin Uniques
        BY <3>1 DEF Source
      <4>1. e[g] = x.obj
        BY <1>4
      <4> QED
        BY <4>1, <2>1 DEF Source
    <3>2. CASE Sole(held, s, x)
      <4>1. x.obj \in Objs /\ Knows(held, s, x.obj)
        BY <3>0, Known
      <4>2. Alone(e, s, x.obj)'
        BY <4>1, <3>2, <1>3, <1>4 DEF Sole
      <4>3. /\ x.h \in Strong /\ e[x.h] # x.obj
            /\ \A y \in Items(s)' : y.obj = x.obj => y = x \/ y.op = "detach"
        BY <3>0, <3>2, <2>1, <2>3 DEF Sole
      <4>4. \A g \in Handles : Owner[g] = s /\ g # x.h =>
               /\ ptr'[g] # x.obj
               /\ e[g] = x.obj => \E y \in Items(s)' : y.op = "detach" /\ y.h = g
        BY <3>2, <2>1, <1>4 DEF Sole
      <4> QED
        BY <4>2, <4>3, <4>4 DEF Sole
    <3> QED
      BY <3>1, <3>2, <2>2 DEF Item, Granted
  <2>10. Deciding(e, s, x)'
    <3> DEFINE o == x.obj
    <3>1. ASSUME Own(s, o), NEW h \in Handles, e[h] = o, o \in Objs PROVE held[h] = o
      <4>1. Owner[h] = s
        BY <3>1 DEF Own
      <4> QED
        BY <4>1, <3>1, <1>4
    <3>2. x.op # "clear" => o \in Objs /\ Knows(held, s, o)
      BY Known
    <3>3. ASSUME x.op = "weak_count" PROVE Own(s, o) /\ \A h \in Strong : e[h] # o
      BY <3>1, <3>2, <3>3, <2>2 DEF Item, Deciding, Strong, Handles
    <3>4. ASSUME x.op = "count" PROVE Own(s, o) /\ \A h \in Weaks : e[h] # o
      BY <3>1, <3>2, <3>4, <2>2 DEF Item, Deciding, Handles
    <3>5. ASSUME x.op = "delete"
          PROVE  /\ \A h \in Handles : Owner[h] = s => e[h] # o /\ ptr'[h] # o
                 /\ \A y \in Items(s)' : y.obj = o => y = x
                 /\ Alone(e, s, o)'
      <4>1. Alone(held, s, o)
        BY <3>5, <2>2 DEF Item, Deciding
      <4>2. Alone(e, s, o)'
        BY <4>1, <3>2, <3>5, <1>3, <1>4
      <4> QED
        BY <4>2, <3>5, <2>1, <2>2, <1>4 DEF Item, Deciding
    <3> QED
      BY <3>3, <3>4, <3>5 DEF Deciding, Own
  <2> QED
    BY <2>4, <2>5, <2>6, <2>7, <2>8, <2>9, <2>10 DEF Item
<1>5. \A s \in Owners : s # t => Scheduled(e, s)'
  BY <1>1, <1>4 DEF Scheduled
<1>6. \A o \in Objs : Alone(e, t, o)' <=> Alone(held, t, o)
  BY <1>2 DEF Alone
<1> QED
  BY <1>2, <1>5, <1>6 DEF Undisturbed

-----------------------------------------------------------------------------
(* The accesses.                                                           *)

\* The first access of a list that ranks below y is done before y.
First(t, x) == x \in Items(t) /\ \A y \in Items(t) : y # x => Rank(x.op) < Rank(y.op)

\* Thread t has done x, and D takes its place.
Done(t, x, D) ==
    /\ First(t, x)
    /\ \A s \in Owners : s # t => Items(s)' = Items(s)
    /\ Items(t)' = (Items(t) \ {x}) \cup D

Counts(e) == /\ \A o \in Objs : counter[o] = Counted1(e, Strong, o)
             /\ \A o \in Objs : weak_counter[o] = Counted1(e, Weaks, o)

\* What is decided about the object of x once the handles hold e.
Settled(x, D, e) ==
    \/ D = {} /\ (x.op = "detach" \/ \E h \in Handles : e[h] = x.obj)
    \/ \E d \in Accesses :
          /\ D = {d} /\ d.obj = x.obj
          /\ \/ /\ x.op = "release" /\ d.op = (IF HasWeak(x.obj) THEN "weak_count" ELSE "delete")
                /\ \A h \in Strong : e[h] # x.obj
             \/ /\ x.op = "weak_release" /\ d.op = "count"
                /\ \A h \in Weaks : e[h] # x.obj

\* A handle lets go of its object; when it was the last of its kind, what is
\* decided about the object takes the place of the access.
LEMMA LetsGo ==
    ASSUME Confined, Typed, NEW held \in Held, HInv(held), NEW t \in Owners, NEW x, NEW D,
           Done(t, x, D), x.op \in RelOps, ptr' = ptr, status' = status,
           NEW e, e[x.h] = Null, \A g \in Handles : g # x.h => e[g] = held[g], Counts(e)',
           Settled(x, D, e)
    PROVE  HInv(e)'
<1> DEFINE o == x.obj
<1> USE HandlesAssumption DEF Settled
<1>1. /\ x \in Items(t) /\ x.h \in Handles /\ Owner[x.h] = t /\ held[x.h] = o
      /\ o \in Objs /\ status[o] = "alive" /\ Knows(held, t, o) /\ Item(held, t, x)
  <2>1. x \in Items(t)
    BY DEF Done, First
  <2>2. x.h \in Handles /\ Owner[x.h] = t
    BY <2>1, Kinds DEF HandleOps
  <2>3. Item(held, t, x)
    BY <2>1 DEF HInv, Scheduled
  <2>4. held[x.h] = o
    BY <2>3 DEF Item, Releasing
  <2>5. o \in Objs /\ status[o] = "alive" /\ Knows(held, t, o)
    BY <2>1, Known DEF RelOps
  <2> QED
    BY <2>1, <2>2, <2>3, <2>4, <2>5
<1>2. e[x.h] = Null /\ \A g \in Handles : g # x.h => e[g] = held[g]
  OBVIOUS
<1>3. \A g \in Handles : e[g] \in Use[g] \cup {Null}
  BY <1>2 DEF HInv, Counting
<1>4. \A d \in D : d.obj = o /\ d.op \in Decisions /\ x.op # "detach"
  BY DEF Decisions
<1>5. \A y \in Items(t)' : (y \in Items(t) /\ y # x) \/ y \in D
  BY DEF Done
<1>6. \A y \in Items(t) : y # x => y \in Items(t)' /\ Rank(x.op) < Rank(y.op)
  BY DEF Done, First
<1>7. \A y \in Items(t)' : y.op \in HandleOps => y \in Items(t) /\ y # x
  BY <1>4, <1>5 DEF HandleOps, Decisions, RelOps, AcqOps
<1>8. ASSUME NEW p \in Objs, Knows(e, t, p)'
      PROVE  Knows(held, t, p)
  BY <1>1, <1>2, <1>4, <1>5, <1>8 DEF Knows
<1>9. /\ \A s \in Owners : s # t => Scheduled(e, s)'
      /\ \A s \in Owners, p \in Objs : s # t => (Knows(e, s, p)' <=> Knows(held, s, p))
      /\ \A p \in Objs : Alone(e, t, p)' <=> Alone(held, t, p)
  <2>1. \A s \in Owners : s # t => ItemsOf(todo'[s]) = Items(s)
    BY DEF Done, Items
  <2>2. \A h \in Handles : Owner[h] # t => ptr'[h] = ptr[h] /\ e[h] = held[h]
    BY <1>1, <1>2
  <2>3. \A p \in Objs : Knows(e, t, p)' => Knows(held, t, p) \/ status[p] = "none"
    BY <1>8
  <2>4. Undisturbed(held, e, t)
    BY <2>1, <2>2, <2>3, <1>3, Others
  <2> QED
    BY <2>4 DEF Undisturbed
<1>10. Counting(e)'
  <2>1. ASSUME NEW h \in Handles, Quiet(h)'
        PROVE  e[h] = ptr'[h]
    <3>1. CASE h = x.h
      <4>1. \A y \in Items(t)' : y.op \in AcqOps => y.h # h
        BY <2>1, <3>1, <1>1 DEF Quiet
      <4>2. \A y \in Items(t) : y.op \in AcqOps => y # x
        BY DEF AcqOps, RelOps
      <4>3. ptr[h] = Null
        BY <4>1, <4>2, <3>1, <1>1, <1>6 DEF Item, Releasing
      <4> QED
        BY <4>3, <3>1, <1>2
    <3>2. CASE h # x.h
      <4>1. Quiet(h)
        BY <2>1, <3>2, <1>6 DEF Quiet, Done
      <4> QED
        BY <4>1, <3>2, <1>2 DEF HInv, Counting
    <3> QED
      BY <3>1, <3>2
  <2>2. \A u \in Uniques, g \in Strong : g # u /\ e[u] # Null => e[g] # e[u]
    BY <1>2 DEF HInv, Counting, Strong, Handles
  <2> QED
    BY <2>1, <2>2, <1>3 DEF Counting, Counts
<1>11. ASSUME NEW y \in Items(t), y # x
       PROVE  Item(e, t, y)'
  <2>1. Item(held, t, y)
    BY DEF HInv, Scheduled
  <2>2. y \in Items(t)' /\ Rank(x.op) < Rank(y.op) /\ y.op \in Ops
    BY <1>6, <1>11, Kinds
  <2>3. y.op # "lock"
    BY <2>1, <1>1, <1>11 DEF Item, Locking
  <2>4. y.op # "detach"
    BY <2>2 DEF Rank, RelOps, AcqOps
  <2>5. y.op \in RelOps => y.h # x.h /\ x.op = "detach"
    <3> SUFFICES ASSUME y.op \in RelOps PROVE y.h # x.h /\ x.op = "detach"
      OBVIOUS
    <3>1. x.op = "detach"
      BY <2>2, <2>4 DEF Rank, RelOps, AcqOps
    <3> QED
      BY <3>1, <1>1, <1>11 DEF Item, Detaching, HandleOps
  <2>6. Releasing(e, t, y)'
    <3> SUFFICES ASSUME y.op \in RelOps
                 PROVE  /\ e[y.h] = y.obj
                        /\ ptr[y.h] = Null \/ \E z \in Items(t)' : z.op \in AcqOps /\ z.h = y.h
      BY DEF Releasing
    <3>1. e[y.h] = y.obj
      BY <2>1, <2>5, <1>2, Kinds DEF Item, Releasing, HandleOps
    <3>2. \A z \in Items(t) : z.op \in AcqOps => z \in Items(t)'
      BY <1>6 DEF AcqOps, RelOps
    <3> QED
      BY <3>1, <3>2, <2>1 DEF Item, Releasing
  <2>7. Detaching(t, y)' /\ Locking(e, t, y)'
    BY <2>3, <2>4 DEF Detaching, Locking
  <2>8. Acquiring(e, t, y)'
    <3> SUFFICES ASSUME y.op \in AcqOps
                 PROVE  /\ ptr[y.h] = y.obj
                        /\ e[y.h] = Null \/ \E z \in Items(t)' : z.op \in RelOps /\ z.h = y.h
      BY DEF Acquiring
    <3>1. y.h \in Handles
      BY Kinds DEF HandleOps
    <3> QED
      BY <3>1, <2>1, <1>2, <1>6 DEF Item, Acquiring
  <2>9. Clearing(t, y)'
    <3> SUFFICES ASSUME y.op = "clear"
                 PROVE  /\ ptr[y.h] # Null
                        /\ \A z \in Items(t)' : z # y /\ z.op \in HandleOps => z.h # y.h
      BY DEF Clearing
    <3> QED
      BY <2>1, <1>7 DEF Item, Clearing
  <2>10. Granted(e, t, y)'
    <3> SUFFICES ASSUME y.op \in AcqOps PROVE Source(e, t, y)' \/ Sole(e, t, y)'
      BY DEF Granted
    <3>0. y.h \in Handles /\ Owner[y.h] = t /\ y.obj \in Objs
      BY Kinds DEF HandleOps, AcqOps
    <3>1. CASE Source(held, t, y)
      <4> PICK g \in Handles :
              /\ g # y.h /\ Owner[g] = t /\ held[g] = y.obj
              /\ \A z \in Items(t) : z.op \in RelOps => z.h # g
              /\ y.h \in RCs => g \in RCs
              /\ y.h \notin Uniques
        BY <3>1 DEF Source
      <4>1. e[g] = y.obj
        BY <1>1, <1>2
      <4>2. \A z \in Items(t)' : z.op \in RelOps => z.h # g
        BY <1>7 DEF HandleOps
      <4> QED
        BY <4>1, <4>2 DEF Source
    <3>2. CASE Sole(held, t, y)
      <4>1. Alone(e, t, y.obj)'
        BY <3>0, <3>2, <1>9 DEF Sole
      <4>2. y.h \in Strong /\ e[y.h] # y.obj
        BY <3>0, <3>2, <1>2 DEF Sole
      <4>3. \A z \in Items(t)' : z.obj = y.obj => z = y \/ z.op = "detach"
        BY <3>2, <1>1, <1>4, <1>5, <1>11 DEF Sole
      <4>4. ASSUME NEW g \in Handles, Owner[g] = t, g # y.h
            PROVE  /\ ptr[g] # y.obj
                   /\ e[g] = y.obj => \E z \in Items(t)' : z.op = "detach" /\ z.h = g
        <5>1. ptr[g] # y.obj
          BY <3>2, <4>4 DEF Sole
        <5>2. ASSUME e[g] = y.obj PROVE \E z \in Items(t)' : z.op = "detach" /\ z.h = g
          <6>1. g # x.h /\ held[g] = y.obj
            BY <5>2, <3>0, <1>2
          <6> QED
            BY <6>1, <3>2, <4>4, <1>6 DEF Sole
        <5> QED
          BY <5>1, <5>2
      <4> QED
        BY <4>1, <4>2, <4>3, <4>4 DEF Sole
    <3> QED
      BY <3>1, <3>2, <2>1 DEF Item, Granted
  <2>11. Deciding(e, t, y)'
    <3>1. \A h \in Handles : \A p \in Objs : held[h] # p => e[h] # p
      BY <1>2
    <3>2. y.op # "clear" => y.obj \in Objs
      BY Kinds
    <3>3. y.op = "weak_count" => Own(t, y.obj) /\ \A h \in Strong : e[h] # y.obj
      BY <3>1, <3>2, <2>1 DEF Item, Deciding, Strong, Handles
    <3>4. y.op = "count" => Own(t, y.obj) /\ \A h \in Weaks : e[h] # y.obj
      BY <3>1, <3>2, <2>1 DEF Item, Deciding, Handles
    <3>5. ASSUME y.op = "delete"
          PROVE  /\ \A h \in Handles : Owner[h] = t => e[h] # y.obj /\ ptr[h] # y.obj
                 /\ \A z \in Items(t)' : z.obj = y.obj => z = y
                 /\ Alone(e, t, y.obj)'
      <4>1. /\ \A h \in Handles : Owner[h] = t => held[h] # y.obj /\ ptr[h] # y.obj
            /\ \A z \in Items(t) : z.obj = y.obj => z = y
            /\ Alone(held, t, y.obj)
        BY <3>5, <2>1 DEF Item, Deciding
      <4>2. y.obj # o
        BY <4>1, <1>1
      <4> QED
        BY <4>1, <4>2, <3>1, <3>2, <3>5, <1>4, <1>5, <1>9
    <3> QED
      BY <3>3, <3>4, <3>5 DEF Deciding, Own
  <2> QED
    BY <2>6, <2>7, <2>8, <2>9, <2>10, <2>11 DEF Item
<1>12. ASSUME NEW d \in D
       PROVE  Item(e, t, d)'
  <2>1. d.obj = o /\ d.op \in Decisions /\ x.op # "detach"
    BY <1>4
  <2>2. /\ Releasing(e, t, d)' /\ Detaching(t, d)' /\ Acquiring(e, t, d)'
        /\ Locking(e, t, d)' /\ Clearing(t, d)' /\ Granted(e, t, d)'
    BY <2>1 DEF Releasing, Detaching, Acquiring, Locking, Clearing, Granted, Decisions, RelOps, AcqOps
  <2>3. HasWeak(o) => Own(t, o)
    <3>1. o \in Use[x.h]
      BY <1>1 DEF HInv, Counting
    <3> QED
      BY <3>1, <1>1 DEF Confined, Own
  <2>4. CASE x.op = "release" /\ HasWeak(o)
    <3>1. d.op = "weak_count" /\ \A h \in Strong : e[h] # o
      BY <2>4
    <3> QED
      BY <3>1, <2>1, <2>2, <2>3, <2>4 DEF Item, Deciding, Own
  <2>5. CASE x.op = "release" /\ ~HasWeak(o)
    <3>1. d.op = "delete" /\ \A h \in Strong : e[h] # o
      BY <2>5
    <3>2. \A h \in Handles : e[h] # o
      BY <3>1, <2>5, <1>1, <1>3 DEF HasWeak, Handles, Strong
    <3>3. \A h \in Handles : held[h] = o => h = x.h
      BY <3>2, <1>2
    <3>4. /\ \A h \in Handles : Owner[h] = t => ptr[h] # o
          /\ \A y \in Items(t) : y.obj = o => y = x
          /\ Alone(held, t, o)
      BY <3>3, <2>5, <1>1, <1>6, NobodyElse
    <3>5. \A y \in Items(t)' : y.obj = o => y = d
      BY <3>4, <1>5
    <3>6. Alone(e, t, o)'
      BY <3>4, <1>1, <1>9
    <3>7. Deciding(e, t, d)'
      BY <3>1, <3>2, <3>4, <3>5, <3>6, <2>1 DEF Deciding
    <3> QED
      BY <3>7, <2>2 DEF Item
  <2>6. CASE x.op # "release"
    <3>1. d.op = "count" /\ \A h \in Weaks : e[h] # o
      BY <2>6
    <3>2. HasWeak(o)
      <4>1. x.op = "weak_release"
        BY <2>1, <2>6 DEF RelOps
      <4>2. x.h \in Weaks
        BY <4>1, <1>1, Listed DEF Fits
      <4> QED
        BY <4>2, <1>1 DEF HasWeak, HInv, Counting
    <3> QED
      BY <3>1, <3>2, <2>1, <2>2, <2>3 DEF Item, Deciding, Own
  <2> QED
    BY <2>4, <2>5, <2>6
<1>13. \A s \in Owners : Scheduled(e, s)'
  BY <1>5, <1>9, <1>11, <1>12 DEF Scheduled
<1>14. Living(e)'
  <2>1. \A s \in Owners, p \in Objs : Knows(e, s, p)' => status[p] = "alive"
    BY <1>8, <1>9 DEF HInv, Living
  <2>2. ASSUME NEW p \in Objs, status[p] = "alive", p # o
        PROVE  \/ \E h \in Handles : e[h] = p
               \/ \E s \in Owners : \E y \in Items(s)' : y.op \in AcqOps \cup Decisions /\ y.obj = p
    <3>1. CASE \E h \in Handles : held[h] = p
      BY <3>1, <2>2, <1>1, <1>2
    <3>2. ASSUME NEW s \in Owners, NEW y \in Items(s), y.op \in AcqOps \cup Decisions, y.obj = p
          PROVE  \E r \in Owners : \E z \in Items(r)' : z.op \in AcqOps \cup Decisions /\ z.obj = p
      <4>1. y \in Items(s)'
        BY <3>2, <2>2, <1>6 DEF Done
      <4> QED
        BY <4>1, <3>2
    <3> QED
      BY <3>1, <3>2, <2>2 DEF HInv, Living
  <2>3. \/ \E h \in Handles : e[h] = o
        \/ \E y \in Items(t)' : y.op \in AcqOps \cup Decisions /\ y.obj = o
    <3>1. CASE x.op = "detach"
      <4> PICK y \in Items(t) : y.op \in AcqOps /\ y.obj = o
        BY <3>1, <1>1 DEF Item, Detaching
      <4>1. y \in Items(t)'
        BY <1>6 DEF AcqOps, RelOps
      <4> QED
        BY <4>1
    <3>2. CASE x.op # "detach" /\ D = {}
      BY <3>2
    <3>3. ASSUME NEW d \in D PROVE \E y \in Items(t)' : y.op \in AcqOps \cup Decisions /\ y.obj = o
      BY <1>4 DEF Done
    <3> QED
      BY <3>1, <3>2, <3>3
  <2> QED
    BY <2>1, <2>2, <2>3 DEF Living
<1> QED
  BY <1>10, <1>13, <1>14 DEF HInv

\* When its turn comes, what is to be acquired is not yet held.
LEMMA NotYet ==
    ASSUME Typed, NEW held \in Held, HInv(held), NEW t \in Owners, NEW x, First(t, x),
           x.op \in AcqOps
    PROVE  /\ x \in Items(t) /\ x.h \in Handles /\ Owner[x.h] = t /\ held[x.h] = Null
           /\ x.obj \in Objs /\ status[x.obj] = "alive" /\ Knows(held, t, x.obj)
           /\ ptr[x.h] = x.obj
           /\ \A y \in Items(t) : y # x => y.op = "clear"
           /\ Sole(held, t, x) => \A g \in Handles : held[g] # x.obj
           /\ Source(held, t, x) \/ Sole(held, t, x)
<1>1. x \in Items(t) /\ Item(held, t, x)
  BY DEF First, HInv, Scheduled
<1>2. x.h \in Handles /\ Owner[x.h] = t
  BY <1>1, Kinds DEF HandleOps
<1>3. x.obj \in Objs /\ status[x.obj] = "alive" /\ Knows(held, t, x.obj)
  BY <1>1, Known DEF AcqOps
<1>4. \A y \in Items(t) : y # x => y.op = "clear"
  <2> TAKE y \in Items(t)
  <2>1. y.op \in Ops /\ x.op \in Ops
    BY <1>1, Kinds
  <2>2. Rank(x.op) = 3
    BY <2>1, RankOps
  <2>3. y # x => Rank(y.op) > 3
    BY <2>2, RankType DEF First
  <2> QED
    BY <2>1, <2>3, RankOps
<1>5. \A y \in Items(t) : y.op \notin RelOps
  BY <1>4 DEF RelOps, AcqOps
<1>6. held[x.h] = Null /\ ptr[x.h] = x.obj
  BY <1>1, <1>5 DEF Item, Acquiring
<1>7. ASSUME Sole(held, t, x), NEW g \in Handles, held[g] = x.obj
      PROVE  FALSE
  <2>1. Owner[g] \in Owners
    BY HandlesAssumption
  <2>2. CASE Owner[g] # t
    BY <1>7, <2>1, <2>2 DEF Sole, Alone, Knows
  <2>3. CASE Owner[g] = t
    <3>1. g # x.h
      BY <1>7 DEF Sole
    <3>2. \A y \in Items(t) : y.op # "detach"
      BY <1>5 DEF RelOps
    <3> QED
      BY <3>1, <3>2, <2>3, <1>7 DEF Sole
  <2> QED
    BY <2>2, <2>3
<1>8. Source(held, t, x) \/ Sole(held, t, x)
  BY <1>1 DEF Item, Granted
<1> QED
  BY <1>1, <1>2, <1>3, <1>4, <1>6, <1>7, <1>8

\* A handle acquires the object it already points to.
LEMMA Acquires ==
    ASSUME Typed, NEW held \in Held, HInv(held), NEW t \in Owners, NEW x,
           Done(t, x, {}), x.op \in AcqOps, ptr' = ptr, status' = status,
           NEW e, e[x.h] = x.obj, \A g \in Handles : g # x.h => e[g] = held[g], Counts(e)'
    PROVE  HInv(e)'
<1> DEFINE o == x.obj
<1> USE HandlesAssumption
<1>1. /\ x \in Items(t) /\ x.h \in Handles /\ Owner[x.h] = t /\ held[x.h] = Null
      /\ o \in Objs /\ status[o] = "alive" /\ Knows(held, t, o)
      /\ ptr[x.h] = o
      /\ \A y \in Items(t) : y # x => y.op = "clear"
      /\ Sole(held, t, x) => \A g \in Handles : held[g] # o
      /\ Source(held, t, x) \/ Sole(held, t, x)
  BY NotYet DEF Done
<1>2. e[x.h] = o /\ \A g \in Handles : g # x.h => e[g] = held[g]
  OBVIOUS
<1>3. \A g \in Handles : e[g] \in Use[g] \cup {Null}
  BY <1>1, <1>2 DEF Typed, HInv, Counting
<1>4. Items(t)' = Items(t) \ {x}
  BY DEF Done
<1>5. \A p \in Objs : Knows(e, t, p)' => Knows(held, t, p) \/ status[p] = "none"
  <2> SUFFICES ASSUME NEW p \in Objs, Knows(e, t, p)' PROVE Knows(held, t, p)
    OBVIOUS
  <2> QED
    BY <1>1, <1>2, <1>4 DEF Knows
<1>6. Undisturbed(held, e, t)
  <2>1. \A s \in Owners : s # t => ItemsOf(todo'[s]) = Items(s)
    BY DEF Done, Items
  <2>2. \A h \in Handles : Owner[h] # t => ptr'[h] = ptr[h] /\ e[h] = held[h]
    BY <1>1, <1>2
  <2> HIDE DEF o
  <2> QED
    BY <2>1, <2>2, <1>3, <1>5, Others
<1>7. Counting(e)'
  <2>1. ASSUME NEW h \in Handles, Quiet(h)'
        PROVE  e[h] = ptr'[h]
    <3>1. CASE h = x.h
      BY <3>1, <1>1, <1>2
    <3>2. CASE h # x.h
      <4>1. Quiet(h)
        BY <2>1, <3>2 DEF Quiet, Done
      <4> QED
        BY <4>1, <3>2, <1>2 DEF HInv, Counting
    <3> QED
      BY <3>1, <3>2
  <2>2. ASSUME NEW u \in Uniques, NEW g \in Strong, g # u, e[u] # Null, e[g] = e[u]
        PROVE  FALSE
    <3>1. u \in Handles /\ g \in Handles
      BY DEF Handles, Strong
    <3>2. held[u] # Null => held[g] # held[u]
      BY <2>2 DEF HInv, Counting
    <3>3. u = x.h \/ g = x.h
      BY <3>1, <3>2, <2>2, <1>2
    <3>4. ~Sole(held, t, x)
      BY <3>1, <3>3, <2>2, <1>1, <1>2
    <3> PICK k \in Handles :
            /\ k # x.h /\ held[k] = o
            /\ x.h \in RCs => k \in RCs
            /\ x.h \notin Uniques
      BY <3>4, <1>1 DEF Source
    <3>5. g = x.h /\ u # x.h
      BY <3>3
    <3>6. held[u] = o /\ k # u
      BY <3>1, <3>5, <2>2, <1>2 DEF Strong
    <3>7. k \in Strong
      BY <3>5 DEF Strong
    <3> QED
      BY <3>6, <3>7, <1>1 DEF HInv, Counting
  <2> QED
    BY <2>1, <2>2, <1>3 DEF Counting, Counts
<1>8. ASSUME NEW y \in Items(t)'
      PROVE  Item(e, t, y)'
  <2>1. y \in Items(t) /\ y # x /\ y.op = "clear"
    BY <1>1, <1>4, <1>8
  <2>2. Clearing(t, y)
    BY <2>1 DEF HInv, Scheduled, Item
  <2>3. Clearing(t, y)'
    BY <2>2, <1>4 DEF Clearing
  <2> QED
    BY <2>1, <2>3 DEF Item, Releasing, Detaching, Acquiring, Locking, Granted, Deciding, RelOps, AcqOps
<1>9. \A s \in Owners : Scheduled(e, s)'
  BY <1>6, <1>8 DEF Scheduled, Undisturbed
<1>10. Living(e)'
  <2>1. \A s \in Owners, p \in Objs : Knows(e, s, p)' => status[p] = "alive"
    <3> TAKE s \in Owners, p \in Objs
    <3>1. CASE s = t
      BY <3>1, <1>1, <1>2, <1>4 DEF HInv, Living, Knows
    <3>2. CASE s # t
      BY <3>2, <1>6 DEF HInv, Living, Undisturbed
    <3> QED
      BY <3>1, <3>2
  <2>2. ASSUME NEW p \in Objs, status[p] = "alive", p # o
        PROVE  \/ \E h \in Handles : e[h] = p
               \/ \E s \in Owners : \E y \in Items(s)' : y.op \in AcqOps \cup Decisions /\ y.obj = p
    <3>1. CASE \E h \in Handles : held[h] = p
      BY <3>1, <2>2, <1>1, <1>2
    <3>2. ASSUME NEW s \in Owners, NEW y \in Items(s), y.op \in AcqOps \cup Decisions, y.obj = p
          PROVE  \E r \in Owners : \E z \in Items(r)' : z.op \in AcqOps \cup Decisions /\ z.obj = p
      <4>1. y \in Items(s)'
        BY <3>2, <2>2 DEF Done
      <4> QED
        BY <4>1, <3>2
    <3> QED
      BY <3>1, <3>2, <2>2 DEF HInv, Living
  <2>3. \E h \in Handles : e[h] = o
    BY <1>1, <1>2
  <2> QED
    BY <2>1, <2>2, <2>3 DEF Living
<1> QED
  BY <1>7, <1>9, <1>10 DEF HInv

\* A decision about an object that no handle of the asking kind holds: the
\* other kind still holds it, or it is deleted.
LEMMA Decides ==
    ASSUME Typed, NEW held \in Held, HInv(held), NEW t \in Owners, NEW x, NEW D,
           Done(t, x, D), x.op \in Decisions, ptr' = ptr, Counts(held)',
           \/ D = {} /\ status' = status /\ x.op # "delete" /\ \E h \in Handles : held[h] = x.obj
           \/ /\ status' = status /\ x.op # "delete" /\ \A h \in Handles : held[h] # x.obj
              /\ \E d \in Accesses : D = {d} /\ d.op = "delete" /\ d.obj = x.obj
           \/ D = {} /\ x.op = "delete" /\ status' = [status EXCEPT ![x.obj] = "deleted"]
    PROVE  HInv(held)'
<1> DEFINE o == x.obj
<1> USE HandlesAssumption
<1>1. /\ x \in Items(t) /\ o \in Objs /\ status[o] = "alive" /\ Knows(held, t, o)
      /\ Item(held, t, x) /\ x.op \notin RelOps \cup AcqOps
  <2>1. x \in Items(t) /\ x.op # "clear" /\ x.op \notin RelOps \cup AcqOps
    BY DEF Done, First, Decisions, RelOps, AcqOps
  <2> QED
    BY <2>1, Known DEF HInv, Scheduled
<1>2. Items(t)' = (Items(t) \ {x}) \cup D
  BY DEF Done
<1>3. \A d \in D : d.obj = o /\ d.op = "delete" /\ x.op # "delete"
  OBVIOUS
<1>4. \A y \in Items(t) : y # x => y \in Items(t)' /\ (y.op \in AcqOps \/ y.op = "clear")
  <2> TAKE y \in Items(t)
  <2>1. y.op \in Ops /\ x.op \in Ops
    BY <1>1, Kinds
  <2>2. Rank(x.op) = 2
    BY DEF Rank, Decisions, AcqOps
  <2>3. y # x => Rank(y.op) > 2
    BY <2>2, RankType DEF First, Done
  <2> QED
    BY <2>1, <2>3, <1>2, RankOps
<1>5. \A p \in Objs : Knows(held, t, p)' => Knows(held, t, p) \/ status[p] = "none"
  <2> SUFFICES ASSUME NEW p \in Objs, Knows(held, t, p)' PROVE Knows(held, t, p)
    OBVIOUS
  <2> QED
    BY <1>1, <1>2, <1>3 DEF Knows
<1>6. Undisturbed(held, held, t)
  <2>1. \A s \in Owners : s # t => ItemsOf(todo'[s]) = Items(s)
    BY DEF Done, Items
  <2>2. \A h \in Handles : Owner[h] # t => ptr'[h] = ptr[h] /\ held[h] = held[h]
    OBVIOUS
  <2>3. \A h \in Handles : held[h] \in Use[h] \cup {Null}
    BY DEF HInv, Counting
  <2> HIDE DEF o
  <2> QED
    BY <2>1, <2>2, <2>3, <1>5, Others
<1>7. Counting(held)'
  <2>1. ASSUME NEW h \in Handles, Quiet(h)'
        PROVE  held[h] = ptr'[h]
    <3>1. Quiet(h)
      BY <2>1, <1>1 DEF Quiet, Done
    <3> QED
      BY <3>1 DEF HInv, Counting
  <2> QED
    BY <2>1 DEF HInv, Counting, Counts
<1>8. ASSUME NEW y \in Items(t), y # x
      PROVE  Item(held, t, y)'
  <2>1. Item(held, t, y)
    BY DEF HInv, Scheduled
  <2>2. y \in Items(t)' /\ (y.op \in AcqOps \/ y.op = "clear")
    BY <1>4, <1>8
  <2>3. \A z \in Items(t)' : z.op \in HandleOps => z \in Items(t)
    BY <1>2, <1>3 DEF HandleOps, RelOps, AcqOps
  <2>4. Acquiring(held, t, y)'
    <3> SUFFICES ASSUME y.op \in AcqOps
                 PROVE  /\ ptr[y.h] = y.obj
                        /\ held[y.h] = Null \/ \E z \in Items(t)' : z.op \in RelOps /\ z.h = y.h
      BY DEF Acquiring
    <3> QED
      BY <2>1, <1>1, <1>4 DEF Item, Acquiring
  <2>5. Clearing(t, y)'
    BY <2>1, <2>3 DEF Item, Clearing
  <2>6. Granted(held, t, y)'
    <3> SUFFICES ASSUME y.op \in AcqOps PROVE Source(held, t, y)' \/ Sole(held, t, y)'
      BY DEF Granted
    <3>1. CASE Source(held, t, y)
      BY <3>1, <2>3 DEF Source, HandleOps
    <3>2. CASE Sole(held, t, y)
      <4>1. y.obj \in Objs
        BY Kinds DEF AcqOps
      <4>2. Alone(held, t, y.obj)'
        BY <4>1, <3>2, <1>6 DEF Sole, Undisturbed
      <4>3. y.obj # o
        BY <3>2, <1>1, <1>8 DEF Sole, RelOps
      <4>4. \A z \in Items(t)' : z.obj = y.obj => z = y \/ z.op = "detach"
        BY <4>3, <3>2, <1>2, <1>3 DEF Sole
      <4>5. \A z \in Items(t) : z.op = "detach" => z \in Items(t)'
        BY <1>1, <1>4 DEF RelOps
      <4> QED
        BY <4>2, <4>4, <4>5, <3>2 DEF Sole
    <3> QED
      BY <3>1, <3>2, <2>1 DEF Item, Granted
  <2> QED
    BY <2>2, <2>4, <2>5, <2>6
    DEF Item, Releasing, Detaching, Locking, Deciding, RelOps, AcqOps
<1>9. ASSUME NEW d \in D
      PROVE  Item(held, t, d)'
  <2>1. d.obj = o /\ d.op = "delete" /\ x.op \in {"weak_count", "count"}
        /\ \A h \in Handles : held[h] # o
    BY <1>3, <1>9 DEF Decisions
  <2>2. Own(t, o)
    BY <2>1, <1>1 DEF Item, Deciding
  <2>3. \A y \in Items(t) : y # x => Rank(x.op) < Rank(y.op)
    BY DEF Done, First
  <2>4. /\ \A h \in Handles : Owner[h] = t => ptr[h] # o
        /\ \A y \in Items(t) : y.obj = o => y = x
        /\ Alone(held, t, o)
    BY <2>1, <2>2, <2>3, <1>1, NobodyElse
  <2>5. \A y \in Items(t)' : y.obj = o => y = d
    BY <2>4, <1>2, <1>9
  <2>6. Alone(held, t, o)'
    BY <2>4, <1>1, <1>6 DEF Undisturbed
  <2>7. Deciding(held, t, d)'
    BY <2>1, <2>4, <2>5, <2>6 DEF Deciding
  <2> QED
    BY <2>1, <2>7 DEF Item, Releasing, Detaching, Acquiring, Locking, Clearing, Granted, RelOps, AcqOps
<1>10. \A s \in Owners : Scheduled(held, s)'
  BY <1>2, <1>6, <1>8, <1>9 DEF Scheduled, Undisturbed
<1>11. ASSUME NEW s \in Owners, NEW p \in Objs, Knows(held, s, p)'
       PROVE  Knows(held, s, p) /\ status'[p] = "alive"
  <2>1. Knows(held, s, p)
    <3>1. CASE s = t
      BY <3>1, <1>1, <1>2, <1>3, <1>11 DEF Knows
    <3>2. CASE s # t
      BY <3>2, <1>6, <1>11 DEF Undisturbed
    <3> QED
      BY <3>1, <3>2
  <2>2. status[p] = "alive"
    BY <2>1 DEF HInv, Living
  <2>3. ASSUME x.op = "delete" PROVE p # o
    <3>1. /\ \A h \in Handles : Owner[h] = t => held[h] # o /\ ptr[h] # o
          /\ \A y \in Items(t) : y.obj = o => y = x
          /\ Alone(held, t, o)
      BY <2>3, <1>1 DEF Item, Deciding
    <3>2. \A y \in Items(t)' : y.obj # o
      BY <3>1, <2>3, <1>2, <1>3
    <3> QED
      BY <3>1, <3>2, <2>1, <1>11 DEF Knows, Alone
  <2> QED
    BY <2>1, <2>2, <2>3 DEF Typed
<1>12. ASSUME NEW p \in Objs, status'[p] = "alive"
       PROVE  \/ \E h \in Handles : held[h] = p
              \/ \E s \in Owners : \E y \in Items(s)' : y.op \in AcqOps \cup Decisions /\ y.obj = p
  <2>1. status[p] = "alive" /\ (x.op = "delete" => p # o)
    BY <1>1, <1>12 DEF Typed
  <2>2. ASSUME NEW s \in Owners, NEW y \in Items(s), y.op \in AcqOps \cup Decisions, y.obj = p,
               p # o
        PROVE  \E r \in Owners : \E z \in Items(r)' : z.op \in AcqOps \cup Decisions /\ z.obj = p
    <3>1. y \in Items(s)'
      BY <2>2 DEF Done
    <3> QED
      BY <3>1, <2>2
  <2>3. CASE p # o
    BY <2>1, <2>2, <2>3 DEF HInv, Living
  <2>4. ASSUME p = o, NEW d \in D
        PROVE  \E y \in Items(t)' : y.op \in AcqOps \cup Decisions /\ y.obj = p
    BY <2>4, <1>2, <1>3 DEF Decisions
  <2> QED
    BY <2>1, <2>3, <2>4
<1>13. Living(held)'
  BY <1>11, <1>12 DEF Living
<1> QED
  BY <1>7, <1>10, <1>13 DEF HInv

-----------------------------------------------------------------------------
(* A thread with nothing to count starts anew.                             *)

Still(t) == \A y \in Items(t) : y.op \in {"lock", "clear"}

\* Without anything to count, what a handle points to is what is counted for it.
LEMMA CountedAsHeld ==
    ASSUME Typed, NEW held, HInv(held), NEW t \in Owners, Still(t), NEW h \in Handles, Owner[h] = t
    PROVE  held[h] = ptr[h]
<1>1. Quiet(h)
  BY DEF Still, Quiet, RelOps, AcqOps
<1> QED
  BY <1>1 DEF HInv, Counting

\* e is what the handles hold once thread t has changed its own.
Changed(held, e, t) ==
    /\ \A h \in Handles : e[h] \in Use[h] \cup {Null}
    /\ \A h \in Handles : Owner[h] # t => ptr'[h] = ptr[h] /\ e[h] = held[h]
    /\ \A s \in Owners : s # t => Items(s)' = Items(s)
    /\ \A p \in Objs : Knows(e, t, p)' =>
          status'[p] = "alive" /\ (Knows(held, t, p) \/ status[p] = "none")

\* A change of a thread's own handles leaves the others undisturbed.
LEMMA ChangedAlone ==
    ASSUME Typed, NEW held, HInv(held), NEW t \in Owners, NEW e, Changed(held, e, t)
    PROVE  Undisturbed(held, e, t)
<1>1. \A s \in Owners : s # t => ItemsOf(todo'[s]) = Items(s)
  BY DEF Changed, Items
<1>2. /\ \A h \in Handles : e[h] \in Use[h] \cup {Null}
      /\ \A h \in Handles : Owner[h] # t => ptr'[h] = ptr[h] /\ e[h] = held[h]
      /\ \A p \in Objs : Knows(e, t, p)' => Knows(held, t, p) \/ status[p] = "none"
  BY DEF Changed
<1> QED
  BY <1>1, <1>2, Others

Rescheduled(held, e, t) ==
    /\ Counts(e)'
    /\ \A u \in Uniques, g \in Strong : g # u /\ e[u] # Null => e[g] # e[u]
    /\ \A h \in Handles : Owner[h] = t /\ Quiet(h)' => e[h] = ptr'[h]
    /\ \A p \in Objs : \/ status'[p] = status[p]
                       \/ status[p] = "none" /\ \E y \in Items(t)' : y.op \in AcqOps /\ y.obj = p
    /\ \A h \in Handles : \E k \in Handles : e[k] = held[h]
    /\ \A y \in Items(t)' : Item(e, t, y)'

\* The invariant holds of what an operation makes of its thread's handles and list.
LEMMA Anew ==
    ASSUME Typed, NEW held, HInv(held), NEW t \in Owners, Still(t), NEW e,
           Changed(held, e, t), Rescheduled(held, e, t)
    PROVE  HInv(e)'
<1> USE HandlesAssumption DEF Rescheduled
<1>1. Undisturbed(held, e, t)
  BY ChangedAlone
<1>2. Counting(e)'
  <2>1. ASSUME NEW h \in Handles, Quiet(h)'
        PROVE  e[h] = ptr'[h]
    <3>1. CASE Owner[h] = t
      BY <2>1, <3>1
    <3>2. CASE Owner[h] # t
      <4>1. Items(Owner[h])' = Items(Owner[h])
        BY <3>2 DEF Changed
      <4>2. Quiet(h)
        BY <4>1, <2>1 DEF Quiet
      <4>3. held[h] = ptr[h]
        BY <4>2 DEF HInv, Counting
      <4> QED
        BY <4>3, <3>2 DEF Changed
    <3> QED
      BY <3>1, <3>2
  <2> QED
    BY <2>1 DEF Counting, Counts, Changed
<1>3. \A s \in Owners : Scheduled(e, s)'
  BY <1>1 DEF Scheduled, Undisturbed
<1>4. ASSUME NEW s \in Owners, NEW p \in Objs, Knows(e, s, p)'
      PROVE  status'[p] = "alive"
  <2>1. CASE s = t
    BY <2>1, <1>4 DEF Changed
  <2>2. CASE s # t
    <3>1. status[p] = "alive"
      BY <2>2, <1>1, <1>4 DEF Undisturbed, HInv, Living
    <3> QED
      BY <3>1
  <2> QED
    BY <2>1, <2>2
<1>5. ASSUME NEW p \in Objs, status'[p] = "alive"
      PROVE  \/ \E h \in Handles : e[h] = p
             \/ \E s \in Owners : \E y \in Items(s)' : y.op \in AcqOps \cup Decisions /\ y.obj = p
  <2>1. CASE status[p] = "none" /\ \E y \in Items(t)' : y.op \in AcqOps /\ y.obj = p
    BY <2>1
  <2>2. CASE status[p] = "alive"
    <3>1. CASE \E h \in Handles : held[h] = p
      BY <3>1
    <3>2. ASSUME NEW s \in Owners, NEW y \in Items(s), y.op \in AcqOps \cup Decisions, y.obj = p
          PROVE  \E r \in Owners : \E z \in Items(r)' : z.op \in AcqOps \cup Decisions /\ z.obj = p
      <4>1. s # t
        BY <3>2 DEF Still, AcqOps, Decisions
      <4>2. y \in Items(s)'
        BY <4>1 DEF Changed
      <4> QED
        BY <4>2, <3>2
    <3> QED
      BY <3>1, <3>2, <2>2 DEF HInv, Living
  <2> QED
    BY <2>1, <2>2, <1>5
<1>6. Living(e)'
  BY <1>4, <1>5 DEF Living
<1> QED
  BY <1>2, <1>3, <1>6 DEF HInv

\* The special case of a step after which every handle holds what it held.
LEMMA AnewHeld ==
    ASSUME Typed, NEW held, HInv(held), NEW t \in Owners, Still(t),
           UNCHANGED <<counter, weak_counter>>, Changed(held, held, t),
           \A h \in Handles : Owner[h] = t /\ Quiet(h)' => held[h] = ptr'[h],
           \A p \in Objs : \/ status'[p] = status[p]
                           \/ status[p] = "none" /\ \E y \in Items(t)' : y.op \in AcqOps /\ y.obj = p,
           \A y \in Items(t)' : Item(held, t, y)'
    PROVE  HInv(held)'
<1>1. Counts(held)'
  BY DEF HInv, Counting, Counts
<1>2. \A u \in Uniques, g \in Strong : g # u /\ held[u] # Null => held[g] # held[u]
  BY DEF HInv, Counting
<1>3. \A h \in Handles : \E k \in Handles : held[k] = held[h]
  OBVIOUS
<1>4. Rescheduled(held, held, t)
  BY <1>1, <1>2, <1>3 DEF Rescheduled
<1> QED
  BY <1>4, Anew

\* A handle drops its object: reset(), or the end of a move assignment.
LEMMA Drops ==
    ASSUME Typed, NEW held, HInv(held), NEW t \in Owners, Still(t), NEW h \in Handles,
           Owner[h] = t, ptr[h] # Null, NEW d, d.op = ReleaseOp(h), d.obj = ptr[h], d.h = h,
           ptr' = [ptr EXCEPT ![h] = Null], UNCHANGED <<counter, weak_counter, status>>,
           \A s \in Owners : s # t => Items(s)' = Items(s), Items(t)' = {d}
    PROVE  HInv(held)'
<1> USE HandlesAssumption
<1>1. held[h] = ptr[h] /\ held[h] \in Objs
  BY CountedAsHeld DEF Typed
<1>2. d.op \in RelOps /\ d.op # "detach"
  BY DEF ReleaseOp, RelOps
<1>3. ptr'[h] = Null /\ \A k \in Handles : k # h => ptr'[k] = ptr[k]
  BY DEF Typed
<1>4. Changed(held, held, t)
  <2>1. ASSUME NEW p \in Objs, Knows(held, t, p)'
        PROVE  Knows(held, t, p)
    BY <2>1, <1>1, <1>3 DEF Knows
  <2>2. ASSUME NEW p \in Objs, Knows(held, t, p)
        PROVE  status'[p] = "alive"
    BY <2>2 DEF HInv, Living
  <2> QED
    BY <2>1, <2>2, <1>3 DEF Changed, HInv, Counting
<1>5. ASSUME NEW k \in Handles, Owner[k] = t, Quiet(k)'
      PROVE  held[k] = ptr'[k]
  <2>1. k # h
    BY <1>2, <1>5 DEF Quiet
  <2> QED
    BY <2>1, <1>3, <1>5, CountedAsHeld
<1>6. Item(held, t, d)'
  <2>1. Releasing(held, t, d)'
    BY <1>1, <1>3 DEF Releasing
  <2> QED
    BY <2>1, <1>2 DEF Item, Detaching, Acquiring, Locking, Clearing, Granted, Deciding, RelOps, AcqOps
<1>7. \A p \in Objs : status'[p] = status[p]
  OBVIOUS
<1> QED
  BY <1>4, <1>5, <1>6, <1>7, AnewHeld

\* lock() finds a count that is not 0: the RC it makes is to be counted.
LEMMA Locks ==
    ASSUME Confined, Typed, NEW held, HInv(held), NEW t \in Owners, NEW x \in Items(t),
           x.op = "lock", counter[x.obj] # 0,
           NEW d, d.op = "add_ref", d.obj = x.obj, d.h = x.h,
           ptr' = [ptr EXCEPT ![x.h] = x.obj], UNCHANGED <<counter, weak_counter, status>>,
           \A s \in Owners : s # t => Items(s)' = Items(s), Items(t)' = {d}
    PROVE  HInv(held)'
<1> USE HandlesAssumption
<1> DEFINE o == x.obj
           h == x.h
<1>1. /\ h \in RCs /\ h \in Handles /\ Owner[h] = t
      /\ o \in Objs /\ o \in Use[h] /\ ptr[h] = Null /\ Knows(held, t, o)
      /\ \A y \in Items(t) : y = x
  <2>1. Item(held, t, x)
    BY DEF HInv, Scheduled
  <2>2. h \in Handles /\ Owner[h] = t
    BY Kinds DEF HandleOps
  <2>3. h \in RCs
    BY Listed DEF Fits
  <2>4. o \in Objs /\ Knows(held, t, o)
    BY Known
  <2> QED
    BY <2>1, <2>2, <2>3, <2>4 DEF Item, Locking
<1>2. Still(t)
  BY <1>1 DEF Still
<1>3. held[h] = Null
  BY <1>1, <1>2, CountedAsHeld
<1>4. ptr'[h] = o /\ \A k \in Handles : k # h => ptr'[k] = ptr[k]
  BY <1>1 DEF Typed
<1>5. Changed(held, held, t)
  <2>1. ASSUME NEW p \in Objs, Knows(held, t, p)'
        PROVE  Knows(held, t, p)
    BY <2>1, <1>1, <1>4 DEF Knows
  <2>2. ASSUME NEW p \in Objs, Knows(held, t, p)
        PROVE  status'[p] = "alive"
    BY <2>2 DEF HInv, Living
  <2> QED
    BY <2>1, <2>2, <1>1, <1>4 DEF Changed, HInv, Counting
<1>6. ASSUME NEW k \in Handles, Owner[k] = t, Quiet(k)'
      PROVE  held[k] = ptr'[k]
  <2>1. k # h
    BY <1>6 DEF Quiet, AcqOps
  <2> QED
    BY <2>1, <1>2, <1>4, <1>6, CountedAsHeld
<1>7. \E g \in RCs : Owner[g] = t /\ held[g] = o
  <2>1. counter[o] = Counted1(held, Strong, o)
    BY <1>1 DEF HInv, Counting
  <2>2. Strong \in SUBSET Handles
    BY DEF Strong, Handles
  <2> PICK g \in Strong : held[g] = o
    BY <2>1, <2>2, CountZero
  <2> PICK w \in Weaks : Owner[w] = t /\ held[w] = o
    BY DEF HInv, Scheduled, Item, Locking
  <2>3. g \in Handles /\ w \in Handles
    BY <2>2 DEF Handles
  <2>4. o \in Use[g] /\ o \in Use[w]
    BY <2>3, <1>1 DEF HInv, Counting
  <2>5. HasWeak(o)
    BY <2>4 DEF HasWeak
  <2> HIDE DEF o, h
  <2>6. Owner[g] = Owner[w] /\ g \notin Uniques
    BY <2>3, <2>4, <2>5, <1>1 DEF Confined
  <2> QED
    BY <2>6 DEF Strong
<1>8. Item(held, t, d)'
  <2>1. Acquiring(held, t, d)'
    BY <1>3, <1>4 DEF Acquiring
  <2>2. Source(held, t, d)'
    <3> PICK g \in RCs : Owner[g] = t /\ held[g] = o
      BY <1>7
    <3>1. g \in Handles /\ g # h /\ h \notin Uniques
      BY <1>1, <1>3 DEF Handles
    <3>2. \A y \in Items(t)' : y.op \notin RelOps
      BY DEF RelOps
    <3> QED
      BY <3>1, <3>2 DEF Source
  <2> QED
    BY <2>1, <2>2 DEF Item, Releasing, Detaching, Locking, Clearing, Granted, Deciding, RelOps, AcqOps
<1>9. \A p \in Objs : status'[p] = status[p]
  OBVIOUS
<1> QED
  BY <1>2, <1>5, <1>6, <1>8, <1>9, AnewHeld

\* Nothing is left to do.
LEMMA Stops ==
    ASSUME Typed, NEW held, HInv(held), NEW t \in Owners, Still(t), Items(t)' = {},
           \A s \in Owners : s # t => Items(s)' = Items(s),
           UNCHANGED <<ptr, counter, weak_counter, status>>
    PROVE  HInv(held)'
<1>1. Changed(held, held, t)
  <2>1. ASSUME NEW p \in Objs, Knows(held, t, p)'
        PROVE  Knows(held, t, p)
    BY <2>1 DEF Knows
  <2>2. ASSUME NEW p \in Objs, Knows(held, t, p)
        PROVE  status'[p] = "alive"
    BY <2>2 DEF HInv, Living
  <2> QED
    BY <2>1, <2>2 DEF Changed, HInv, Counting
<1>2. \A k \in Handles : Owner[k] = t => held[k] = ptr'[k]
  BY CountedAsHeld
<1>3. \A p \in Objs : status'[p] = status[p]
  OBVIOUS
<1> QED
  BY <1>1, <1>2, <1>3, AnewHeld

\* Two handles of one class have exchanged their pointers.
LEMMA Exchanges ==
    ASSUME Typed, NEW held \in Held, HInv(held), NEW t \in Owners, Items(t) = {},
           NEW class \in {RCs, Uniques, Weaks}, NEW h \in class, NEW g \in class, h # g,
           Owner[h] = t, Owner[g] = t,
           ptr[g] \in Use[h] \cup {Null}, ptr[h] \in Use[g] \cup {Null},
           ptr' = [ptr EXCEPT ![h] = ptr[g], ![g] = ptr[h]],
           UNCHANGED <<counter, weak_counter, status, todo>>
    PROVE  \E e \in Held : HInv(e)'
<1> USE HandlesAssumption
<1>1. h \in Handles /\ g \in Handles
  BY DEF Handles
<1>2. Still(t)
  BY DEF Still
<1>3. held[h] = ptr[h] /\ held[g] = ptr[g]
  BY <1>1, <1>2, CountedAsHeld
<1>4. PICK e \in Held : /\ e[h] = held[g] /\ e[g] = held[h]
                        /\ \A k \in Handles : k # h /\ k # g => e[k] = held[k]
  <2> DEFINE f == [held EXCEPT ![h] = held[g], ![g] = held[h]]
  <2>1. f \in Held /\ f[h] = held[g] /\ f[g] = held[h]
        /\ \A k \in Handles : k # h /\ k # g => f[k] = held[k]
    BY <1>1 DEF Held
  <2> QED
    BY <2>1
<1>6. ptr'[h] = ptr[g] /\ ptr'[g] = ptr[h] /\ \A k \in Handles : k # h /\ k # g => ptr'[k] = ptr[k]
  BY <1>1 DEF Typed
<1>7. \A s \in Owners : Items(s)' = Items(s)
  BY DEF Items
<1>8. Changed(held, e, t)
  <2>1. \A k \in Handles : e[k] \in Use[k] \cup {Null}
    BY <1>3, <1>4 DEF HInv, Counting
  <2>2. \A k \in Handles : Owner[k] # t => ptr'[k] = ptr[k] /\ e[k] = held[k]
    BY <1>4, <1>6
  <2>3. ASSUME NEW p \in Objs, Knows(e, t, p)'
        PROVE  Knows(held, t, p)
    BY <2>3, <1>1, <1>4, <1>6, <1>7 DEF Knows
  <2>4. ASSUME NEW p \in Objs, Knows(held, t, p)
        PROVE  status'[p] = "alive"
    BY <2>4 DEF HInv, Living
  <2> QED
    BY <2>1, <2>2, <2>3, <2>4, <1>7 DEF Changed
<1>9. Counts(e)'
  <2>1. ASSUME NEW hs \in {Strong, Weaks}, NEW p \in Objs
        PROVE  Counted1(e, hs, p) = Counted1(held, hs, p)
    <3>1. hs \in SUBSET Handles /\ (h \in hs <=> g \in hs)
      BY DEF Strong, Handles
    <3>2. \A k \in hs : k # h /\ k # g => e[k] = held[k]
      BY <3>1, <1>4
    <3>3. e[h] = held[g] /\ e[g] = held[h]
      BY <1>4
    <3> QED
      BY <3>1, <3>2, <3>3, <1>1, CountSwap
  <2> QED
    BY <2>1 DEF Counts, HInv, Counting
<1>10. ASSUME NEW u \in Uniques, NEW k \in Strong, k # u, e[u] # Null
       PROVE  e[k] # e[u]
  <2> DEFINE P(i) == IF i = h THEN g ELSE IF i = g THEN h ELSE i
  <2>1. u \in Handles /\ k \in Handles
    BY DEF Strong, Handles
  <2>2. e[u] = held[P(u)] /\ e[k] = held[P(k)]
    BY <2>1, <1>4
  <2>3. P(u) # P(k) /\ P(u) \in Uniques /\ P(k) \in Strong
    BY <1>10 DEF Strong
  <2> HIDE DEF P
  <2> QED
    BY <2>2, <2>3, <1>10 DEF HInv, Counting
<1>11. \A k \in Handles : Owner[k] = t => e[k] = ptr'[k]
  <2> TAKE k \in Handles
  <2>1. CASE k = h \/ k = g
    BY <2>1, <1>3, <1>4, <1>6
  <2>2. Owner[k] = t => held[k] = ptr[k]
    BY <1>2, CountedAsHeld
  <2>3. CASE k # h /\ k # g
    BY <2>2, <2>3, <1>4, <1>6
  <2> QED
    BY <2>1, <2>3
<1>12. \A k \in Handles : \E i \in Handles : e[i] = held[k]
  BY <1>1, <1>4
<1>13. \A p \in Objs : status'[p] = status[p]
  OBVIOUS
<1>14. Items(t)' = {}
  BY <1>7
<1>15. HInv(e)'
  <2>1. \A u \in Uniques, k \in Strong : k # u /\ e[u] # Null => e[k] # e[u]
    BY <1>10
  <2>2. \A k \in Handles : Owner[k] = t /\ Quiet(k)' => e[k] = ptr'[k]
    BY <1>11
  <2>3. \A p \in Objs : \/ status'[p] = status[p]
                        \/ status[p] = "none" /\ \E y \in Items(t)' : y.op \in AcqOps /\ y.obj = p
    BY <1>13
  <2>4. \A y \in Items(t)' : Item(e, t, y)'
    BY <1>14
  <2>5. Rescheduled(held, e, t)
    BY <2>1, <2>2, <2>3, <2>4, <1>9, <1>12 DEF Rescheduled
  <2> QED
    BY <2>5, <1>2, <1>8, Anew
<1> QED
  BY <1>4, <1>15

\* lock() has read the pointer of a weak handle.
LEMMA WillLock ==
    ASSUME Typed, NEW held, HInv(held), NEW t \in Owners, Items(t) = {},
           NEW h \in RCs, NEW w \in Weaks, Owner[h] = t, Owner[w] = t,
           ptr[h] = Null, ptr[w] \in Use[h],
           NEW d, d.op = "lock", d.obj = ptr[w], d.h = h, Items(t)' = {d},
           \A s \in Owners : s # t => Items(s)' = Items(s),
           UNCHANGED <<ptr, counter, weak_counter, status>>
    PROVE  HInv(held)'
<1> USE HandlesAssumption
<1>1. h \in Handles /\ w \in Handles
  BY DEF Handles
<1>2. Still(t)
  BY DEF Still
<1>3. held[w] = ptr[w] /\ ptr[w] \in Objs
  BY <1>1, <1>2, CountedAsHeld
<1>4. Changed(held, held, t)
  <2>1. ASSUME NEW p \in Objs, Knows(held, t, p)'
        PROVE  Knows(held, t, p)
    BY <2>1, <1>1 DEF Knows
  <2>2. ASSUME NEW p \in Objs, Knows(held, t, p)
        PROVE  status'[p] = "alive"
    BY <2>2 DEF HInv, Living
  <2> QED
    BY <2>1, <2>2 DEF Changed, HInv, Counting
<1>5. \A k \in Handles : Owner[k] = t => held[k] = ptr'[k]
  BY <1>2, CountedAsHeld
<1>6. Item(held, t, d)'
  <2>1. Locking(held, t, d)'
    BY <1>3 DEF Locking
  <2> QED
    BY <2>1 DEF Item, Releasing, Detaching, Acquiring, Clearing, Granted, Deciding, RelOps, AcqOps
<1>7. \A p \in Objs : status'[p] = status[p]
  OBVIOUS
<1> QED
  BY <1>2, <1>4, <1>5, <1>6, <1>7, AnewHeld

\* R and a are what reset(p) does to the counters; Z is what the operation does
\* besides: it clears another handle at the end or has detached one at the beginning.
Resetting(h, p, R, a) ==
    /\ a.op = AcquireOp(h) /\ a.obj = p /\ a.h = h
    /\ \/ ptr[h] = Null /\ R = {}
       \/ /\ ptr[h] # Null
          /\ \E r \in R : R = {r} /\ r.op = ReleaseOp(h) /\ r.obj = ptr[h] /\ r.h = h
Besides(held, t, h, p, Z) ==
    \A z \in Z : /\ z.op \in {"detach", "clear"} /\ z.h # h
                 /\ z.obj = p \/ z.obj \notin Objs
                 /\ Item(held, t, z)'
Pointed(t, h, p, Z) ==
    /\ ptr' \in [Handles -> Objs \cup {Null}] /\ ptr'[h] = p
    /\ \A k \in Handles : \/ k = h \/ ptr'[k] = ptr[k]
                          \/ ptr'[k] = Null /\ \E z \in Z : z.op = "detach" /\ z.h = k
    /\ \A k \in Handles : Owner[k] # t => ptr'[k] = ptr[k]
Supplied(held, t, p, a) ==
    /\ \/ status' = status /\ Knows(held, t, p)
       \/ status[p] = "none" /\ status' = [status EXCEPT ![p] = "alive"]
    /\ \/ Source(held, t, a)'
       \/ Alone(held, t, p) /\ (Alone(held, t, p)' => Sole(held, t, a)')

\* A handle is reset to p.
LEMMA Resets ==
    ASSUME Typed, NEW held, HInv(held), NEW t \in Owners, Items(t) = {},
           NEW h \in Handles, Owner[h] = t, NEW p \in Use[h],
           NEW a, NEW R, NEW Z, Resetting(h, p, R, a), Besides(held, t, h, p, Z),
           Pointed(t, h, p, Z), Supplied(held, t, p, a),
           UNCHANGED <<counter, weak_counter>>,
           \A s \in Owners : s # t => Items(s)' = Items(s), Items(t)' = R \cup {a} \cup Z
    PROVE  HInv(held)'
<1> USE HandlesAssumption DEF Resetting, Besides, Pointed, Supplied
<1>1. Still(t) /\ p \in Objs /\ held[h] = ptr[h] /\ ptr[h] \in Objs \cup {Null}
  <2>1. Still(t)
    BY DEF Still
  <2> QED
    BY <2>1, CountedAsHeld DEF Typed
<1>2. a.op \in AcqOps
  BY DEF AcquireOp, AcqOps, Handles
<1>3. \A r \in R : /\ ptr[h] # Null /\ r.op \in RelOps /\ r.op # "detach"
                   /\ r.obj = ptr[h] /\ r.h = h
  BY DEF ReleaseOp, RelOps
<1>4. status'[p] = "alive" /\ \A q \in Objs : q # p => status'[q] = status[q]
  BY <1>1 DEF Typed, HInv, Living
<1>5. Changed(held, held, t)
  <2>1. ASSUME NEW q \in Objs, Knows(held, t, q)', q # p
        PROVE  Knows(held, t, q)
    <3>1. ASSUME NEW y \in Items(t)', y.obj = q PROVE held[h] = q
      BY <3>1, <2>1, <1>1, <1>3
    <3>2. ASSUME NEW k \in Handles, ptr'[k] = q PROVE ptr[k] = q
      BY <3>2, <2>1
    <3> QED
      BY <3>1, <3>2, <2>1 DEF Knows
  <2>2. ASSUME NEW q \in Objs, Knows(held, t, q)
        PROVE  status[q] = "alive"
    BY <2>2 DEF HInv, Living
  <2>3. Knows(held, t, p) \/ status[p] = "none"
    OBVIOUS
  <2> QED
    BY <2>1, <2>2, <2>3, <1>4 DEF Changed, HInv, Counting
<1>6. ASSUME NEW k \in Handles, Owner[k] = t, Quiet(k)'
      PROVE  held[k] = ptr'[k]
  <2>1. k # h
    BY <1>2, <1>6 DEF Quiet
  <2>2. \A z \in Z : z.op = "detach" => z.h # k
    BY <1>6 DEF Quiet, RelOps
  <2>3. ptr'[k] = ptr[k]
    BY <2>1, <2>2
  <2> QED
    BY <2>3, <1>1, <1>6, CountedAsHeld
<1>7. \A q \in Objs : \/ status'[q] = status[q]
                      \/ status[q] = "none" /\ \E y \in Items(t)' : y.op \in AcqOps /\ y.obj = q
  BY <1>2, <1>4
<1>8. ASSUME NEW r \in R
      PROVE  Item(held, t, r)'
  <2>1. Releasing(held, t, r)'
    BY <1>1, <1>2, <1>3 DEF Releasing
  <2> QED
    BY <2>1, <1>3 DEF Item, Detaching, Acquiring, Locking, Clearing, Granted, Deciding, RelOps, AcqOps
<1>9. Item(held, t, a)'
  <2>1. Acquiring(held, t, a)'
    BY <1>1, <1>3 DEF Acquiring
  <2>2. Undisturbed(held, held, t)
    BY <1>5, ChangedAlone
  <2>3. Granted(held, t, a)'
    BY <2>2, <1>1 DEF Granted, Undisturbed
  <2> QED
    BY <2>1, <2>3, <1>2 DEF Item, Releasing, Detaching, Locking, Clearing, Deciding, RelOps, AcqOps
<1>10. \A y \in Items(t)' : Item(held, t, y)'
  BY <1>8, <1>9
<1> QED
  BY <1>1, <1>5, <1>6, <1>7, <1>10, AnewHeld

-----------------------------------------------------------------------------
(* The accesses of the specification.                                      *)

OrderedThen ==
    /\ todo' \in [Owners -> Seq(Accesses)]
    /\ \A s \in Owners : Sorted(todo'[s])
    /\ \A s \in Owners : \A x \in ItemsOf(todo'[s]) : Fits(s, x)

\* The invariant of the next state, from its parts.
LEMMA IInvThen ==
    ASSUME ptr' \in [Handles -> Objs \cup {Null}],
           \A h \in Handles : ptr'[h] \in Use[h] \cup {Null},
           counter' \in [Objs -> Nat], weak_counter' \in [Objs -> Nat],
           status' \in [Objs -> {"none", "alive", "deleted"}], faults' = {},
           OrderedThen, NEW e \in Held, HInv(e)'
    PROVE  IInv'
<1>1. Typed'
  BY DEF Typed, Items, OrderedThen
<1> QED
  BY <1>1 DEF IInv

\* A step takes the first access off the list, and one that ranks as low may replace it.
LEMMA Turn ==
    ASSUME Typed, NEW t \in Owners, NEW op, NEW then, Step(t, op, then),
           NEW x, x = Head(todo[t]), NEW D,
           \/ then = <<>> /\ D = {}
           \/ \E d \in Accesses :
                /\ then = <<d>> /\ D = {d} /\ Fits(t, d)
                /\ Rank(d.op) <= Rank(op) \/ \A y \in Items(t) : y = x
    PROVE  x.op = op /\ x \in Accesses /\ Fits(t, x) /\ Done(t, x, D) /\ OrderedThen
<1>1. todo[t] # <<>> /\ x.op = op /\ todo' = [todo EXCEPT ![t] = then \o Tail(@)]
  BY DEF Step
<1>2. First(t, x) /\ x \in Accesses
  <2>1. todo[t] \in Seq(Accesses) /\ Sorted(todo[t])
    BY Listed
  <2>2. /\ x \in ItemsOf(todo[t]) /\ x \in Accesses
        /\ \A y \in ItemsOf(todo[t]) : y # x => Rank(x.op) < Rank(y.op)
    BY <1>1, <2>1, HeadAndTail
  <2> QED
    BY <2>2 DEF First, Items
<1>3. Fits(t, x)
  BY <1>2, Listed DEF First
<1>4. \/ then = <<>> /\ D = {}
      \/ \E d \in Accesses :
           /\ then = <<d>> /\ D = {d} /\ Fits(t, d)
           /\ \A y \in Items(t) : y # Head(todo[t]) => Rank(d.op) < Rank(y.op)
  <2>1. CASE then = <<>> /\ D = {}
    BY <2>1
  <2>2. ASSUME NEW d \in Accesses,
               then = <<d>> /\ D = {d} /\ Fits(t, d),
               Rank(d.op) <= Rank(op) \/ \A y \in Items(t) : y = x
        PROVE  \A y \in Items(t) : y # Head(todo[t]) => Rank(d.op) < Rank(y.op)
    <3> SUFFICES ASSUME NEW y \in Items(t), y # x PROVE Rank(d.op) < Rank(y.op)
      OBVIOUS
    <3>1. Rank(op) < Rank(y.op)
      BY <1>1, <1>2 DEF First
    <3> QED
      BY <3>1, <2>2, RankType
  <2> QED
    BY <2>1, <2>2
<1>5. /\ OrderedThen
      /\ \A s \in Owners : s # t => ItemsOf(todo'[s]) = Items(s)
      /\ ItemsOf(todo'[t]) = (Items(t) \ {Head(todo[t])}) \cup D
  BY <1>1, <1>4, StepItems DEF OrderedThen
<1>6. Done(t, x, D)
  BY <1>2, <1>5 DEF Done, Items
<1> QED
  BY <1>1, <1>2, <1>3, <1>5, <1>6

\* An access finds its object alive and adds no fault.
LEMMA NoFault ==
    ASSUME Typed, NEW held, HInv(held), NEW t \in Owners, NEW x \in Items(t), x.op # "clear",
           x = Head(todo[t])
    PROVE  /\ Touch(t) => faults' = {}
           /\ Obj(t) = x.obj /\ x.obj \in Objs /\ status[x.obj] = "alive"
<1>1. x.obj \in Objs /\ status[x.obj] = "alive"
  BY Known
<1> QED
  BY <1>1 DEF Touch, Obj, Typed

\* The handles are strong or weak, and their class says how they acquire.
LEMMA Together ==
    /\ Strong \in SUBSET Handles /\ Weaks \in SUBSET Handles
    /\ \A h \in Handles : h \in Strong <=> h \notin Weaks
    /\ \A h \in Handles : AcquireOp(h) = "add_ref" <=> h \in RCs
    /\ \A h \in Handles : AcquireOp(h) = "set_unique" <=> h \in Uniques
    /\ \A h \in Handles : AcquireOp(h) = "weak_add_ref" <=> h \in Weaks
BY HandlesAssumption DEF Strong, Handles, AcquireOp

\* What is counted once one handle more, or one less, holds o.
LEMMA OneMore ==
    ASSUME NEW held \in Held, NEW hs \in SUBSET Handles, NEW h \in hs, NEW o \in Objs,
           held[h] = Null, NEW e, e[h] = o, \A g \in Handles : g # h => e[g] = held[g]
    PROVE  /\ \A p \in Objs : Counted1(held, hs, p) \in Nat
           /\ Counted1(e, hs, o) = Add(Counted1(held, hs, o), 1)
           /\ \A p \in Objs : p # o => Counted1(e, hs, p) = Counted1(held, hs, p)
           /\ \A gs \in SUBSET Handles : h \notin gs =>
                 \A p \in Objs : Counted1(e, gs, p) = Counted1(held, gs, p)
<1>1. e[h] = o /\ \A g \in Handles : g # h => e[g] = held[g]
  OBVIOUS
<1>2. held[h] # o
  BY HandlesAssumption
<1>3. \A p \in Objs : Counted1(held, hs, p) \in Nat
  BY Finite
<1>4. /\ Counted1(e, hs, o) = Counted1(held, hs, o) + 1
      /\ Counted1(held, hs, o) < Cardinality(Handles)
  <2>1. \A g \in hs : g # h => (e[g] = o <=> held[g] = o)
    BY <1>1
  <2>2. Gained(held, e, hs, h, o)
    BY <2>1, <1>1, <1>2 DEF Gained
  <2> QED
    BY <2>2, CountMore
<1>5. Counted1(e, hs, o) = Add(Counted1(held, hs, o), 1)
  BY <1>3, <1>4, NoWrap
<1>6. ASSUME NEW p \in Objs, p # o PROVE Counted1(e, hs, p) = Counted1(held, hs, p)
  <2>1. \A g \in hs : held[g] = p <=> e[g] = p
    BY <1>1, <1>6, HandlesAssumption
  <2> QED
    BY <2>1, CountSame
<1>7. ASSUME NEW gs \in SUBSET Handles, h \notin gs, NEW p \in Objs
      PROVE  Counted1(e, gs, p) = Counted1(held, gs, p)
  <2>1. \A g \in gs : held[g] = p <=> e[g] = p
    BY <1>1, <1>7
  <2> QED
    BY <2>1, CountSame
<1> QED
  BY <1>3, <1>5, <1>6, <1>7

\* What is counted once the handle h has let go of o.
LEMMA OneLess ==
    ASSUME NEW held \in Held, NEW hs \in SUBSET Handles, NEW h \in hs, NEW o \in Objs,
           held[h] = o, NEW e, e[h] = Null, \A g \in Handles : g # h => e[g] = held[g]
    PROVE  /\ \A p \in Objs : Counted1(held, hs, p) \in Nat
           /\ Add(Counted1(held, hs, o), -1) \in Nat
           /\ Counted1(e, hs, o) = Add(Counted1(held, hs, o), -1)
           /\ Counted1(held, hs, o) = 1 <=> \A g \in hs : e[g] # o
           /\ \A p \in Objs : p # o => Counted1(e, hs, p) = Counted1(held, hs, p)
           /\ \A gs \in SUBSET Handles : h \notin gs =>
                 \A p \in Objs : Counted1(e, gs, p) = Counted1(held, gs, p)
<1>1. e[h] = Null /\ \A g \in Handles : g # h => e[g] = held[g]
  OBVIOUS
<1>2. e[h] # o
  BY <1>1, HandlesAssumption
<1>3. \A p \in Objs : Counted1(held, hs, p) \in Nat /\ Counted1(e, hs, p) \in Nat
  BY Finite
<1>4. Counted1(e, hs, o) = Counted1(held, hs, o) - 1
  <2>1. \A g \in hs : g # h => (held[g] = o <=> e[g] = o)
    BY <1>1
  <2>2. Gained(e, held, hs, h, o)
    BY <2>1, <1>2 DEF Gained
  <2> QED
    BY <2>2, CountMore
<1>5. Counted1(held, hs, o) <= Cardinality(Handles)
  BY Finite
<1>6. Counted1(held, hs, o) > 0
  BY <1>3, <1>4
<1>7. Add(Counted1(held, hs, o), -1) = Counted1(held, hs, o) - 1
  BY <1>3, <1>5, <1>6, NoWrap
<1>8. Counted1(held, hs, o) = 1 <=> \A g \in hs : e[g] # o
  <2>1. Counted1(held, hs, o) = 1 <=> \A g \in hs : held[g] = o => g = h
    BY CountOne
  <2> QED
    BY <2>1, <1>1, <1>2
<1>9. ASSUME NEW p \in Objs, p # o PROVE Counted1(e, hs, p) = Counted1(held, hs, p)
  <2>1. \A g \in hs : held[g] = p <=> e[g] = p
    BY <1>1, <1>9, HandlesAssumption
  <2> QED
    BY <2>1, CountSame
<1>10. ASSUME NEW gs \in SUBSET Handles, h \notin gs, NEW p \in Objs
       PROVE  Counted1(e, gs, p) = Counted1(held, gs, p)
  <2>1. \A g \in gs : held[g] = p <=> e[g] = p
    BY <1>1, <1>10
  <2> QED
    BY <2>1, CountSame
<1> QED
  BY <1>3, <1>4, <1>7, <1>8, <1>9, <1>10

\* What the handles hold when one of them, h, takes up o.
LEMMA Hold ==
    ASSUME NEW held \in Held, NEW h \in Handles, NEW o \in Objs \cup {Null}
    PROVE  \E e \in Held : e[h] = o /\ \A g \in Handles : g # h => e[g] = held[g]
<1> DEFINE e == [held EXCEPT ![h] = o]
<1>1. e \in Held /\ e[h] = o /\ \A g \in Handles : g # h => e[g] = held[g]
  BY DEF Held
<1> QED
  BY <1>1

\* The invariant after an acquiring access that has counted its handle.
LEMMA AfterAcquire ==
    ASSUME Typed, NEW held \in Held, HInv(held), NEW t \in Owners, NEW x, x = Head(todo[t]),
           Done(t, x, {}), OrderedThen, x.op \in AcqOps, UNCHANGED <<ptr, status>>, Touch(t),
           counter' \in [Objs -> Nat], weak_counter' \in [Objs -> Nat],
           NEW e \in Held, e[x.h] = x.obj, \A g \in Handles : g # x.h => e[g] = held[g],
           Counts(e)'
    PROVE  IInv'
<1>1. First(t, x)
  BY DEF Done
<1>2. x \in Items(t) /\ x.op # "clear" /\ x.h \in Handles /\ x.obj \in Objs
  BY <1>1, NotYet DEF AcqOps
<1>3. faults' = {}
  BY <1>2, NoFault
<1>4. HInv(e)'
  BY Acquires
<1>5. /\ ptr' \in [Handles -> Objs \cup {Null}]
      /\ \A h \in Handles : ptr'[h] \in Use[h] \cup {Null}
      /\ status' \in [Objs -> {"none", "alive", "deleted"}]
  BY DEF Typed
<1> QED
  BY <1>3, <1>4, <1>5, IInvThen

\* rc_add_ref.
LEMMA AddRefKeeps ==
    ASSUME IInv, NEW t \in Owners, AddRef(t)
    PROVE  IInv'
<1> PICK held \in Held : HInv(held)
  BY DEF IInv
<1> PICK x : x = Head(todo[t])
  OBVIOUS
<1>1. Typed
  BY DEF IInv
<1>2. x.op = "add_ref" /\ Fits(t, x) /\ Done(t, x, {}) /\ OrderedThen
  BY <1>1, Turn DEF AddRef
<1>3. x.op \in AcqOps /\ x.h \in RCs
  BY <1>2, Together DEF Fits, AcqOps, HandleOps
<1>4. x.h \in Handles /\ held[x.h] = Null /\ x.obj \in Objs
  BY <1>1, <1>2, <1>3, NotYet DEF Done
<1>5. PICK e \in Held : e[x.h] = x.obj /\ \A g \in Handles : g # x.h => e[g] = held[g]
  BY <1>4, Hold
<1>6. /\ x.h \in Strong /\ x.h \notin Weaks
      /\ Strong \in SUBSET Handles /\ Weaks \in SUBSET Handles
  BY <1>3, <1>4, Together DEF Strong
<1>7. /\ \A p \in Objs : Counted1(held, Strong, p) \in Nat
      /\ Counted1(e, Strong, x.obj) = Add(Counted1(held, Strong, x.obj), 1)
      /\ \A p \in Objs : p # x.obj => Counted1(e, Strong, p) = Counted1(held, Strong, p)
      /\ \A p \in Objs : Counted1(e, Weaks, p) = Counted1(held, Weaks, p)
  BY <1>4, <1>5, <1>6, OneMore
<1>8. counter' = [counter EXCEPT ![x.obj] = Add(@, 1)] /\ weak_counter' = weak_counter
      /\ UNCHANGED <<ptr, status>> /\ Touch(t)
  BY DEF AddRef, Obj
<1>9. \A p \in Objs : counter[p] = Counted1(held, Strong, p)
                      /\ weak_counter[p] = Counted1(held, Weaks, p)
  BY DEF HInv, Counting
<1>10. Counts(e)'
  <2>1. \A p \in Objs : counter'[p] = Counted1(e, Strong, p)
    BY <1>1, <1>4, <1>7, <1>8, <1>9 DEF Typed
  <2>2. \A p \in Objs : weak_counter'[p] = Counted1(e, Weaks, p)
    BY <1>7, <1>8, <1>9
  <2> QED
    BY <2>1, <2>2 DEF Counts
<1>11. Counted1(e, Strong, x.obj) \in Nat
  BY <1>6, Finite
<1>12. counter' \in [Objs -> Nat] /\ weak_counter' \in [Objs -> Nat]
  BY <1>1, <1>4, <1>7, <1>8, <1>9, <1>11 DEF Typed
<1> QED
  BY <1>1, <1>2, <1>3, <1>5, <1>8, <1>10, <1>12, AfterAcquire

\* rc_weak_add_ref.
LEMMA WeakAddRefKeeps ==
    ASSUME IInv, NEW t \in Owners, WeakAddRef(t)
    PROVE  IInv'
<1> PICK held \in Held : HInv(held)
  BY DEF IInv
<1> PICK x : x = Head(todo[t])
  OBVIOUS
<1>1. Typed
  BY DEF IInv
<1>2. x.op = "weak_add_ref" /\ Fits(t, x) /\ Done(t, x, {}) /\ OrderedThen
  BY <1>1, Turn DEF WeakAddRef
<1>3. x.op \in AcqOps /\ x.h \in Weaks
  BY <1>2, Together DEF Fits, AcqOps, HandleOps
<1>4. x.h \in Handles /\ held[x.h] = Null /\ x.obj \in Objs
  BY <1>1, <1>2, <1>3, NotYet DEF Done
<1>5. PICK e \in Held : e[x.h] = x.obj /\ \A g \in Handles : g # x.h => e[g] = held[g]
  BY <1>4, Hold
<1>6. /\ x.h \notin Strong
      /\ Strong \in SUBSET Handles /\ Weaks \in SUBSET Handles
  BY <1>3, <1>4, Together
<1>7. /\ \A p \in Objs : Counted1(held, Weaks, p) \in Nat
      /\ Counted1(e, Weaks, x.obj) = Add(Counted1(held, Weaks, x.obj), 1)
      /\ \A p \in Objs : p # x.obj => Counted1(e, Weaks, p) = Counted1(held, Weaks, p)
      /\ \A p \in Objs : Counted1(e, Strong, p) = Counted1(held, Strong, p)
  BY <1>3, <1>4, <1>5, <1>6, OneMore
<1>8. weak_counter' = [weak_counter EXCEPT ![x.obj] = Add(@, 1)] /\ counter' = counter
      /\ UNCHANGED <<ptr, status>> /\ Touch(t)
  BY DEF WeakAddRef, Obj
<1>9. \A p \in Objs : counter[p] = Counted1(held, Strong, p)
                      /\ weak_counter[p] = Counted1(held, Weaks, p)
  BY DEF HInv, Counting
<1>10. Counts(e)'
  <2>1. \A p \in Objs : weak_counter'[p] = Counted1(e, Weaks, p)
    BY <1>1, <1>4, <1>7, <1>8, <1>9 DEF Typed
  <2>2. \A p \in Objs : counter'[p] = Counted1(e, Strong, p)
    BY <1>7, <1>8, <1>9
  <2> QED
    BY <2>1, <2>2 DEF Counts
<1>11. Counted1(e, Weaks, x.obj) \in Nat
  BY <1>6, Finite
<1>12. counter' \in [Objs -> Nat] /\ weak_counter' \in [Objs -> Nat]
  BY <1>1, <1>4, <1>7, <1>8, <1>9, <1>11 DEF Typed
<1> QED
  BY <1>1, <1>2, <1>3, <1>5, <1>8, <1>10, <1>12, AfterAcquire

\* An RCUnique sets the counter to 1, which is right because nothing else holds
\* the object.
LEMMA SetUniqueKeeps ==
    ASSUME IInv, NEW t \in Owners, SetUnique(t)
    PROVE  IInv'
<1> PICK held \in Held : HInv(held)
  BY DEF IInv
<1> PICK x : x = Head(todo[t])
  OBVIOUS
<1>1. Typed
  BY DEF IInv
<1>2. x.op = "set_unique" /\ Fits(t, x) /\ Done(t, x, {}) /\ OrderedThen
  BY <1>1, Turn DEF SetUnique
<1>3. x.op \in AcqOps /\ x.h \in Uniques
  BY <1>2, Together DEF Fits, AcqOps, HandleOps
<1>4. /\ x.h \in Handles /\ held[x.h] = Null /\ x.obj \in Objs
      /\ Sole(held, t, x) => \A g \in Handles : held[g] # x.obj
      /\ Source(held, t, x) \/ Sole(held, t, x)
  BY <1>1, <1>2, <1>3, NotYet DEF Done
<1>5. PICK e \in Held : e[x.h] = x.obj /\ \A g \in Handles : g # x.h => e[g] = held[g]
  BY <1>4, Hold
<1>6. /\ x.h \in Strong /\ x.h \notin Weaks
      /\ Strong \in SUBSET Handles /\ Weaks \in SUBSET Handles
  BY <1>3, <1>4, Together DEF Strong
<1>7. /\ \A p \in Objs : p # x.obj => Counted1(e, Strong, p) = Counted1(held, Strong, p)
      /\ \A p \in Objs : Counted1(e, Weaks, p) = Counted1(held, Weaks, p)
  BY <1>4, <1>5, <1>6, OneMore
<1>8. Counted1(e, Strong, x.obj) = 1
  <2>1. ~Source(held, t, x)
    BY <1>3 DEF Source
  <2>2. \A g \in Strong : e[g] = x.obj => g = x.h
    BY <2>1, <1>4, <1>5, <1>6
  <2>3. ASSUME NEW o, NEW h \in Strong, e[h] = o, \A g \in Strong : e[g] = o => g = h
        PROVE  Counted1(e, Strong, o) = 1
    BY <2>3, <1>6, CountOne
  <2> QED
    BY <2>2, <2>3, <1>5, <1>6
<1>9. counter' = [counter EXCEPT ![x.obj] = 1] /\ weak_counter' = weak_counter
      /\ UNCHANGED <<ptr, status>> /\ Touch(t)
  BY DEF SetUnique, Obj
<1>10. \A p \in Objs : counter[p] = Counted1(held, Strong, p)
                       /\ weak_counter[p] = Counted1(held, Weaks, p)
  BY DEF HInv, Counting
<1>11. Counts(e)'
  <2>1. \A p \in Objs : counter'[p] = Counted1(e, Strong, p)
    BY <1>1, <1>4, <1>7, <1>8, <1>9, <1>10 DEF Typed
  <2>2. \A p \in Objs : weak_counter'[p] = Counted1(e, Weaks, p)
    BY <1>7, <1>9, <1>10
  <2> QED
    BY <2>1, <2>2 DEF Counts
<1>12. counter' \in [Objs -> Nat] /\ weak_counter' \in [Objs -> Nat]
  BY <1>1, <1>4, <1>9 DEF Typed
<1> QED
  BY <1>1, <1>2, <1>3, <1>5, <1>9, <1>11, <1>12, AfterAcquire

\* The access of a step comes first in its list and fits its thread.
LEMMA AtHead ==
    ASSUME Typed, NEW t \in Owners, NEW op, NEW then, Step(t, op, then), NEW x, x = Head(todo[t])
    PROVE  /\ First(t, x) /\ x \in Items(t) /\ x.op = op /\ Obj(t) = x.obj /\ Fits(t, x)
           /\ op # "clear" => x.obj \in Objs
           /\ op \in HandleOps => x.h \in Handles /\ Owner[x.h] = t
<1>1. todo[t] # <<>> /\ x.op = op
  BY DEF Step
<1>2. First(t, x)
  <2>1. todo[t] \in Seq(Accesses) /\ Sorted(todo[t])
    BY Listed
  <2>2. x \in ItemsOf(todo[t]) /\ \A y \in ItemsOf(todo[t]) : y # x => Rank(x.op) < Rank(y.op)
    BY <1>1, <2>1, HeadAndTail
  <2> QED
    BY <2>2 DEF First, Items
<1>3. x \in Items(t)
  BY <1>2 DEF First
<1> QED
  BY <1>1, <1>2, <1>3, Listed, Kinds DEF Obj

\* The access that decides about an object, as an item of a list.
LEMMA Decision ==
    ASSUME NEW t \in Owners, NEW o \in Objs, NEW op \in Decisions
    PROVE  \E d \in Accesses : /\ Do(op, o) = <<d>> /\ d.op = op /\ d.obj = o
                               /\ Fits(t, d) /\ Rank(d.op) = 2
<1> DEFINE d == [op |-> op, obj |-> o, h |-> Null]
<1>1. d \in Accesses
  BY DEF Accesses, Ops
<1>2. Do(op, o) = <<d>>
  BY DEF Do, DoFor
<1>3. d.op = op /\ d.obj = o
  OBVIOUS
<1> HIDE DEF d
<1>4. Fits(t, d)
  BY <1>3 DEF Fits, Decisions, HandleOps, RelOps, AcqOps
<1>5. Rank(d.op) = 2
  BY <1>3 DEF Rank, Decisions, AcqOps
<1> QED
  BY <1>1, <1>2, <1>3, <1>4, <1>5

\* The invariant after a releasing access that has counted its handle out.
LEMMA AfterLetsGo ==
    ASSUME Confined, Typed, NEW held \in Held, HInv(held), NEW t \in Owners,
           NEW x, x = Head(todo[t]), NEW D, Done(t, x, D), OrderedThen, x.op \in RelOps,
           UNCHANGED <<ptr, status>>, Touch(t),
           counter' \in [Objs -> Nat], weak_counter' \in [Objs -> Nat],
           NEW e \in Held, e[x.h] = Null, \A g \in Handles : g # x.h => e[g] = held[g],
           Counts(e)',
           Settled(x, D, e)
    PROVE  IInv'
<1>1. HInv(e)'
  BY LetsGo
<1>2. x \in Items(t) /\ x.op # "clear"
  BY DEF Done, First, RelOps
<1>3. faults' = {}
  BY <1>2, NoFault
<1>4. /\ ptr' \in [Handles -> Objs \cup {Null}]
      /\ \A h \in Handles : ptr'[h] \in Use[h] \cup {Null}
      /\ status' \in [Objs -> {"none", "alive", "deleted"}]
  BY DEF Typed
<1> QED
  BY <1>1, <1>3, <1>4, IInvThen

\* A decision takes the place of the access that asked for it.
LEMMA TurnTo ==
    ASSUME Typed, NEW t \in Owners, NEW op \in {"release", "weak_release", "weak_count", "count"},
           NEW then, Step(t, op, then), NEW x, x = Head(todo[t]),
           NEW d \in Accesses, then = <<d>>, Fits(t, d), Rank(d.op) = 2
    PROVE  Done(t, x, {d}) /\ OrderedThen
<1>1. Rank(op) = 2
  BY DEF Rank, AcqOps
<1>2. \E c \in Accesses : then = <<c>> /\ {d} = {c} /\ Fits(t, c) /\ Rank(c.op) <= Rank(op)
  BY <1>1
<1> QED
  BY <1>2, Turn

\* The handle that releases an object is the one whose counter goes down.
LEMMA CountsLess ==
    ASSUME Typed, NEW held \in Held, HInv(held), NEW t \in Owners, NEW x \in Items(t),
           x.op \in RelOps
    PROVE  \E e \in Held :
             /\ e[x.h] = Null /\ \A g \in Handles : g # x.h => e[g] = held[g]
             /\ x.h \in Strong =>
                  /\ Add(counter[x.obj], -1) \in Nat
                  /\ counter[x.obj] = 1 <=> \A g \in Strong : e[g] # x.obj
                  /\ \A p \in Objs : Counted1(e, Strong, p) =
                        [counter EXCEPT ![x.obj] = Add(@, -1)][p]
                  /\ \A p \in Objs : Counted1(e, Weaks, p) = weak_counter[p]
             /\ x.h \in Weaks =>
                  /\ Add(weak_counter[x.obj], -1) \in Nat
                  /\ weak_counter[x.obj] = 1 <=> \A g \in Weaks : e[g] # x.obj
                  /\ \A p \in Objs : Counted1(e, Weaks, p) =
                        [weak_counter EXCEPT ![x.obj] = Add(@, -1)][p]
                  /\ \A p \in Objs : Counted1(e, Strong, p) = counter[p]
<1>1. PICK h \in Handles : h = x.h
  BY Kinds DEF HandleOps
<1>2. PICK o \in Objs : o = x.obj
  BY Known DEF RelOps
<1>3. held[h] = o
  BY <1>1, <1>2 DEF HInv, Scheduled, Item, Releasing
<1>4. PICK e \in Held : e[h] = Null /\ \A g \in Handles : g # h => e[g] = held[g]
  <2>1. Null \in Objs \cup {Null}
    OBVIOUS
  <2> QED
    BY <2>1, Hold
<1>5. \A p \in Objs : counter[p] = Counted1(held, Strong, p)
                      /\ weak_counter[p] = Counted1(held, Weaks, p)
  BY DEF HInv, Counting
<1>6. counter \in [Objs -> Nat] /\ weak_counter \in [Objs -> Nat]
  BY DEF Typed
<1>7. ASSUME h \in Strong
      PROVE  /\ Add(counter[o], -1) \in Nat
             /\ counter[o] = 1 <=> \A g \in Strong : e[g] # o
             /\ \A p \in Objs : Counted1(e, Strong, p) = [counter EXCEPT ![o] = Add(@, -1)][p]
             /\ \A p \in Objs : Counted1(e, Weaks, p) = weak_counter[p]
  <2>1. Strong \in SUBSET Handles /\ Weaks \in SUBSET Handles /\ h \notin Weaks
    BY <1>7, Together
  <2>2. /\ Add(Counted1(held, Strong, o), -1) \in Nat
        /\ Counted1(e, Strong, o) = Add(Counted1(held, Strong, o), -1)
        /\ Counted1(held, Strong, o) = 1 <=> \A g \in Strong : e[g] # o
        /\ \A p \in Objs : p # o => Counted1(e, Strong, p) = Counted1(held, Strong, p)
        /\ \A p \in Objs : Counted1(e, Weaks, p) = Counted1(held, Weaks, p)
    BY <2>1, <1>3, <1>4, <1>7, OneLess
  <2> QED
    BY <2>2, <1>5, <1>6
<1>8. ASSUME h \in Weaks
      PROVE  /\ Add(weak_counter[o], -1) \in Nat
             /\ weak_counter[o] = 1 <=> \A g \in Weaks : e[g] # o
             /\ \A p \in Objs : Counted1(e, Weaks, p) = [weak_counter EXCEPT ![o] = Add(@, -1)][p]
             /\ \A p \in Objs : Counted1(e, Strong, p) = counter[p]
  <2>1. Strong \in SUBSET Handles /\ Weaks \in SUBSET Handles /\ h \notin Strong
    BY <1>8, Together
  <2>2. /\ Add(Counted1(held, Weaks, o), -1) \in Nat
        /\ Counted1(e, Weaks, o) = Add(Counted1(held, Weaks, o), -1)
        /\ Counted1(held, Weaks, o) = 1 <=> \A g \in Weaks : e[g] # o
        /\ \A p \in Objs : p # o => Counted1(e, Weaks, p) = Counted1(held, Weaks, p)
        /\ \A p \in Objs : Counted1(e, Strong, p) = Counted1(held, Strong, p)
    <3>1. \A p \in Objs : p # o => Counted1(e, Weaks, p) = Counted1(held, Weaks, p)
      BY <2>1, <1>3, <1>4, <1>8, OneLess
    <3>2. \A p \in Objs : Counted1(e, Strong, p) = Counted1(held, Strong, p)
      BY <2>1, <1>3, <1>4, <1>8, OneLess
    <3>3. /\ Add(Counted1(held, Weaks, o), -1) \in Nat
          /\ Counted1(e, Weaks, o) = Add(Counted1(held, Weaks, o), -1)
          /\ Counted1(held, Weaks, o) = 1 <=> \A g \in Weaks : e[g] # o
      BY <2>1, <1>3, <1>4, <1>8, OneLess
    <3> QED
      BY <3>1, <3>2, <3>3
  <2>3. weak_counter[o] = Counted1(held, Weaks, o)
    BY <1>5
  <2>4. \A p \in Objs : Counted1(e, Weaks, p) = [weak_counter EXCEPT ![o] = Add(@, -1)][p]
    BY <2>2, <2>3, <1>5, <1>6
  <2> QED
    BY <2>2, <2>3, <2>4, <1>5
<1> QED
  BY <1>1, <1>2, <1>4, <1>7, <1>8

\* rc_release by the owner's reset.
LEMMA ReleaseKeeps ==
    ASSUME Confined, IInv, NEW t \in Owners, Release(t)
    PROVE  IInv'
<1>1. Typed
  BY DEF IInv
<1> PICK held \in Held : HInv(held)
  BY DEF IInv
<1> PICK x : x = Head(todo[t])
  OBVIOUS
<1> DEFINE then == IF LastStrong(counter[Obj(t)]) THEN AfterLast(Obj(t)) ELSE <<>>
<1>2. /\ Step(t, "release", then) /\ Touch(t)
      /\ counter' = [counter EXCEPT ![Obj(t)] = Add(@, -1)]
      /\ UNCHANGED <<ptr, weak_counter, status>>
  BY DEF Release
<1> HIDE DEF then
<1>3. /\ x \in Items(t) /\ x.op = "release" /\ Obj(t) = x.obj /\ x.obj \in Objs
      /\ Fits(t, x)
  BY <1>1, <1>2, AtHead
<1>4. x.op \in RelOps /\ x.h \in Strong
  BY <1>3 DEF RelOps, Fits
<1>5. PICK e \in Held :
        /\ e[x.h] = Null /\ \A g \in Handles : g # x.h => e[g] = held[g]
        /\ Add(counter[x.obj], -1) \in Nat
        /\ counter[x.obj] = 1 <=> \A g \in Strong : e[g] # x.obj
        /\ \A p \in Objs : Counted1(e, Strong, p) = [counter EXCEPT ![x.obj] = Add(@, -1)][p]
        /\ \A p \in Objs : Counted1(e, Weaks, p) = weak_counter[p]
  BY <1>1, <1>3, <1>4, CountsLess
<1>6. Counts(e)'
  BY <1>2, <1>3, <1>5 DEF Counts
<1>7. counter' \in [Objs -> Nat] /\ weak_counter' \in [Objs -> Nat]
  BY <1>1, <1>2, <1>3, <1>5 DEF Typed
<1>8. CASE counter[x.obj] # 1
  <2>1. then = <<>>
    BY <1>3, <1>8 DEF then, LastStrong
  <2>2. Done(t, x, {}) /\ OrderedThen
    BY <2>1, <1>1, <1>2, Turn
  <2>3. Settled(x, {}, e)
    BY <1>5, <1>8, Together DEF Settled
  <2>4. PICK D : D = {}
    OBVIOUS
  <2>5. Done(t, x, D) /\ Settled(x, D, e)
    BY <2>2, <2>3, <2>4
  <2> QED
    BY <2>2, <2>5, <1>1, <1>2, <1>4, <1>5, <1>6, <1>7, AfterLetsGo
<1>9. CASE counter[x.obj] = 1
  <2> DEFINE op == IF HasWeak(x.obj) THEN "weak_count" ELSE "delete"
  <2>1. then = Do(op, x.obj) /\ op \in Decisions
    BY <1>3, <1>9 DEF then, LastStrong, AfterLast, Decisions
  <2>2. PICK d \in Accesses : /\ then = <<d>> /\ d.op = op /\ d.obj = x.obj
                              /\ Fits(t, d) /\ Rank(d.op) = 2
    BY <2>1, <1>3, Decision
  <2>4. Done(t, x, {d}) /\ OrderedThen
    BY <2>2, <1>1, <1>2, TurnTo
  <2>5. \A g \in Strong : e[g] # x.obj
    BY <1>5, <1>9
  <2>6. Settled(x, {d}, e)
    BY <2>2, <2>5, <1>3 DEF Settled
  <2> QED
    BY <2>4, <2>6, <1>1, <1>2, <1>4, <1>5, <1>6, <1>7, AfterLetsGo
<1> QED
  BY <1>8, <1>9

\* rc_release by RCUnique::release.
LEMMA DetachKeeps ==
    ASSUME Confined, IInv, NEW t \in Owners, Detach(t)
    PROVE  IInv'
<1>1. Typed
  BY DEF IInv
<1> PICK held \in Held : HInv(held)
  BY DEF IInv
<1> PICK x : x = Head(todo[t])
  OBVIOUS
<1>2. /\ Step(t, "detach", <<>>) /\ Touch(t)
      /\ counter' = [counter EXCEPT ![Obj(t)] = Add(@, -1)]
      /\ UNCHANGED <<ptr, weak_counter, status>>
  BY DEF Detach
<1>3. /\ x \in Items(t) /\ x.op = "detach" /\ Obj(t) = x.obj /\ x.obj \in Objs
      /\ Fits(t, x)
  BY <1>1, <1>2, AtHead
<1>4. x.op \in RelOps /\ x.h \in Strong
  BY <1>3 DEF RelOps, Fits, Strong
<1>5. PICK e \in Held :
        /\ e[x.h] = Null /\ \A g \in Handles : g # x.h => e[g] = held[g]
        /\ Add(counter[x.obj], -1) \in Nat
        /\ \A p \in Objs : Counted1(e, Strong, p) = [counter EXCEPT ![x.obj] = Add(@, -1)][p]
        /\ \A p \in Objs : Counted1(e, Weaks, p) = weak_counter[p]
  BY <1>1, <1>3, <1>4, CountsLess
<1>6. Counts(e)'
  BY <1>2, <1>3, <1>5 DEF Counts
<1>7. counter' \in [Objs -> Nat] /\ weak_counter' \in [Objs -> Nat]
  BY <1>1, <1>2, <1>3, <1>5 DEF Typed
<1>8. Done(t, x, {}) /\ OrderedThen
  BY <1>1, <1>2, Turn
<1>9. Settled(x, {}, e)
  BY <1>3 DEF Settled
<1>10. PICK D : D = {}
  OBVIOUS
<1>11. Done(t, x, D) /\ Settled(x, D, e) /\ OrderedThen
  BY <1>8, <1>9, <1>10
<1>12. UNCHANGED <<ptr, status>> /\ Touch(t)
  BY <1>2
<1> QED
  BY <1>1, <1>4, <1>5, <1>6, <1>7, <1>11, <1>12, AfterLetsGo

\* rc_weak_release.
LEMMA WeakReleaseKeeps ==
    ASSUME Confined, IInv, NEW t \in Owners, WeakRelease(t)
    PROVE  IInv'
<1>1. Typed
  BY DEF IInv
<1> PICK held \in Held : HInv(held)
  BY DEF IInv
<1> PICK x : x = Head(todo[t])
  OBVIOUS
<1> DEFINE then == IF LastWeak(weak_counter[Obj(t)]) THEN Do("count", Obj(t)) ELSE <<>>
<1>2. /\ Step(t, "weak_release", then) /\ Touch(t)
      /\ weak_counter' = [weak_counter EXCEPT ![Obj(t)] = Add(@, -1)]
      /\ UNCHANGED <<ptr, counter, status>>
  BY DEF WeakRelease
<1> HIDE DEF then
<1>3. /\ x \in Items(t) /\ x.op = "weak_release" /\ Obj(t) = x.obj /\ x.obj \in Objs
      /\ Fits(t, x)
  BY <1>1, <1>2, AtHead
<1>4. x.op \in RelOps /\ x.h \in Weaks
  BY <1>3 DEF RelOps, Fits
<1>5. PICK e \in Held :
        /\ e[x.h] = Null /\ \A g \in Handles : g # x.h => e[g] = held[g]
        /\ Add(weak_counter[x.obj], -1) \in Nat
        /\ weak_counter[x.obj] = 1 <=> \A g \in Weaks : e[g] # x.obj
        /\ \A p \in Objs : Counted1(e, Weaks, p) = [weak_counter EXCEPT ![x.obj] = Add(@, -1)][p]
        /\ \A p \in Objs : Counted1(e, Strong, p) = counter[p]
  BY <1>1, <1>3, <1>4, CountsLess
<1>6. Counts(e)'
  BY <1>2, <1>3, <1>5 DEF Counts
<1>7. counter' \in [Objs -> Nat] /\ weak_counter' \in [Objs -> Nat]
  BY <1>1, <1>2, <1>3, <1>5 DEF Typed
<1>8. CASE weak_counter[x.obj] # 1
  <2>1. then = <<>>
    BY <1>3, <1>8 DEF then, LastWeak
  <2>2. Done(t, x, {}) /\ OrderedThen
    BY <2>1, <1>1, <1>2, Turn
  <2>3. Settled(x, {}, e)
    BY <1>5, <1>8, Together DEF Settled
  <2>4. PICK D : D = {}
    OBVIOUS
  <2>5. Done(t, x, D) /\ Settled(x, D, e)
    BY <2>2, <2>3, <2>4
  <2> QED
    BY <2>2, <2>5, <1>1, <1>2, <1>4, <1>5, <1>6, <1>7, AfterLetsGo
<1>9. CASE weak_counter[x.obj] = 1
  <2>1. then = Do("count", x.obj) /\ "count" \in Decisions
    BY <1>3, <1>9 DEF then, LastWeak, Decisions
  <2>2. PICK d \in Accesses : /\ then = <<d>> /\ d.op = "count" /\ d.obj = x.obj
                              /\ Fits(t, d) /\ Rank(d.op) = 2
    BY <2>1, <1>3, Decision
  <2>4. Done(t, x, {d}) /\ OrderedThen
    BY <2>2, <1>1, <1>2, TurnTo
  <2>5. \A g \in Weaks : e[g] # x.obj
    BY <1>5, <1>9
  <2>6. Settled(x, {d}, e)
    BY <2>2, <2>5, <1>3 DEF Settled
  <2> QED
    BY <2>4, <2>6, <1>1, <1>2, <1>4, <1>5, <1>6, <1>7, AfterLetsGo
<1> QED
  BY <1>8, <1>9

\* The invariant after a decision: the object is kept, is to be deleted, or is deleted.
LEMMA AfterDecision ==
    ASSUME Typed, NEW held \in Held, HInv(held), NEW t \in Owners, NEW x, x = Head(todo[t]),
           NEW D, Done(t, x, D), OrderedThen, x.op \in Decisions,
           UNCHANGED <<ptr, counter, weak_counter>>, faults' = {},
           \/ D = {} /\ status' = status /\ x.op # "delete" /\ \E h \in Handles : held[h] = x.obj
           \/ /\ status' = status /\ x.op # "delete" /\ \A h \in Handles : held[h] # x.obj
              /\ \E d \in Accesses : D = {d} /\ d.op = "delete" /\ d.obj = x.obj
           \/ D = {} /\ x.op = "delete" /\ status' = [status EXCEPT ![x.obj] = "deleted"]
    PROVE  IInv'
<1>1. Counts(held)'
  BY DEF HInv, Counting, Counts
<1>2. HInv(held)'
  BY <1>1, Decides
<1>3. status' \in [Objs -> {"none", "alive", "deleted"}]
  BY DEF Typed
<1>4. /\ ptr' \in [Handles -> Objs \cup {Null}]
      /\ \A h \in Handles : ptr'[h] \in Use[h] \cup {Null}
      /\ counter' \in [Objs -> Nat] /\ weak_counter' \in [Objs -> Nat]
  BY DEF Typed
<1> QED
  BY <1>2, <1>3, <1>4, IInvThen

\* rc_weak_count after the last strong handle.
LEMMA WeakCountKeeps ==
    ASSUME IInv, NEW t \in Owners, WeakCount(t)
    PROVE  IInv'
<1>1. Typed
  BY DEF IInv
<1> PICK held \in Held : HInv(held)
  BY DEF IInv
<1> PICK x : x = Head(todo[t])
  OBVIOUS
<1> DEFINE then == IF weak_counter[Obj(t)] = 0 THEN Do("delete", Obj(t)) ELSE <<>>
<1>2. /\ Step(t, "weak_count", then) /\ Touch(t)
      /\ UNCHANGED <<ptr, counter, weak_counter, status>>
  BY DEF WeakCount
<1> HIDE DEF then
<1>3. /\ x \in Items(t) /\ x.op = "weak_count" /\ Obj(t) = x.obj /\ x.obj \in Objs
  BY <1>1, <1>2, AtHead
<1>4. faults' = {} /\ x.op \in Decisions
  BY <1>1, <1>2, <1>3, NoFault DEF Decisions
<1>5. \A h \in Strong : held[h] # x.obj
  BY <1>3 DEF HInv, Scheduled, Item, Deciding
<1>6. weak_counter[x.obj] = 0 <=> \A h \in Weaks : held[h] # x.obj
  <2>1. weak_counter[x.obj] = Counted1(held, Weaks, x.obj)
    BY <1>3 DEF HInv, Counting
  <2> QED
    BY <2>1, CountZero, Together
<1>7. CASE weak_counter[x.obj] # 0
  <2>1. then = <<>>
    BY <1>3, <1>7 DEF then
  <2>2. Done(t, x, {}) /\ OrderedThen
    BY <2>1, <1>1, <1>2, Turn
  <2>3. \E h \in Handles : held[h] = x.obj
    BY <1>6, <1>7, Together
  <2> QED
    BY <2>2, <2>3, <1>1, <1>2, <1>3, <1>4, AfterDecision
<1>8. CASE weak_counter[x.obj] = 0
  <2>1. then = Do("delete", x.obj) /\ "delete" \in Decisions
    BY <1>3, <1>8 DEF then, Decisions
  <2>2. PICK d \in Accesses : /\ then = <<d>> /\ d.op = "delete" /\ d.obj = x.obj
                              /\ Fits(t, d) /\ Rank(d.op) = 2
    BY <2>1, <1>3, Decision
  <2>4. Done(t, x, {d}) /\ OrderedThen
    BY <2>2, <1>1, <1>2, TurnTo
  <2>5. \A h \in Handles : held[h] # x.obj
    BY <1>5, <1>6, <1>8, Together
  <2> QED
    BY <2>2, <2>4, <2>5, <1>1, <1>2, <1>3, <1>4, AfterDecision
<1> QED
  BY <1>7, <1>8

\* rc_count after the last weak handle.
LEMMA CountKeeps ==
    ASSUME IInv, NEW t \in Owners, Count(t)
    PROVE  IInv'
<1>1. Typed
  BY DEF IInv
<1> PICK held \in Held : HInv(held)
  BY DEF IInv
<1> PICK x : x = Head(todo[t])
  OBVIOUS
<1> DEFINE then == IF counter[Obj(t)] = 0 THEN Do("delete", Obj(t)) ELSE <<>>
<1>2. /\ Step(t, "count", then) /\ Touch(t)
      /\ UNCHANGED <<ptr, counter, weak_counter, status>>
  BY DEF Count
<1> HIDE DEF then
<1>3. /\ x \in Items(t) /\ x.op = "count" /\ Obj(t) = x.obj /\ x.obj \in Objs
  BY <1>1, <1>2, AtHead
<1>4. faults' = {} /\ x.op \in Decisions
  BY <1>1, <1>2, <1>3, NoFault DEF Decisions
<1>5. \A h \in Weaks : held[h] # x.obj
  BY <1>3 DEF HInv, Scheduled, Item, Deciding
<1>6. counter[x.obj] = 0 <=> \A h \in Strong : held[h] # x.obj
  <2>1. counter[x.obj] = Counted1(held, Strong, x.obj)
    BY <1>3 DEF HInv, Counting
  <2>2. Strong \in SUBSET Handles
    BY Together
  <2>3. Counted1(held, Strong, x.obj) = 0 <=> \A h \in Strong : held[h] # x.obj
    BY <2>2, CountZero
  <2> QED
    BY <2>1, <2>3
<1>7. CASE counter[x.obj] # 0
  <2>1. then = <<>>
    BY <1>3, <1>7 DEF then
  <2>2. Done(t, x, {}) /\ OrderedThen
    BY <2>1, <1>1, <1>2, Turn
  <2>3. \E h \in Handles : held[h] = x.obj
    BY <1>6, <1>7, Together
  <2> QED
    BY <2>2, <2>3, <1>1, <1>2, <1>3, <1>4, AfterDecision
<1>8. CASE counter[x.obj] = 0
  <2>1. then = Do("delete", x.obj) /\ "delete" \in Decisions
    BY <1>3, <1>8 DEF then, Decisions
  <2>2. PICK d \in Accesses : /\ then = <<d>> /\ d.op = "delete" /\ d.obj = x.obj
                              /\ Fits(t, d) /\ Rank(d.op) = 2
    BY <2>1, <1>3, Decision
  <2>4. Done(t, x, {d}) /\ OrderedThen
    BY <2>2, <1>1, <1>2, TurnTo
  <2>5. \A h \in Handles : held[h] # x.obj
    BY <1>5, <1>6, <1>8, Together
  <2> QED
    BY <2>2, <2>4, <2>5, <1>1, <1>2, <1>3, <1>4, AfterDecision
<1> QED
  BY <1>7, <1>8

\* The delete.
LEMMA DeleteKeeps ==
    ASSUME IInv, NEW t \in Owners, Delete(t)
    PROVE  IInv'
<1>1. Typed
  BY DEF IInv
<1> PICK held \in Held : HInv(held)
  BY DEF IInv
<1> PICK x : x = Head(todo[t])
  OBVIOUS
<1>2. Step(t, "delete", <<>>) /\ status' = [status EXCEPT ![Obj(t)] = "deleted"]
  BY DEF Delete
<1>3. /\ x \in Items(t) /\ x.op = "delete" /\ Obj(t) = x.obj /\ x.obj \in Objs
  BY <1>1, <1>2, AtHead
<1>4. /\ faults' = IF status[Obj(t)] = "deleted" THEN faults \cup {"double delete"} ELSE faults
      /\ UNCHANGED <<ptr, counter, weak_counter>>
  BY DEF Delete
<1>5. status[x.obj] = "alive" /\ x.op \in Decisions
  BY <1>1, <1>3, NoFault DEF Decisions
<1>6. faults' = {}
  BY <1>1, <1>3, <1>4, <1>5 DEF Typed
<1>7. Done(t, x, {}) /\ OrderedThen
  BY <1>1, <1>2, Turn
<1> QED
  BY <1>1, <1>2, <1>3, <1>4, <1>5, <1>6, <1>7, AfterDecision

\* The items of the lists that an operation starts with.
LEMMA ReleaseItem ==
    ASSUME Typed, NEW t \in Owners, NEW h \in Handles, Owner[h] = t, ptr[h] # Null
    PROVE  \E d \in Accesses : /\ DoIf(h, ReleaseOp(h), ptr[h]) = <<d>>
                               /\ d.op = ReleaseOp(h) /\ d.obj = ptr[h] /\ d.h = h
                               /\ Fits(t, d) /\ Rank(d.op) = 2
<1> DEFINE d == [op |-> ReleaseOp(h), obj |-> ptr[h], h |-> h]
<1>1. ReleaseOp(h) \in RelOps /\ ptr[h] \in Objs
  BY DEF ReleaseOp, RelOps, Typed
<1>2. d \in Accesses
  BY <1>1 DEF Accesses, Ops, HandleOps
<1>3. DoIf(h, ReleaseOp(h), ptr[h]) = <<d>>
  BY DEF DoIf, DoFor
<1>4. d.op = ReleaseOp(h) /\ d.obj = ptr[h] /\ d.h = h
  OBVIOUS
<1> HIDE DEF d
<1>5. d.op = (IF h \in Weaks THEN "weak_release" ELSE "release")
  BY <1>4 DEF ReleaseOp
<1>6. Fits(t, d)
  BY <1>1, <1>4, <1>5 DEF Fits, AcqOps, Strong, Handles
<1>7. Rank(d.op) = 2
  BY <1>5 DEF Rank, AcqOps
<1> QED
  BY <1>2, <1>3, <1>4, <1>6, <1>7

\* The access of a reset that acquires, as an item of a list.
LEMMA AcquireItem ==
    ASSUME NEW t \in Owners, NEW h \in Handles, Owner[h] = t, NEW p \in Objs
    PROVE  \E d \in Accesses : /\ DoFor(h, AcquireOp(h), p) = <<d>>
                               /\ DoIf(h, AcquireOp(h), p) = <<d>>
                               /\ d.op = AcquireOp(h) /\ d.obj = p /\ d.h = h
                               /\ Fits(t, d) /\ Rank(d.op) = 3
<1> DEFINE d == [op |-> AcquireOp(h), obj |-> p, h |-> h]
<1>1. AcquireOp(h) \in AcqOps
  BY DEF AcquireOp, AcqOps, Handles
<1>2. d \in Accesses
  BY <1>1 DEF Accesses, Ops, HandleOps
<1>3. DoFor(h, AcquireOp(h), p) = <<d>> /\ DoIf(h, AcquireOp(h), p) = <<d>>
  BY HandlesAssumption DEF DoIf, DoFor
<1>4. d.op = AcquireOp(h) /\ d.obj = p /\ d.h = h
  OBVIOUS
<1> HIDE DEF d
<1>5. d.op \in AcqOps
  BY <1>1, <1>4
<1>6. Fits(t, d)
  BY <1>4, <1>5 DEF Fits, AcqOps
<1>7. Rank(d.op) = 3
  BY <1>5 DEF Rank, AcqOps
<1> QED
  BY <1>2, <1>3, <1>4, <1>6, <1>7

\* The count that RCWeak::lock reads, and the RC it makes.
LEMMA LockCountKeeps ==
    ASSUME Confined, IInv, NEW t \in Owners, LockCount(t)
    PROVE  IInv'
<1>1. Typed
  BY DEF IInv
<1> PICK held \in Held : HInv(held)
  BY DEF IInv
<1>2. PICK x : x = Head(todo[t])
  OBVIOUS
<1>3. PICK ok \in BOOLEAN : ok = (counter[Obj(t)] # 0)
  OBVIOUS
<1> DEFINE then == IF ok THEN DoFor(x.h, "add_ref", Obj(t)) ELSE <<>>
<1>4. /\ Step(t, "lock", then) /\ Touch(t)
      /\ ptr' = IF ok THEN [ptr EXCEPT ![x.h] = Obj(t)] ELSE ptr
      /\ UNCHANGED <<counter, weak_counter, status>>
  BY <1>2, <1>3 DEF LockCount
<1> HIDE DEF then
<1>5. /\ x \in Items(t) /\ x.op = "lock" /\ Obj(t) = x.obj /\ x.obj \in Objs
      /\ Fits(t, x) /\ x.h \in Handles /\ Owner[x.h] = t
  BY <1>1, <1>2, <1>4, AtHead DEF HandleOps
<1>6. /\ faults' = {} /\ x.h \in RCs
  BY <1>1, <1>2, <1>4, <1>5, NoFault DEF Fits
<1>7. Locking(held, t, x)
  BY <1>5 DEF HInv, Scheduled, Item
<1>8. (\A y \in Items(t) : y = x) /\ x.obj \in Use[x.h]
  BY <1>5, <1>7 DEF Locking
<1>9. Still(t)
  BY <1>5, <1>8 DEF Still
<1>10. CASE ok
  <2>1. AcquireOp(x.h) = "add_ref"
    BY <1>5, <1>6, Together
  <2>2. PICK d \in Accesses : /\ then = <<d>> /\ d.op = "add_ref" /\ d.obj = x.obj /\ d.h = x.h
                              /\ Fits(t, d)
    BY <2>1, <1>5, <1>10, AcquireItem DEF then
  <2>3. PICK D : D = {d}
    OBVIOUS
  <2>4. Done(t, x, D) /\ OrderedThen
    BY <2>2, <2>3, <1>1, <1>2, <1>4, <1>8, Turn
  <2>5. (\A s \in Owners : s # t => Items(s)' = Items(s)) /\ Items(t)' = {d}
    BY <2>3, <2>4, <1>8 DEF Done
  <2>6. ptr' = [ptr EXCEPT ![x.h] = x.obj] /\ counter[x.obj] # 0
    BY <1>3, <1>4, <1>5, <1>10
  <2>7. HInv(held)'
    BY <2>2, <2>5, <2>6, <1>1, <1>4, <1>5, Locks
  <2>8. /\ ptr' \in [Handles -> Objs \cup {Null}]
        /\ \A h \in Handles : ptr'[h] \in Use[h] \cup {Null}
        /\ counter' \in [Objs -> Nat] /\ weak_counter' \in [Objs -> Nat]
        /\ status' \in [Objs -> {"none", "alive", "deleted"}]
    BY <2>6, <1>1, <1>4, <1>5, <1>8 DEF Typed
  <2> QED
    BY <2>4, <2>7, <2>8, <1>6, IInvThen
<1>11. CASE ~ok
  <2>1. then = <<>>
    BY <1>11 DEF then
  <2>2. PICK D : D = {}
    OBVIOUS
  <2>3. Done(t, x, D) /\ OrderedThen
    BY <2>1, <2>2, <1>1, <1>2, <1>4, Turn
  <2>4. (\A s \in Owners : s # t => Items(s)' = Items(s)) /\ Items(t)' = {}
    BY <2>2, <2>3, <1>8 DEF Done
  <2>5. UNCHANGED <<ptr, counter, weak_counter, status>>
    BY <1>4, <1>11
  <2>6. HInv(held)'
    BY <2>4, <2>5, <1>1, <1>9, Stops
  <2>7. /\ ptr' \in [Handles -> Objs \cup {Null}]
        /\ \A h \in Handles : ptr'[h] \in Use[h] \cup {Null}
        /\ counter' \in [Objs -> Nat] /\ weak_counter' \in [Objs -> Nat]
        /\ status' \in [Objs -> {"none", "alive", "deleted"}]
    BY <2>5, <1>1 DEF Typed
  <2> QED
    BY <2>3, <2>6, <2>7, <1>6, IInvThen
<1> QED
  BY <1>10, <1>11

\* The reset of the source that ends a move assignment.
LEMMA ClearMovedKeeps ==
    ASSUME IInv, NEW t \in Owners, ClearMoved(t)
    PROVE  IInv'
<1>1. Typed
  BY DEF IInv
<1> PICK held \in Held : HInv(held)
  BY DEF IInv
<1>2. PICK x : x = Head(todo[t])
  OBVIOUS
<1>3. PICK g : g = x.h
  OBVIOUS
<1>4. /\ Step(t, "clear", DoIf(g, ReleaseOp(g), ptr[g]))
      /\ ptr' = [ptr EXCEPT ![g] = Null]
      /\ UNCHANGED <<counter, weak_counter, status, faults>>
  BY <1>2, <1>3 DEF ClearMoved
<1>5. /\ x \in Items(t) /\ x.op = "clear" /\ First(t, x)
      /\ g \in Handles /\ Owner[g] = t
  BY <1>1, <1>2, <1>3, <1>4, AtHead DEF HandleOps
<1>6. ptr[g] # Null
  BY <1>3, <1>5 DEF HInv, Scheduled, Item, Clearing
<1>7. \A y \in Items(t) : y = x
  <2> SUFFICES ASSUME NEW y \in Items(t), y # x PROVE FALSE
    OBVIOUS
  <2>1. Rank(x.op) = 4
    BY <1>5 DEF Rank, AcqOps
  <2>2. y.op \in Ops /\ Rank(x.op) < Rank(y.op)
    BY <1>1, <1>5, Kinds DEF First
  <2> QED
    BY <2>1, <2>2, RankOps, RankType
<1>8. Still(t)
  BY <1>5, <1>7 DEF Still
<1>9. PICK d \in Accesses : /\ DoIf(g, ReleaseOp(g), ptr[g]) = <<d>>
                            /\ d.op = ReleaseOp(g) /\ d.obj = ptr[g] /\ d.h = g
                            /\ Fits(t, d)
  BY <1>1, <1>5, <1>6, ReleaseItem
<1>10. PICK D : D = {d}
  OBVIOUS
<1>11. Done(t, x, D) /\ OrderedThen
  BY <1>1, <1>2, <1>4, <1>7, <1>9, <1>10, Turn
<1>12. (\A s \in Owners : s # t => Items(s)' = Items(s)) /\ Items(t)' = {d}
  BY <1>7, <1>10, <1>11 DEF Done
<1>13. HInv(held)'
  BY <1>1, <1>4, <1>5, <1>6, <1>8, <1>9, <1>12, Drops
<1>14. /\ ptr' \in [Handles -> Objs \cup {Null}]
       /\ \A h \in Handles : ptr'[h] \in Use[h] \cup {Null}
       /\ counter' \in [Objs -> Nat] /\ weak_counter' \in [Objs -> Nat]
       /\ status' \in [Objs -> {"none", "alive", "deleted"}] /\ faults' = {}
  BY <1>1, <1>4, <1>5 DEF Typed
<1> QED
  BY <1>11, <1>13, <1>14, IInvThen

-----------------------------------------------------------------------------
(* The operations.  Each gives an idle thread its list of accesses.        *)

\* An idle thread takes up a list of accesses.
LEMMA Opens ==
    ASSUME Typed, NEW t \in Owners, Idle(t), NEW L \in Seq(Accesses), Sorted(L),
           \A x \in ItemsOf(L) : Fits(t, x), todo' = [todo EXCEPT ![t] = L]
    PROVE  /\ Items(t) = {} /\ OrderedThen
           /\ \A s \in Owners : s # t => Items(s)' = Items(s)
           /\ Items(t)' = ItemsOf(L)
<1>1. Items(t) = {}
  BY Listed DEF Idle
<1>2. /\ OrderedThen
      /\ \A s \in Owners : s # t => ItemsOf(todo'[s]) = Items(s)
      /\ ItemsOf(todo'[t]) = ItemsOf(L)
  BY StartItems DEF OrderedThen
<1> QED
  BY <1>1, <1>2 DEF Items

\* The list L holds the accesses S, with ranks from low to high.
ListOf(t, L, S, low, high) ==
    /\ L \in Seq(Accesses) /\ Sorted(L) /\ ItemsOf(L) = S
    /\ \A x \in S : Fits(t, x) /\ low <= Rank(x.op) /\ Rank(x.op) <= high

\* Two lists, one after the other.
LEMMA Appended ==
    ASSUME NEW t, NEW K, NEW S, NEW L, NEW T, NEW i \in Int, NEW j \in Int, NEW k \in Int,
           NEW l \in Int, ListOf(t, K, S, i, j), ListOf(t, L, T, k, l), i <= k, j < k, j <= l
    PROVE  ListOf(t, K \o L, S \cup T, i, l)
<1>1. \A x \in S, y \in T : Rank(x.op) < Rank(y.op)
  BY RankType DEF ListOf
<1>2. /\ K \o L \in Seq(Accesses) /\ Sorted(K \o L)
      /\ ItemsOf(K \o L) = S \cup T
  BY <1>1, Joined DEF ListOf
<1>3. \A x \in S \cup T : Fits(t, x) /\ i <= Rank(x.op) /\ Rank(x.op) <= l
  BY RankType DEF ListOf
<1> QED
  BY <1>2, <1>3 DEF ListOf

\* A list of one access.
LEMMA ListOfOne ==
    ASSUME NEW t, NEW d \in Accesses, Fits(t, d), NEW i \in Int, Rank(d.op) = i
    PROVE  ListOf(t, <<d>>, {d}, i, i)
<1>1. PICK L : L = <<d>>
  OBVIOUS
<1>2. L \in Seq(Accesses) /\ Sorted(L) /\ ItemsOf(L) = {d}
  BY <1>1, Single
<1>3. ListOf(t, L, {d}, i, i)
  BY <1>2 DEF ListOf
<1> QED
  BY <1>1, <1>3

\* The list of reset(p): the old object is released, then p is acquired.
LEMMA ResetList ==
    ASSUME Typed, NEW t \in Owners, NEW h \in Handles, Owner[h] = t, NEW p \in Objs
    PROVE  \E R, a : /\ Resetting(h, p, R, a)
                     /\ ListOf(t, ResetTodo(h, p), R \cup {a}, 2, 3)
<1>1. PICK a \in Accesses : /\ DoIf(h, AcquireOp(h), p) = <<a>>
                            /\ a.op = AcquireOp(h) /\ a.obj = p /\ a.h = h
                            /\ Fits(t, a) /\ Rank(a.op) = 3
  BY AcquireItem
<1>2. ListOf(t, <<a>>, {a}, 3, 3)
  BY <1>1, ListOfOne
<1>3. PICK A : A = <<a>>
  OBVIOUS
<1>4. CASE ptr[h] = Null
  <2>1. PICK R : R = {}
    OBVIOUS
  <2>2. Resetting(h, p, R, a)
    BY <2>1, <1>1, <1>4 DEF Resetting
  <2>3. ResetTodo(h, p) = <<>> \o A
    BY <1>1, <1>3, <1>4 DEF ResetTodo, DoIf
  <2>4. A \in Seq(Accesses)
    BY <1>2, <1>3 DEF ListOf
  <2>5. ResetTodo(h, p) = A
    BY <2>3, <2>4, NoItems
  <2>6. ListOf(t, A, R \cup {a}, 2, 3)
    BY <2>1, <1>1, <1>2, <1>3 DEF ListOf
  <2> QED
    BY <2>2, <2>5, <2>6
<1>5. CASE ptr[h] # Null
  <2>1. PICK r \in Accesses : /\ DoIf(h, ReleaseOp(h), ptr[h]) = <<r>>
                              /\ r.op = ReleaseOp(h) /\ r.obj = ptr[h] /\ r.h = h
                              /\ Fits(t, r) /\ Rank(r.op) = 2
    BY <1>5, ReleaseItem
  <2>2. PICK B : B = <<r>>
    OBVIOUS
  <2>3. PICK R : R = {r}
    OBVIOUS
  <2>4. Resetting(h, p, R, a)
    BY <2>1, <2>3, <1>1, <1>5 DEF Resetting
  <2>5. ListOf(t, B, R, 2, 2)
    BY <2>1, <2>2, <2>3, ListOfOne
  <2>6. ListOf(t, B \o A, R \cup {a}, 2, 3)
    BY <2>5, <1>2, <1>3, Appended
  <2>7. ResetTodo(h, p) = B \o A
    BY <2>1, <2>2, <1>1, <1>3 DEF ResetTodo
  <2> QED
    BY <2>4, <2>6, <2>7
<1> QED
  BY <1>4, <1>5

\* reset(), the assignment of nullptr and the destructors.
LEMMA ClearKeeps ==
    ASSUME IInv, NEW t \in Owners, NEW h \in Handles, Clear(t, h)
    PROVE  IInv'
<1>1. Typed
  BY DEF IInv
<1> PICK held \in Held : HInv(held)
  BY DEF IInv
<1>2. Idle(t) /\ Owner[h] = t /\ ptr[h] # Null
  BY DEF Clear, Free
<1>3. PICK d \in Accesses : /\ DoIf(h, ReleaseOp(h), ptr[h]) = <<d>>
                            /\ d.op = ReleaseOp(h) /\ d.obj = ptr[h] /\ d.h = h
                            /\ Fits(t, d)
  BY <1>1, <1>2, ReleaseItem
<1>4. PICK L : L = <<d>>
  OBVIOUS
<1>5. L \in Seq(Accesses) /\ Sorted(L) /\ ItemsOf(L) = {d}
  BY <1>4, Single
<1>6. ResetTodo(h, Null) = L
  <2>1. ResetTodo(h, Null) = L \o <<>>
    BY <1>3, <1>4 DEF ResetTodo, DoIf
  <2> QED
    BY <2>1, <1>5, NoItems
<1>7. todo' = [todo EXCEPT ![t] = L]
  BY <1>6 DEF Clear
<1>8. \A x \in ItemsOf(L) : Fits(t, x)
  BY <1>3, <1>5
<1>9. /\ Items(t) = {} /\ OrderedThen
      /\ \A s \in Owners : s # t => Items(s)' = Items(s)
      /\ Items(t)' = {d}
  BY <1>1, <1>2, <1>5, <1>7, <1>8, Opens
<1>10. Still(t)
  BY <1>9 DEF Still
<1>11. ptr' = [ptr EXCEPT ![h] = Null] /\ UNCHANGED <<counter, weak_counter, status, faults>>
  BY DEF Clear
<1>12. HInv(held)'
  BY <1>1, <1>2, <1>3, <1>9, <1>10, <1>11, Drops
<1>13. /\ ptr' \in [Handles -> Objs \cup {Null}]
       /\ \A k \in Handles : ptr'[k] \in Use[k] \cup {Null}
       /\ counter' \in [Objs -> Nat] /\ weak_counter' \in [Objs -> Nat]
       /\ status' \in [Objs -> {"none", "alive", "deleted"}] /\ faults' = {}
  BY <1>1, <1>11 DEF Typed
<1> QED
  BY <1>9, <1>12, <1>13, IInvThen

\* RCWeak::lock begins.
LEMMA LockKeeps ==
    ASSUME IInv, NEW t \in Owners, NEW h \in Handles, NEW w \in Handles, Lock(t, h, w)
    PROVE  IInv'
<1>1. Typed
  BY DEF IInv
<1> PICK held \in Held : HInv(held)
  BY DEF IInv
<1>2. /\ Idle(t) /\ Owner[h] = t /\ Owner[w] = t /\ w \in Weaks /\ h \in RCs
      /\ ptr[h] = Null /\ ptr[w] \in Use[h]
      /\ UNCHANGED <<ptr, counter, weak_counter, status, faults>>
  BY DEF Lock, Free
<1>3. PICK d : d = [op |-> "lock", obj |-> ptr[w], h |-> h]
  OBVIOUS
<1>4. PICK L : L = <<d>>
  OBVIOUS
<1>5. todo' = [todo EXCEPT ![t] = L]
  BY <1>3, <1>4 DEF Lock, DoFor
<1>6. d \in Accesses /\ Fits(t, d)
  <2>1. ptr[w] \in Objs
    BY <1>2, HandlesAssumption
  <2>2. d \in Accesses
    BY <2>1, <1>3 DEF Accesses, Ops, HandleOps
  <2>3. d.op = "lock" /\ d.obj = ptr[w] /\ d.h = h
    BY <1>3
  <2> QED
    BY <2>1, <2>2, <2>3, <1>2 DEF Fits, AcqOps
<1>7. L \in Seq(Accesses) /\ Sorted(L) /\ ItemsOf(L) = {d}
  BY <1>4, <1>6, Single
<1>8. \A x \in ItemsOf(L) : Fits(t, x)
  BY <1>6, <1>7
<1>9. /\ Items(t) = {} /\ OrderedThen
      /\ \A s \in Owners : s # t => Items(s)' = Items(s)
      /\ Items(t)' = {d}
  BY <1>1, <1>2, <1>5, <1>7, <1>8, Opens
<1>10. d.op = "lock" /\ d.obj = ptr[w] /\ d.h = h
  BY <1>3
<1>11. HInv(held)'
  BY <1>1, <1>2, <1>9, <1>10, WillLock
<1>12. /\ ptr' \in [Handles -> Objs \cup {Null}]
       /\ \A k \in Handles : ptr'[k] \in Use[k] \cup {Null}
       /\ counter' \in [Objs -> Nat] /\ weak_counter' \in [Objs -> Nat]
       /\ status' \in [Objs -> {"none", "alive", "deleted"}] /\ faults' = {}
  BY <1>1, <1>2 DEF Typed
<1> QED
  BY <1>9, <1>11, <1>12, IInvThen

\* Nothing is counted anew when two handles of a class exchange their pointers.
LEMMA ExchangeKeeps ==
    ASSUME IInv, NEW t \in Owners, NEW h \in Handles, NEW g \in Handles, h # g,
           \E class \in {RCs, Uniques, Weaks} : {h, g} \subseteq class,
           Idle(t), Owner[h] = t, Owner[g] = t,
           ptr[g] \in Use[h] \cup {Null}, ptr[h] \in Use[g] \cup {Null},
           ptr' = [ptr EXCEPT ![h] = ptr[g], ![g] = ptr[h]],
           UNCHANGED <<counter, weak_counter, status, todo, faults>>
    PROVE  IInv'
<1>1. Typed
  BY DEF IInv
<1> PICK held \in Held : HInv(held)
  BY DEF IInv
<1>2. Items(t) = {}
  BY <1>1, Listed DEF Idle
<1> PICK class \in {RCs, Uniques, Weaks} : h \in class /\ g \in class
  OBVIOUS
<1>3. PICK e \in Held : HInv(e)'
  BY <1>1, <1>2, Exchanges
<1>4. OrderedThen
  BY <1>1 DEF OrderedThen, Typed, Items
<1>5. /\ ptr' \in [Handles -> Objs \cup {Null}]
      /\ \A k \in Handles : ptr'[k] \in Use[k] \cup {Null}
      /\ counter' \in [Objs -> Nat] /\ weak_counter' \in [Objs -> Nat]
      /\ status' \in [Objs -> {"none", "alive", "deleted"}] /\ faults' = {}
  BY <1>1 DEF Typed
<1> QED
  BY <1>3, <1>4, <1>5, IInvThen

\* The move constructors of RC and RCWeak.
LEMMA MoveConstructKeeps ==
    ASSUME IInv, NEW t \in Owners, NEW h \in Handles, NEW g \in Handles, MoveConstruct(t, h, g)
    PROVE  IInv'
<1>1. /\ Idle(t) /\ Owner[h] = t /\ Owner[g] = t /\ ptr[h] = Null /\ ptr[g] \in Use[h]
      /\ (h \in RCs /\ g \in RCs) \/ (h \in Weaks /\ g \in Weaks)
      /\ ptr' = [ptr EXCEPT ![h] = ptr[g], ![g] = Null]
      /\ UNCHANGED <<counter, weak_counter, status, todo, faults>>
  BY DEF MoveConstruct, Moved, Free
<1>2. ptr[g] # Null
  BY <1>1, HandlesAssumption
<1>3. \E class \in {RCs, Uniques, Weaks} : {h, g} \subseteq class
  BY <1>1
<1> QED
  BY <1>1, <1>2, <1>3, ExchangeKeeps

\* swap.
LEMMA SwapKeeps ==
    ASSUME IInv, NEW t \in Owners, NEW h \in Handles, NEW g \in Handles, Swap(t, h, g)
    PROVE  IInv'
BY ExchangeKeeps DEF Swap, Free

\* The object of a new handle is nobody's, or it is shared by a handle that stays.
LEMMA CreateKeeps ==
    ASSUME IInv, NEW t \in Owners, NEW h \in Handles, NEW p \in Objs, Create(t, h, p)
    PROVE  IInv'
<1>1. Typed
  BY DEF IInv
<1> PICK held \in Held : HInv(held)
  BY DEF IInv
<1>2. /\ Idle(t) /\ Owner[h] = t /\ h \notin Weaks /\ p \in Use[h] /\ status[p] = "none"
      /\ status' = [status EXCEPT ![p] = "alive"] /\ ptr' = [ptr EXCEPT ![h] = p]
      /\ todo' = [todo EXCEPT ![t] = ResetTodo(h, p)]
      /\ UNCHANGED <<counter, weak_counter, faults>>
  BY DEF Create, Free
<1>3. PICK R, a : Resetting(h, p, R, a) /\ ListOf(t, ResetTodo(h, p), R \cup {a}, 2, 3)
  BY <1>1, <1>2, ResetList
<1>4. /\ Items(t) = {} /\ OrderedThen
      /\ \A s \in Owners : s # t => Items(s)' = Items(s)
      /\ Items(t)' = R \cup {a}
  <2>1. PICK L : L = ResetTodo(h, p)
    OBVIOUS
  <2>2. /\ L \in Seq(Accesses) /\ Sorted(L) /\ ItemsOf(L) = R \cup {a}
        /\ \A x \in ItemsOf(L) : Fits(t, x)
    BY <2>1, <1>3 DEF ListOf
  <2> QED
    BY <2>1, <2>2, <1>1, <1>2, Opens
<1>5. \A s \in Owners : ~Knows(held, s, p)
  BY <1>2 DEF HInv, Living
<1>6. Alone(held, t, p)
  BY <1>5 DEF Alone
<1>7. \A k \in Handles : held[k] # p /\ ptr[k] # p
  BY <1>5, HandlesAssumption DEF Knows
<1>8. ptr'[h] = p /\ \A k \in Handles : k # h => ptr'[k] = ptr[k]
  BY <1>1, <1>2 DEF Typed
<1>9. Alone(held, t, p)' => Sole(held, t, a)'
  <2> SUFFICES ASSUME Alone(held, t, p)' PROVE Sole(held, t, a)'
    OBVIOUS
  <2>1. a.h = h /\ a.obj = p /\ \A r \in R : r.obj = ptr[h]
    BY <1>3 DEF Resetting
  <2>2. \A y \in Items(t)' : y.obj = p => y = a
    BY <2>1, <1>4, <1>7
  <2>3. h \in Strong
    BY <1>2 DEF Strong, Handles
  <2> QED
    BY <2>1, <2>2, <2>3, <1>7, <1>8 DEF Sole
<1>10. PICK Z : Z = {}
  OBVIOUS
<1>11. Items(t)' = R \cup {a} \cup Z /\ \A z \in Z : FALSE
  BY <1>4, <1>10
<1>12. /\ ptr' \in [Handles -> Objs \cup {Null}]
       /\ \A k \in Handles : ptr'[k] \in Use[k] \cup {Null}
       /\ counter' \in [Objs -> Nat] /\ weak_counter' \in [Objs -> Nat]
       /\ status' \in [Objs -> {"none", "alive", "deleted"}] /\ faults' = {}
  BY <1>1, <1>2 DEF Typed
<1>13. HInv(held)'
  <2>1. Besides(held, t, h, p, Z)
    BY <1>11 DEF Besides
  <2>2. Pointed(t, h, p, Z)
    BY <1>2, <1>8, <1>12 DEF Pointed
  <2>3. Supplied(held, t, p, a)
    BY <1>2, <1>6, <1>9 DEF Supplied
  <2> QED
    BY <2>1, <2>2, <2>3, <1>1, <1>2, <1>3, <1>4, <1>11, Resets
<1> QED
  BY <1>4, <1>12, <1>13, IInvThen

\* A move assignment clears its source at the end.
Follows(g, L, Z) ==
    \/ L = <<>> /\ Z = {}
    \/ /\ g \in RCs \cup Weaks
       /\ \E c : /\ L = <<c>> /\ Z = {c}
                /\ c = [op |-> "clear", obj |-> Null, h |-> g]

\* The clear that ends a move assignment, as a list.
LEMMA ClearItem ==
    ASSUME NEW t \in Owners, NEW g \in RCs \cup Weaks, Owner[g] = t,
           NEW c, c = [op |-> "clear", obj |-> Null, h |-> g]
    PROVE  ListOf(t, <<c>>, {c}, 4, 4) /\ c.op = "clear" /\ c.h = g /\ c.obj = Null
<1>1. c \in Accesses /\ c.op = "clear" /\ c.h = g /\ c.obj = Null
  BY DEF Accesses, Ops, HandleOps, Handles
<1>2. Fits(t, c)
  BY <1>1, HandlesAssumption DEF Fits, HandleOps, AcqOps, Handles
<1>3. Rank(c.op) = 4
  BY <1>1 DEF Rank, AcqOps
<1>4. PICK i \in Int : i = 4
  OBVIOUS
<1>5. ListOf(t, <<c>>, {c}, i, i)
  BY <1>1, <1>2, <1>3, <1>4, ListOfOne
<1> QED
  BY <1>1, <1>4, <1>5

\* A handle is copied or moved to h, and L follows.
LEMMA TakesKeeps ==
    ASSUME IInv, NEW t \in Owners, NEW h \in Handles, NEW g \in Handles, h # g,
           Idle(t), Owner[h] = t, Owner[g] = t, ptr[g] \in Use[h],
           h \in Weaks \/ (h \in RCs /\ g \in RCs),
           ptr' = [ptr EXCEPT ![h] = ptr[g]],
           NEW L, NEW Z, Follows(g, L, Z),
           todo' = [todo EXCEPT ![t] = ResetTodo(h, ptr[g]) \o L],
           UNCHANGED <<counter, weak_counter, status, faults>>
    PROVE  IInv'
<1> USE HandlesAssumption
<1>1. Typed
  BY DEF IInv
<1> PICK held \in Held : HInv(held)
  BY DEF IInv
<1>2. PICK p : p = ptr[g]
  OBVIOUS
<1>3. p \in Objs /\ p \in Use[h]
  BY <1>2
<1>4. PICK R, a : Resetting(h, p, R, a) /\ ListOf(t, ResetTodo(h, p), R \cup {a}, 2, 3)
  BY <1>1, <1>3, ResetList
<1>5. Items(t) = {}
  BY <1>1, Listed DEF Idle
<1>6. ptr'[h] = p /\ \A k \in Handles : k # h => ptr'[k] = ptr[k]
  BY <1>1, <1>2 DEF Typed
<1>7. /\ ListOf(t, L, Z, 4, 4)
      /\ \A z \in Z : z.op = "clear" /\ z.h = g /\ z.obj = Null
      /\ \A y, z \in Z : y = z
  <2>1. CASE L = <<>> /\ Z = {}
    BY <2>1, NoItems DEF ListOf
  <2>2. ASSUME g \in RCs \cup Weaks, NEW c, L = <<c>>, Z = {c},
               c = [op |-> "clear", obj |-> Null, h |-> g]
        PROVE  ListOf(t, L, Z, 4, 4) /\ c.op = "clear" /\ c.h = g /\ c.obj = Null
    BY <2>2, ClearItem
  <2> QED
    BY <2>1, <2>2 DEF Follows
<1>8. ListOf(t, ResetTodo(h, p) \o L, R \cup {a} \cup Z, 2, 4)
  BY <1>4, <1>7, Appended
<1>9. /\ OrderedThen
      /\ \A s \in Owners : s # t => Items(s)' = Items(s)
      /\ Items(t)' = R \cup {a} \cup Z
  <2>1. PICK M : M = ResetTodo(h, p) \o L
    OBVIOUS
  <2>2. /\ M \in Seq(Accesses) /\ Sorted(M) /\ ItemsOf(M) = R \cup {a} \cup Z
        /\ \A x \in ItemsOf(M) : Fits(t, x)
    BY <2>1, <1>8 DEF ListOf
  <2> QED
    BY <2>1, <2>2, <1>1, <1>2, Opens
<1>10. /\ a.op = AcquireOp(h) /\ a.obj = p /\ a.h = h
       /\ \/ ptr[h] = Null /\ R = {}
          \/ /\ ptr[h] # Null
             /\ \E r \in R : R = {r} /\ r.op = ReleaseOp(h) /\ r.obj = ptr[h] /\ r.h = h
  BY <1>4 DEF Resetting
<1>11. held[g] = p
  BY <1>1, <1>2, <1>5, CountedAsHeld DEF Still
<1>12. Knows(held, t, p)
  BY <1>2 DEF Knows
<1>13. \A y \in Items(t)' : y.op \in HandleOps => y.h = h \/ y.op = "clear"
  BY <1>7, <1>9, <1>10
<1>14. Source(held, t, a)'
  <2>1. \A y \in Items(t)' : y.op \in RelOps => y.h # g
    BY <1>13 DEF HandleOps, RelOps
  <2>2. h \in RCs => g \in RCs
    OBVIOUS
  <2>3. h \notin Uniques
    OBVIOUS
  <2> QED
    BY <2>1, <2>2, <2>3, <1>10, <1>11 DEF Source
<1>15. \A z \in Z : /\ z.op \in {"detach", "clear"} /\ z.h # h
                    /\ z.obj = p \/ z.obj \notin Objs
                    /\ Item(held, t, z)'
  <2> TAKE z \in Z
  <2>1. z.op = "clear" /\ z.h = g /\ z.obj = Null
    BY <1>7
  <2>2. ptr'[g] # Null
    BY <1>2, <1>3, <1>6
  <2>3. ASSUME NEW y \in Items(t)', y # z, y.op \in HandleOps
        PROVE  y.h # g
    <3>1. CASE y \in Z
      BY <3>1, <2>3, <1>7
    <3>2. CASE y \in R \cup {a}
      BY <3>2, <1>10
    <3> QED
      BY <3>1, <3>2, <2>3, <1>9
  <2>4. Clearing(t, z)'
    BY <2>1, <2>2, <2>3 DEF Clearing
  <2>5. Item(held, t, z)'
    BY <2>1, <2>4 DEF Item, Releasing, Detaching, Acquiring, Locking, Granted, Deciding, RelOps, AcqOps
  <2> QED
    BY <2>1, <2>5
<1>16. /\ ptr' \in [Handles -> Objs \cup {Null}]
       /\ \A k \in Handles : ptr'[k] \in Use[k] \cup {Null}
       /\ counter' \in [Objs -> Nat] /\ weak_counter' \in [Objs -> Nat]
       /\ status' \in [Objs -> {"none", "alive", "deleted"}] /\ faults' = {}
  BY <1>1, <1>3, <1>6 DEF Typed
<1>17. HInv(held)'
  <2>1. Besides(held, t, h, p, Z)
    BY <1>15 DEF Besides
  <2>2. Pointed(t, h, p, Z)
    BY <1>6, <1>16 DEF Pointed
  <2>3. Supplied(held, t, p, a)
    BY <1>12, <1>14 DEF Supplied
  <2> QED
    BY <2>1, <2>2, <2>3, <1>1, <1>3, <1>4, <1>5, <1>9, Resets
<1> QED
  BY <1>9, <1>16, <1>17, IInvThen

\* The copies of RC, and of any handle to RCWeak.
LEMMA CopyKeeps ==
    ASSUME Confined, IInv, NEW t \in Owners, NEW h \in Handles, NEW g \in Handles, Copy(t, h, g)
    PROVE  IInv'
<1>1. /\ Idle(t) /\ Owner[h] = t /\ Owner[g] = t /\ ptr[g] \in Use[h] /\ h # g
      /\ h \in Weaks \/ (h \in RCs /\ g \in RCs)
      /\ ptr' = [ptr EXCEPT ![h] = ptr[g]]
      /\ todo' = [todo EXCEPT ![t] = ResetTodo(h, ptr[g])]
      /\ UNCHANGED <<counter, weak_counter, status, faults>>
  BY DEF Copy, Free, Confined
<1>2. PICK L : L = <<>>
  OBVIOUS
<1>3. PICK Z : Z = {}
  OBVIOUS
<1>4. ResetTodo(h, ptr[g]) = ResetTodo(h, ptr[g]) \o L
  <2>1. Typed /\ ptr[g] \in Objs
    BY <1>1, HandlesAssumption DEF IInv
  <2>2. ResetTodo(h, ptr[g]) \in Seq(Accesses)
    BY <2>1, <1>1, ResetList DEF ListOf
  <2> QED
    BY <2>2, <1>2, NoItems
<1>5. Follows(g, L, Z)
  BY <1>2, <1>3 DEF Follows
<1>6. todo' = [todo EXCEPT ![t] = ResetTodo(h, ptr[g]) \o L]
  BY <1>1, <1>4
<1> QED
  BY <1>1, <1>5, <1>6, TakesKeeps

\* The move assignments of RC and RCWeak.
LEMMA MoveAssignKeeps ==
    ASSUME Confined, IInv, NEW t \in Owners, NEW h \in Handles, NEW g \in Handles,
           MoveAssign(t, h, g)
    PROVE  IInv'
<1>1. /\ Idle(t) /\ Owner[h] = t /\ Owner[g] = t /\ ptr[g] \in Use[h] /\ h # g
      /\ (h \in Weaks /\ g \in Weaks) \/ (h \in RCs /\ g \in RCs)
      /\ ptr' = [ptr EXCEPT ![h] = ptr[g]]
      /\ todo' = [todo EXCEPT ![t] = ResetTodo(h, ptr[g]) \o DoFor(g, "clear", Null)]
      /\ UNCHANGED <<counter, weak_counter, status, faults>>
  BY DEF MoveAssign, Free, Confined
<1>2. PICK c : c = [op |-> "clear", obj |-> Null, h |-> g]
  OBVIOUS
<1>3. PICK L : L = <<c>>
  OBVIOUS
<1>4. PICK Z : Z = {c}
  OBVIOUS
<1>5. Follows(g, L, Z)
  BY <1>1, <1>2, <1>3, <1>4 DEF Follows
<1>6. todo' = [todo EXCEPT ![t] = ResetTodo(h, ptr[g]) \o L]
  BY <1>1, <1>2, <1>3 DEF DoFor
<1> QED
  BY <1>1, <1>5, <1>6, TakesKeeps

\* A detach, which leads the list of an operation.
LEMMA DetachItem ==
    ASSUME NEW t \in Owners, NEW u \in Uniques, Owner[u] = t, NEW p \in Objs,
           NEW c, c = [op |-> "detach", obj |-> p, h |-> u]
    PROVE  ListOf(t, <<c>>, {c}, 1, 1) /\ c.op = "detach" /\ c.h = u /\ c.obj = p
<1>1. c \in Accesses /\ c.op = "detach" /\ c.h = u /\ c.obj = p
  BY DEF Accesses, Ops, HandleOps, RelOps, Handles
<1>2. Fits(t, c)
  BY <1>1, HandlesAssumption DEF Fits, HandleOps, RelOps, AcqOps, Handles
<1>3. Rank(c.op) = 1
  BY <1>1 DEF Rank
<1>4. PICK i \in Int : i = 1
  OBVIOUS
<1>5. ListOf(t, <<c>>, {c}, i, i)
  BY <1>1, <1>2, <1>3, <1>4, ListOfOne
<1> QED
  BY <1>1, <1>4, <1>5

\* What an RCUnique of an idle thread owns is known to no other handle.
LEMMA OwnedAlone ==
    ASSUME Confined, Typed, NEW held, HInv(held), NEW t \in Owners, Still(t),
           NEW u \in Uniques, Owner[u] = t, ptr[u] # Null
    PROVE  /\ held[u] = ptr[u] /\ ptr[u] \in Objs /\ Alone(held, t, ptr[u])
           /\ \A g \in Handles : g # u => held[g] # ptr[u]
<1> USE HandlesAssumption
<1>1. PICK p : p = ptr[u]
  OBVIOUS
<1>2. u \in Handles /\ held[u] = p /\ p \in Objs /\ p \in Use[u]
  <2>1. u \in Handles
    BY DEF Handles
  <2> QED
    BY <2>1, <1>1, CountedAsHeld DEF Typed
<1>3. ~HasWeak(p)
  BY <1>2 DEF Confined
<1>4. ASSUME NEW g \in Handles, g # u, held[g] = p
      PROVE  FALSE
  <2>1. g \in Strong
    BY <1>2, <1>3, <1>4 DEF HInv, Counting, HasWeak, Strong, Handles
  <2> QED
    BY <2>1, <1>2, <1>4 DEF HInv, Counting
<1>5. Alone(held, t, p)
  <2> SUFFICES ASSUME NEW s \in Owners, s # t, Knows(held, s, p) PROVE FALSE
    BY DEF Alone
  <2>1. Knows(held, t, p)
    BY <1>1, <1>2 DEF Knows
  <2> PICK k \in Strong : Owner[k] = s /\ held[k] = p
    BY <2>1, <1>2, <1>3, Shares
  <2>2. k \in Handles /\ k # u
    BY DEF Strong, Handles
  <2> QED
    BY <2>2, <1>4
<1> QED
  BY <1>1, <1>2, <1>4, <1>5

\* An RCUnique is moved to an RC or to another RCUnique.
LEMMA MoveUniqueKeeps ==
    ASSUME Confined, IInv, NEW t \in Owners, NEW h \in Handles, NEW u \in Handles,
           MoveUnique(t, h, u)
    PROVE  IInv'
<1> USE HandlesAssumption
<1>1. Typed
  BY DEF IInv
<1> PICK held \in Held : HInv(held)
  BY DEF IInv
<1>2. PICK p : p = ptr[u]
  OBVIOUS
<1>3. PICK c : c = [op |-> "detach", obj |-> p, h |-> u]
  OBVIOUS
<1>4. h # u /\ u \in Uniques /\ h \notin Weaks /\ Owner[h] = t /\ Owner[u] = t /\ Idle(t)
  BY DEF MoveUnique, Free, Confined
<1>5. /\ ptr' = [ptr EXCEPT ![h] = p, ![u] = Null] /\ p \in Use[h] /\ p \in Objs /\ p # Null
      /\ UNCHANGED <<counter, weak_counter, status, faults>>
  BY <1>2, <1>4 DEF MoveUnique, Moved
<1>6. todo' = [todo EXCEPT ![t] = <<c>> \o DoIf(h, ReleaseOp(h), ptr[h])
                                        \o DoIf(h, AcquireOp(h), p)]
  BY <1>2, <1>3, <1>4, <1>5 DEF MoveUnique, DoFor, DoIf
<1>7. PICK R, a : Resetting(h, p, R, a) /\ ListOf(t, ResetTodo(h, p), R \cup {a}, 2, 3)
  BY <1>1, <1>4, <1>5, ResetList
<1>8. PICK C : C = <<c>>
  OBVIOUS
<1>9. ListOf(t, C, {c}, 1, 1) /\ c.op = "detach" /\ c.h = u /\ c.obj = p
  BY <1>3, <1>4, <1>5, <1>8, DetachItem
<1>10. PICK M : M = C \o ResetTodo(h, p)
  OBVIOUS
<1>11. ListOf(t, M, {c} \cup (R \cup {a}), 1, 3)
  BY <1>7, <1>9, <1>10, Appended
<1>12. todo' = [todo EXCEPT ![t] = M]
  <2>1. PICK K : K = DoIf(h, ReleaseOp(h), ptr[h])
    OBVIOUS
  <2>2. PICK L : L = DoIf(h, AcquireOp(h), p)
    OBVIOUS
  <2>3. K \in Seq(Accesses)
    <3>1. CASE ptr[h] = Null
      BY <3>1, <2>1, NoItems DEF DoIf
    <3>2. CASE ptr[h] # Null
      <4> PICK d \in Accesses : K = <<d>>
        BY <3>2, <2>1, <1>1, <1>4, ReleaseItem
      <4> QED
        BY Single
    <3> QED
      BY <3>1, <3>2
  <2>4. L \in Seq(Accesses)
    <3> PICK d \in Accesses : L = <<d>>
      BY <2>2, <1>4, <1>5, AcquireItem
    <3> QED
      BY Single
  <2>5. C \in Seq(Accesses)
    BY <1>9 DEF ListOf
  <2>6. (C \o K) \o L = C \o (K \o L)
    BY <2>3, <2>4, <2>5, ConcatAssociative
  <2>7. M = C \o (K \o L)
    BY <2>1, <2>2, <1>10 DEF ResetTodo
  <2> QED
    BY <2>1, <2>2, <2>6, <2>7, <1>6, <1>8
<1>13. PICK Z : Z = {c}
  OBVIOUS
<1>14. /\ Items(t) = {} /\ OrderedThen
       /\ \A s \in Owners : s # t => Items(s)' = Items(s)
       /\ Items(t)' = R \cup {a} \cup Z
  <2>1. /\ M \in Seq(Accesses) /\ Sorted(M) /\ ItemsOf(M) = R \cup {a} \cup Z
        /\ \A x \in ItemsOf(M) : Fits(t, x)
    BY <1>11, <1>13 DEF ListOf
  <2> QED
    BY <2>1, <1>1, <1>4, <1>12, Opens
<1>15. Still(t)
  BY <1>14 DEF Still
<1>16. /\ held[u] = p /\ Alone(held, t, p)
       /\ \A g \in Handles : g # u => held[g] # p
  BY <1>1, <1>2, <1>4, <1>5, <1>15, OwnedAlone
<1>17. /\ ptr'[h] = p /\ ptr'[u] = Null
       /\ \A k \in Handles : k # h /\ k # u => ptr'[k] = ptr[k]
  BY <1>1, <1>4, <1>5 DEF Typed
<1>18. \A k \in Handles : Owner[k] = t => held[k] = ptr[k]
  BY <1>1, <1>15, CountedAsHeld
<1>19. /\ a.op \in AcqOps /\ a.obj = p /\ a.h = h
       /\ \A r \in R : r.obj = ptr[h] /\ r.h = h
  BY <1>7 DEF Resetting, AcquireOp, AcqOps, Handles
<1>20. Item(held, t, c)'
  <2>1. Releasing(held, t, c)'
    BY <1>9, <1>16, <1>17 DEF Releasing
  <2>2. Detaching(t, c)'
    <3>1. \E y \in Items(t)' : y.op \in AcqOps /\ y.obj = c.obj
      BY <1>9, <1>14, <1>19
    <3>2. \A y \in Items(t)' : y # c => y.h # c.h
      BY <1>4, <1>9, <1>13, <1>14, <1>19
    <3> QED
      BY <3>1, <3>2, <1>9, <1>17 DEF Detaching
  <2> QED
    BY <2>1, <2>2, <1>9 DEF Item, Acquiring, Locking, Clearing, Granted, Deciding, AcqOps
<1>21. Alone(held, t, p)' => Sole(held, t, a)'
  <2> SUFFICES ASSUME Alone(held, t, p)' PROVE Sole(held, t, a)'
    OBVIOUS
  <2>1. h \in Strong /\ held[h] # p
    BY <1>4, <1>16 DEF Strong, Handles
  <2>2. ASSUME NEW g \in Handles, Owner[g] = t, g # h
        PROVE  /\ ptr'[g] # p
               /\ held[g] = p => \E y \in Items(t)' : y.op = "detach" /\ y.h = g
    <3>1. CASE g = u
      BY <3>1, <1>5, <1>9, <1>13, <1>14, <1>17
    <3>2. CASE g # u
      BY <3>2, <2>2, <1>16, <1>17, <1>18
    <3> QED
      BY <3>1, <3>2
  <2>3. ASSUME NEW y \in Items(t)', y.obj = p
        PROVE  y = a \/ y.op = "detach"
    <3>1. y \notin R
      BY <2>1, <2>3, <1>4, <1>18, <1>19
    <3> QED
      BY <3>1, <1>9, <1>13, <1>14
  <2> QED
    BY <2>1, <2>2, <2>3, <1>19 DEF Sole
<1>22. /\ ptr' \in [Handles -> Objs \cup {Null}]
       /\ \A k \in Handles : ptr'[k] \in Use[k] \cup {Null}
       /\ counter' \in [Objs -> Nat] /\ weak_counter' \in [Objs -> Nat]
       /\ status' \in [Objs -> {"none", "alive", "deleted"}] /\ faults' = {}
  BY <1>1, <1>5 DEF Typed
<1>23. HInv(held)'
  <2>1. Besides(held, t, h, p, Z)
    BY <1>4, <1>9, <1>13, <1>20 DEF Besides
  <2>2. Pointed(t, h, p, Z)
    <3>1. \A k \in Handles : Owner[k] # t => ptr'[k] = ptr[k]
      BY <1>4, <1>17
    <3>2. \A k \in Handles : \/ k = h \/ ptr'[k] = ptr[k]
                             \/ ptr'[k] = Null /\ \E z \in Z : z.op = "detach" /\ z.h = k
      BY <1>9, <1>13, <1>17
    <3> QED
      BY <3>1, <3>2, <1>17, <1>22 DEF Pointed
  <2>3. Supplied(held, t, p, a)
    <3>1. Knows(held, t, p)
      BY <1>2, <1>4 DEF Knows
    <3> QED
      BY <3>1, <1>5, <1>16, <1>21 DEF Supplied
  <2> QED
    BY <2>1, <2>2, <2>3, <1>1, <1>4, <1>5, <1>7, <1>14, Resets
<1> QED
  BY <1>14, <1>22, <1>23, IInvThen

-----------------------------------------------------------------------------
(* The invariant holds of every state.                                     *)

\* The objects handed to the threads at the start are counted as they are held.
LEMMA StartsWell == RCInit => IInv
<1> SUFFICES ASSUME RCInit PROVE IInv
  OBVIOUS
<1> USE HandlesAssumption
<1>1. \A t \in Owners : todo[t] = <<>> /\ Items(t) = {}
  BY NoItems DEF RCInit, Items
<1>2. /\ ptr \in Held
      /\ \A o \in Objs : counter[o] = Counted1(ptr, Strong, o)
      /\ \A o \in Objs : weak_counter[o] = Counted1(ptr, Weaks, o)
  BY DEF RCInit, Held, Counted, Counted1, Strong
<1>3. /\ Strong \in SUBSET Handles /\ Weaks \in SUBSET Handles
      /\ \A h \in Handles : h \in Strong \/ h \in Weaks
  BY DEF Strong, Handles
<1>4. \A o \in Objs : counter[o] \in Nat /\ weak_counter[o] \in Nat
  BY <1>2, <1>3, Finite
<1>5. ASSUME NEW o \in Objs
      PROVE  counter[o] > 0 <=> \E h \in Handles : ptr[h] = o
  <2>1. counter[o] > 0 <=> \E h \in Strong : ptr[h] = o
    <3>1. Counted1(ptr, Strong, o) = 0 <=> \A h \in Strong : ptr[h] # o
      BY <1>3, CountZero
    <3> QED
      BY <3>1, <1>2, <1>4
  <2>2. weak_counter[o] > 0 <=> \E h \in Weaks : ptr[h] = o
    <3>1. Counted1(ptr, Weaks, o) = 0 <=> \A h \in Weaks : ptr[h] # o
      BY <1>3, CountZero
    <3> QED
      BY <3>1, <1>2, <1>4
  <2>3. weak_counter[o] > 0 => counter[o] > 0
    BY DEF RCInit
  <2> QED
    BY <2>1, <2>2, <2>3, <1>3
<1>6. Typed
  <2>1. counter \in [Objs -> Nat] /\ weak_counter \in [Objs -> Nat]
    BY <1>4 DEF RCInit, Counted
  <2>2. todo \in [Owners -> Seq(Accesses)] /\ \A t \in Owners : Sorted(todo[t])
    BY <1>1, NoItems DEF RCInit
  <2> QED
    BY <2>1, <2>2, <1>1 DEF Typed, RCInit
<1>7. Counting(ptr)
  BY <1>2 DEF Counting, RCInit, Strong, Handles
<1>8. \A t \in Owners : Scheduled(ptr, t)
  BY <1>1 DEF Scheduled
<1>9. Living(ptr)
  <2>1. ASSUME NEW t \in Owners, NEW o \in Objs, Knows(ptr, t, o)
        PROVE  status[o] = "alive"
    <3>1. \E h \in Handles : ptr[h] = o
      BY <2>1, <1>1 DEF Knows
    <3> QED
      BY <3>1, <1>5 DEF RCInit
  <2>2. ASSUME NEW o \in Objs, status[o] = "alive"
        PROVE  \E h \in Handles : ptr[h] = o
    BY <2>2, <1>5 DEF RCInit
  <2> QED
    BY <2>1, <2>2 DEF Living
<1> QED
  BY <1>2, <1>6, <1>7, <1>8, <1>9 DEF IInv, HInv

\* A step of nobody.
LEMMA Stutters ==
    ASSUME IInv, UNCHANGED rcVars
    PROVE  IInv'
<1> PICK held \in Held : HInv(held)
  BY DEF IInv
<1>1. UNCHANGED <<ptr, counter, weak_counter, status, todo, faults>>
  BY DEF rcVars
<1>2. \A t \in Owners : Items(t)' = Items(t)
  BY <1>1 DEF Items
<1>3. Typed'
  BY <1>1, <1>2 DEF IInv, Typed
<1>4. \A t \in Owners, o \in Objs : Knows(held, t, o)' <=> Knows(held, t, o)
  BY <1>1, <1>2 DEF Knows
<1>5. ASSUME NEW t \in Owners PROVE Scheduled(held, t)'
  <2>1. ASSUME NEW x \in Items(t) PROVE Item(held, t, x)'
    <3>1. Item(held, t, x)
      BY DEF HInv, Scheduled
    <3>2. Item(held, t, x)' <=> Item(held, t, x)
      BY <1>1 DEF Item, Releasing, Detaching, Acquiring, Locking, Clearing, Granted, Source, Sole,
                  Deciding, Alone, Knows, Items
    <3> QED
      BY <3>1, <3>2
  <2> QED
    BY <2>1, <1>2 DEF Scheduled
<1>6. Counting(held)'
  <2>1. \A h \in Handles : Quiet(h)' <=> Quiet(h)
    BY <1>1, <1>2, HandlesAssumption DEF Quiet
  <2> QED
    BY <2>1, <1>1 DEF HInv, Counting
<1>7. Living(held)'
  BY <1>1, <1>2, <1>4 DEF HInv, Living
<1> QED
  BY <1>3, <1>5, <1>6, <1>7 DEF IInv, HInv

\* Every access keeps the invariant.
LEMMA AccessKeeps ==
    ASSUME Confined, IInv, NEW t \in Owners, Access(t)
    PROVE  IInv'
BY AddRefKeeps, WeakAddRefKeeps, SetUniqueKeeps, ReleaseKeeps, DetachKeeps, WeakCountKeeps,
   WeakReleaseKeeps, CountKeeps, DeleteKeeps, LockCountKeeps, ClearMovedKeeps DEF Access

\* Every operation keeps the invariant.
LEMMA OperationKeeps ==
    ASSUME Confined, IInv, NEW t \in Owners, Operation(t)
    PROVE  IInv'
BY ClearKeeps, CreateKeeps, CopyKeeps, MoveAssignKeeps, MoveConstructKeeps, MoveUniqueKeeps,
   SwapKeeps, LockKeeps DEF Operation

\* In a Confined program every reachable state has an assignment held of objects to
\* handles that the counters count exactly; what a thread still has to do leads from
\* held to ptr, and every object that a thread knows of is alive.
THEOREM Invariance == ASSUME Confined PROVE RCSpec => []IInv
<1>1. RCInit => IInv
  BY StartsWell
<1>2. IInv /\ [RCNext]_rcVars => IInv'
  <2> SUFFICES ASSUME IInv, [RCNext]_rcVars PROVE IInv'
    OBVIOUS
  <2>1. CASE RCNext
    BY <2>1, AccessKeeps, OperationKeeps DEF RCNext
  <2>2. CASE UNCHANGED rcVars
    BY <2>2, Stutters
  <2> QED
    BY <2>1, <2>2
<1> QED
  BY <1>1, <1>2, PTL DEF RCSpec

\* A handle of a thread between operations is counted for what it points to.
LEMMA IdleHandle ==
    ASSUME Typed, NEW held, HInv(held), NEW h \in Handles, Idle(Owner[h])
    PROVE  held[h] = ptr[h]
<1>1. Owner[h] \in Owners
  BY HandlesAssumption
<1>2. Still(Owner[h])
  BY <1>1, Listed DEF Idle, Still
<1> QED
  BY <1>1, <1>2, CountedAsHeld

\* An object is deleted once, when no handle refers to it; no access of a handle, and
\* no handle of a thread that is between operations, meets a deleted object.
THEOREM DeletedOnce == ASSUME Confined PROVE RCSpec => []DestroyedOnce
<1>1. IInv => DestroyedOnce
  <2> SUFFICES ASSUME IInv PROVE DestroyedOnce
    OBVIOUS
  <2>1. NoFaults
    BY DEF NoFaults, IInv, Typed
  <2>2. ASSUME NEW h \in Handles, ptr[h] # Null
        PROVE  status[ptr[h]] = "alive"
    <3>1. ptr[h] \in Objs /\ Owner[h] \in Owners
      BY <2>2, HandlesAssumption DEF IInv, Typed
    <3> PICK held \in Held : HInv(held)
      BY DEF IInv
    <3>2. Knows(held, Owner[h], ptr[h])
      BY DEF Knows
    <3> QED
      BY <3>1, <3>2 DEF HInv, Living
  <2> QED
    BY <2>1, <2>2 DEF DestroyedOnce, NoDangling
<1>2. RCSpec => []IInv
  BY Invariance
<1> QED
  BY <1>1, <1>2, PTL

\* Between operations the counters are the numbers of handles, an object is alive as
\* long as a handle refers to it, and what an RCUnique owns has no other strong handle;
\* the counters never exceed the number of handles.
THEOREM CountsAreHandles == ASSUME Confined PROVE RCSpec => []LifetimeIsHandles
<1>1. IInv => LifetimeIsHandles
  <2> SUFFICES ASSUME IInv PROVE LifetimeIsHandles
    OBVIOUS
  <2> USE HandlesAssumption
  <2>1. Typed
    BY DEF IInv
  <2> PICK held \in Held : HInv(held)
    BY DEF IInv
  <2>2. Strong \in SUBSET Handles /\ Weaks \in SUBSET Handles
    BY DEF Strong, Handles
  <2>3. \A o \in Objs : /\ counter[o] = Counted1(held, Strong, o)
                        /\ weak_counter[o] = Counted1(held, Weaks, o)
    BY DEF HInv, Counting
  <2>4. RCTypeInv
    <3>1. Cardinality(Handles) \in Nat
      BY FS_CardinalityType
    <3>2. \A o \in Objs : /\ counter[o] \in 0 .. Cardinality(Handles)
                          /\ weak_counter[o] \in 0 .. Cardinality(Handles)
      <4> TAKE o \in Objs
      <4>1. /\ Counted1(held, Strong, o) \in Nat
            /\ Counted1(held, Strong, o) <= Cardinality(Handles)
        BY <2>2, Finite
      <4>2. /\ Counted1(held, Weaks, o) \in Nat
            /\ Counted1(held, Weaks, o) <= Cardinality(Handles)
        BY <2>2, Finite
      <4> QED
        BY <4>1, <4>2, <3>1, <2>3
    <3> QED
      BY <3>2, <2>1 DEF RCTypeInv, Typed
  <2>5. ASSUME AllIdle
        PROVE  \A h \in Handles : held[h] = ptr[h]
    BY <2>1, <2>5, IdleHandle DEF AllIdle
  <2>6. ASSUME AllIdle
        PROVE  /\ counter = Counted(ptr, RCs \cup Uniques)
               /\ weak_counter = Counted(ptr, Weaks)
    <3>1. ASSUME NEW o \in Objs, NEW hs \in SUBSET Handles
          PROVE  Counted1(held, hs, o) = Cardinality({h \in hs : ptr[h] = o})
      <4>1. {h \in hs : held[h] = o} = {h \in hs : ptr[h] = o}
        BY <2>5, <2>6
      <4> QED
        BY <4>1 DEF Counted1
    <3>2. \A o \in Objs : /\ counter[o] = Counted(ptr, Strong)[o]
                          /\ weak_counter[o] = Counted(ptr, Weaks)[o]
      BY <3>1, <2>2, <2>3 DEF Counted
    <3>3. counter \in [Objs -> Nat] /\ weak_counter \in [Objs -> Nat]
      BY <2>1 DEF Typed
    <3>4. counter = [o \in Objs |-> counter[o]] /\ weak_counter = [o \in Objs |-> weak_counter[o]]
      BY <3>3
    <3> QED
      BY <3>2, <3>4 DEF Counted, Strong
  <2>7. ASSUME AllIdle, NEW o \in Objs
        PROVE  status[o] = "alive" <=> \E h \in Handles : ptr[h] = o
    <3>1. ASSUME NEW h \in Handles, ptr[h] = o
          PROVE  status[o] = "alive"
      <4>1. Owner[h] \in Owners /\ Knows(held, Owner[h], o)
        BY <3>1 DEF Knows
      <4> QED
        BY <4>1 DEF HInv, Living
    <3>2. \A t \in Owners : Items(t) = {}
      BY <2>1, <2>7, Listed DEF AllIdle, Idle
    <3>3. status[o] = "alive" => \E h \in Handles : held[h] = o
      BY <3>2 DEF HInv, Living
    <3> QED
      BY <3>1, <3>3, <2>5, <2>7
  <2>8. ASSUME AllIdle, NEW u \in Uniques, NEW h \in RCs \cup Uniques, u # h, ptr[u] # Null
        PROVE  ptr[h] # ptr[u]
    <3>1. h \in Strong /\ u \in Handles /\ h \in Handles
      BY DEF Strong, Handles
    <3>2. held[h] = ptr[h] /\ held[u] = ptr[u]
      BY <3>1, <2>5, <2>8
    <3> QED
      BY <3>1, <3>2, <2>8 DEF HInv, Counting
  <2>9. CountersAreHandles
    BY <2>6 DEF CountersAreHandles
  <2>10. DestroyedAtZero
    BY <2>7 DEF DestroyedAtZero
  <2>11. UniqueIsUnique
    BY <2>8 DEF UniqueIsUnique
  <2> QED
    BY <2>4, <2>9, <2>10, <2>11 DEF LifetimeIsHandles
<1>2. RCSpec => []IInv
  BY Invariance
<1> QED
  BY <1>1, <1>2, PTL
=============================================================================
