----------------------- MODULE SharedAtomicMutexProofs -----------------------
(***************************************************************************)
(* Mutual exclusion and writer priority of shared_atomic_mutex, for every  *)
(* finite set of threads that the fields of the word can count.            *)
(***************************************************************************)
EXTENDS SharedAtomicMutex, FiniteSetTheorems, TLAPS

\* Adding to fields that stay in range carries nothing over.
LEMMA PlusInRange ==
    ASSUME NEW w \in Word, NEW df \in Int, NEW du \in Int, NEW ds \in Int,
           w.flag + df \in 0 .. 1,
           w.unique + du \in 0 .. UniqueLimit - 1,
           w.shared + ds \in 0 .. SharedLimit - 1
    PROVE  Plus(w, df, du, ds) = [flag |-> w.flag + df, unique |-> w.unique + du,
                                  shared |-> w.shared + ds]
BY LimitsAssumption DEF Plus, Wrapped, Carry, Word

\* A thread that moves to another step joins or leaves the sets At(...).
LEMMA MoveThread ==
    ASSUME NEW t \in Lockers, NEW s, NEW steps, MutexTypeInv,
           pc' = [pc EXCEPT ![t] = s]
    PROVE  At(steps)' = IF s \in steps THEN At(steps) \cup {t} ELSE At(steps) \ {t}
BY DEF At, MutexTypeInv

\* The sets of threads are finite, and joining or leaving one counts as one.
LEMMA CountMoves ==
    ASSUME NEW steps, NEW t \in Lockers
    PROVE  /\ IsFiniteSet(At(steps))
           /\ Cardinality(At(steps)) \in 0 .. Cardinality(Lockers)
           /\ t \notin At(steps) =>
                Cardinality(At(steps) \cup {t}) = Cardinality(At(steps)) + 1
           /\ t \in At(steps) =>
                Cardinality(At(steps) \ {t}) = Cardinality(At(steps)) - 1
           /\ t \in At(steps) => At(steps) \cup {t} = At(steps)
           /\ t \notin At(steps) => At(steps) \ {t} = At(steps)
<1>1. At(steps) \in SUBSET Lockers
  BY DEF At
<1>2. IsFiniteSet(At(steps)) /\ Cardinality(At(steps)) <= Cardinality(Lockers)
  BY <1>1, ThreadsAssumption, FS_Subset
<1>3. Cardinality(At(steps)) \in Nat /\ Cardinality(Lockers) \in Nat
  BY <1>2, ThreadsAssumption, FS_CardinalityType
<1>4. t \notin At(steps) =>
        Cardinality(At(steps) \cup {t}) = Cardinality(At(steps)) + 1
  BY <1>2, FS_AddElement
<1>5. t \in At(steps) =>
        Cardinality(At(steps) \ {t}) = Cardinality(At(steps)) - 1
  BY <1>2, FS_RemoveElement
<1> QED
  BY <1>2, <1>3, <1>4, <1>5

\* No thread is counted as a reader and as a writer.
LEMMA FewerThanThreads ==
    Cardinality(Readers) + Cardinality(Announced) <= Cardinality(Lockers)
<1>1. /\ IsFiniteSet(Readers) /\ IsFiniteSet(Announced)
      /\ Readers \cup Announced \in SUBSET Lockers
      /\ Readers \cap Announced = {}
  <2>1. Readers \in SUBSET Lockers /\ Announced \in SUBSET Lockers
    BY DEF Readers, Announced, At
  <2> QED
    BY <2>1, ThreadsAssumption, FS_Subset DEF Readers, Announced, At
<1>2. /\ Cardinality(Readers \cup Announced) =
           Cardinality(Readers) + Cardinality(Announced) - Cardinality({})
      /\ IsFiniteSet(Readers \cup Announced)
  BY <1>1, FS_Union
<1>3. Cardinality(Readers \cup Announced) <= Cardinality(Lockers)
  BY <1>1, ThreadsAssumption, FS_Subset
<1>4. /\ Cardinality(Readers) \in Nat /\ Cardinality(Announced) \in Nat
      /\ Cardinality({}) = 0
  BY <1>1, FS_CardinalityType, FS_EmptySet
<1> QED
  BY <1>2, <1>3, <1>4

\* Initially nobody is counted and nobody is there.
LEMMA InitIInv == MutexInit => MutexInv
<1> SUFFICES ASSUME MutexInit PROVE MutexInv
  OBVIOUS
<1>1. Readers = {} /\ Announced = {} /\ Writers = {}
  BY DEF MutexInit, Readers, Announced, Writers, At
<1>2. Cardinality({}) = 0 /\ Cardinality(Lockers) \in Nat
  BY FS_EmptySet, FS_CardinalityType, ThreadsAssumption
<1>3. MutexTypeInv
  BY <1>2, LimitsAssumption DEF MutexInit, MutexTypeInv, Word
<1>4. FieldsCount
  BY <1>1, <1>2 DEF MutexInit, FieldsCount
<1>5. OldvalMasked /\ NoReaderUnderFlag
  BY DEF MutexInit, OldvalMasked, NoReaderUnderFlag
<1> QED
  BY <1>3, <1>4, <1>5 DEF MutexInv

\* However many threads are where, a count is a count of threads.
LEMMA CountRange == \A steps : Cardinality(At(steps)) \in 0 .. Cardinality(Lockers)
<1> TAKE steps
<1>1. At(steps) \in SUBSET Lockers
  BY DEF At
<1>2. IsFiniteSet(At(steps)) /\ Cardinality(At(steps)) <= Cardinality(Lockers)
  BY <1>1, ThreadsAssumption, FS_Subset
<1> QED
  BY <1>2, ThreadsAssumption, FS_CardinalityType

\* The counts after a thread has moved.
LEMMA CountAfter ==
    ASSUME NEW t \in Lockers, NEW s, NEW steps, MutexTypeInv,
           pc' = [pc EXCEPT ![t] = s]
    PROVE  Cardinality(At(steps)') = Cardinality(At(steps))
                                       + (IF s \in steps THEN 1 ELSE 0)
                                       - (IF pc[t] \in steps THEN 1 ELSE 0)
<1>1. t \in At(steps) <=> pc[t] \in steps
  BY DEF At
<1>2. At(steps)' = IF s \in steps THEN At(steps) \cup {t} ELSE At(steps) \ {t}
  BY MoveThread
<1>3. Cardinality(At(steps)) \in Nat
  BY CountMoves, ThreadsAssumption, FS_CardinalityType
<1>4. /\ t \notin At(steps) =>
           /\ Cardinality(At(steps) \cup {t}) = Cardinality(At(steps)) + 1
           /\ At(steps) \ {t} = At(steps)
      /\ t \in At(steps) =>
           /\ Cardinality(At(steps) \ {t}) = Cardinality(At(steps)) - 1
           /\ At(steps) \cup {t} = At(steps)
  BY CountMoves
<1>5. CASE s \in steps /\ pc[t] \in steps
  <2>1. At(steps)' = At(steps)
    BY <1>1, <1>2, <1>4, <1>5
  <2> QED
    BY <1>3, <1>5, <2>1
<1>6. CASE s \in steps /\ pc[t] \notin steps
  <2>1. At(steps)' = At(steps) \cup {t}
    BY <1>2, <1>6
  <2>2. Cardinality(At(steps)') = Cardinality(At(steps)) + 1
    BY <1>1, <1>4, <1>6, <2>1
  <2> QED
    BY <1>3, <1>6, <2>2
<1>7. CASE s \notin steps /\ pc[t] \in steps
  <2>1. At(steps)' = At(steps) \ {t}
    BY <1>2, <1>7
  <2>2. Cardinality(At(steps)') = Cardinality(At(steps)) - 1
    BY <1>1, <1>4, <1>7, <2>1
  <2> QED
    BY <1>3, <1>7, <2>2
<1>8. CASE s \notin steps /\ pc[t] \notin steps
  <2>1. At(steps)' = At(steps)
    BY <1>1, <1>2, <1>4, <1>8
  <2> QED
    BY <1>3, <1>8, <2>1
<1> QED
  BY <1>5, <1>6, <1>7, <1>8

\* What each field has to change by when a thread moves between two steps.
Ordinal(b) == IF b THEN 1 ELSE 0
Waiting == {"unique_load", "unique_cas", "unique"}
FlagStep(from, to) == Ordinal(to = "unique") - Ordinal(from = "unique")
UniqueStep(from, to) == Ordinal(to \in Waiting) - Ordinal(from \in Waiting)
SharedStep(from, to) == Ordinal(to = "shared") - Ordinal(from = "shared")

\* The same for the three sets that the fields count, with their new ranges.
LEMMA FieldsAfter ==
    ASSUME NEW t \in Lockers, NEW s, MutexInv, pc' = [pc EXCEPT ![t] = s]
    PROVE  /\ Cardinality(Readers') = bitfield.shared + SharedStep(pc[t], s)
           /\ Cardinality(Announced') = bitfield.unique + UniqueStep(pc[t], s)
           /\ Cardinality(Writers') = bitfield.flag + FlagStep(pc[t], s)
           /\ Cardinality(Readers') \in 0 .. SharedLimit - 1
           /\ Cardinality(Announced') \in 0 .. UniqueLimit - 1
           /\ Cardinality(Writers') \in Nat
           /\ Cardinality(Readers') + Cardinality(Announced') <= Cardinality(Lockers)
<1>1. MutexTypeInv /\ FieldsCount
  BY DEF MutexInv
<1>2. /\ Cardinality(Readers') = bitfield.shared + SharedStep(pc[t], s)
      /\ Cardinality(Announced') = bitfield.unique + UniqueStep(pc[t], s)
      /\ Cardinality(Writers') = bitfield.flag + FlagStep(pc[t], s)
  <2> DEFINE After(steps) == Cardinality(At(steps)') = Cardinality(At(steps))
                               + (IF s \in steps THEN 1 ELSE 0)
                               - (IF pc[t] \in steps THEN 1 ELSE 0)
  <2>0. \A steps : After(steps)
    BY <1>1, CountAfter
  <2>1. After({"shared"})
    BY <2>0
  <2>2. After({"unique_load", "unique_cas", "unique"})
    <3> HIDE DEF After
    <3> QED
      BY <2>0
  <2>3. After({"unique"})
    BY <2>0
  <2> QED
    BY <1>1, <2>1, <2>2, <2>3
       DEF FieldsCount, Readers, Announced, Writers, MutexTypeInv, Word,
           SharedStep, UniqueStep, FlagStep, Ordinal, Waiting
<1>3. /\ Cardinality(Readers') \in 0 .. Cardinality(Lockers)
      /\ Cardinality(Announced') \in 0 .. Cardinality(Lockers)
      /\ Cardinality(Writers') \in 0 .. Cardinality(Lockers)
  <2>1. (\A steps : Cardinality(At(steps)) \in 0 .. Cardinality(Lockers))'
    BY CountRange, PTL
  <2> QED
    BY <2>1 DEF Readers, Announced, Writers
<1>4. Cardinality(Readers') + Cardinality(Announced') <= Cardinality(Lockers)
  <2>1. (Cardinality(Readers) + Cardinality(Announced) <= Cardinality(Lockers))'
    BY FewerThanThreads, PTL
  <2> QED
    BY <2>1
<1>5. Cardinality(Lockers) \in Nat
  BY ThreadsAssumption, FS_CardinalityType
<1> QED
  BY <1>2, <1>3, <1>4, <1>5, LimitsAssumption

\* The part of the invariant that follows once the new word has been computed.
LEMMA WordAfter ==
    ASSUME NEW t \in Lockers, NEW s, MutexInv, pc' = [pc EXCEPT ![t] = s],
           bitfield' = Plus(bitfield, FlagStep(pc[t], s), UniqueStep(pc[t], s),
                            SharedStep(pc[t], s)),
           bitfield.flag + FlagStep(pc[t], s) <= 1
    PROVE  /\ FieldsCount'
           /\ bitfield' \in Word
           /\ bitfield'.shared + bitfield'.unique <= Cardinality(Lockers)
           /\ bitfield'.flag = bitfield.flag + FlagStep(pc[t], s)
           /\ bitfield'.shared = bitfield.shared + SharedStep(pc[t], s)
<1> DEFINE df == FlagStep(pc[t], s)
           du == UniqueStep(pc[t], s)
           ds == SharedStep(pc[t], s)
<1>1. bitfield \in Word
  BY DEF MutexInv, MutexTypeInv
<1>2. df \in Int /\ du \in Int /\ ds \in Int
  BY DEF FlagStep, UniqueStep, SharedStep, Ordinal
<1>3. /\ Cardinality(Readers') = bitfield.shared + ds
      /\ Cardinality(Announced') = bitfield.unique + du
      /\ Cardinality(Writers') = bitfield.flag + df
      /\ Cardinality(Readers') \in 0 .. SharedLimit - 1
      /\ Cardinality(Announced') \in 0 .. UniqueLimit - 1
      /\ Cardinality(Writers') \in Nat
      /\ Cardinality(Readers') + Cardinality(Announced') <= Cardinality(Lockers)
  BY FieldsAfter
<1>0. bitfield.flag + df <= 1
  OBVIOUS
<1> HIDE DEF df, du, ds
<1>4. /\ bitfield.flag + df \in 0 .. 1
      /\ bitfield.unique + du \in 0 .. UniqueLimit - 1
      /\ bitfield.shared + ds \in 0 .. SharedLimit - 1
  <2>1. bitfield.flag + df \in Nat
    BY <1>3
  <2>2. bitfield.flag + df \in 0 .. 1
    BY <1>0, <2>1
  <2>3. /\ bitfield.unique + du \in 0 .. UniqueLimit - 1
        /\ bitfield.shared + ds \in 0 .. SharedLimit - 1
    BY <1>3
  <2> QED
    BY <2>2, <2>3
<1>5. bitfield' = Plus(bitfield, df, du, ds)
  BY DEF df, du, ds
<1>6. bitfield' = [flag |-> bitfield.flag + df, unique |-> bitfield.unique + du,
                   shared |-> bitfield.shared + ds]
  BY <1>1, <1>2, <1>4, <1>5, PlusInRange
<1>7. FieldsCount'
  BY <1>3, <1>6 DEF FieldsCount
<1>8. bitfield' \in Word
  BY <1>4, <1>6 DEF Word
<1>9. bitfield'.shared + bitfield'.unique <= Cardinality(Lockers)
  BY <1>3, <1>6
<1> QED
  BY <1>6, <1>7, <1>8, <1>9 DEF df, ds

\* A thread that moves without touching the word, the marks of the upgrade or
\* the sets that are counted leaves the counts alone.
LEMMA LocalStep ==
    ASSUME NEW t \in Lockers, NEW s, MutexInv, pc' = [pc EXCEPT ![t] = s],
           UNCHANGED <<bitfield, upgrading, overtaken>>,
           s \in {"unique_cas", "shared_cas"}, oldval' \in [Lockers -> Word],
           s = "unique_cas" => pc[t] \in {"unique_load", "unique_cas"},
           s = "shared_cas" => pc[t] \in {"idle", "shared_cas"}
    PROVE  MutexTypeInv' /\ FieldsCount' /\ NoReaderUnderFlag'
<1>1. Readers' = Readers /\ Announced' = Announced /\ Writers' = Writers
  BY DEF MutexInv, MutexTypeInv, Readers, Announced, Writers, At
<1> QED
  BY <1>1 DEF MutexInv, MutexTypeInv, FieldsCount, NoReaderUnderFlag

\* Masking clears the fields that the exchange expects to be zero.
LEMMA Masks ==
    ASSUME NEW w \in Word
    PROVE  /\ NoSharedNoUnique(w) \in Word
           /\ NoSharedNoUnique(w).flag = 0 /\ NoSharedNoUnique(w).shared = 0
           /\ AnySharedNoUnique(w) \in Word
           /\ AnySharedNoUnique(w).flag = 0 /\ AnySharedNoUnique(w).unique = 0
<1>1. 0 \in 0 .. UniqueLimit - 1 /\ 0 \in 0 .. SharedLimit - 1
  BY LimitsAssumption, ThreadsAssumption, FS_CardinalityType
<1> QED
  BY <1>1 DEF NoSharedNoUnique, AnySharedNoUnique, Word

\* The inductive step, one action at a time.
LEMMA StepIInv == MutexInv /\ [MutexNext]_mutexVars => MutexInv'
<1> SUFFICES ASSUME MutexInv, [MutexNext]_mutexVars PROVE MutexInv'
  OBVIOUS
<1>0. /\ MutexTypeInv /\ FieldsCount /\ OldvalMasked /\ NoReaderUnderFlag
      /\ bitfield \in Word
  BY DEF MutexInv, MutexTypeInv
<1>1. ASSUME NEW t \in Lockers, Lock(t) PROVE MutexInv'
  <2>1. /\ pc[t] = "idle" /\ bitfield' = Plus(bitfield, 0, 1, 0)
        /\ pc' = [pc EXCEPT ![t] = "unique_load"]
        /\ UNCHANGED <<oldval, upgrading, overtaken>>
    BY <1>1 DEF Lock
  <2>2. /\ FlagStep(pc[t], "unique_load") = 0
        /\ UniqueStep(pc[t], "unique_load") = 1
        /\ SharedStep(pc[t], "unique_load") = 0
    BY <2>1 DEF FlagStep, UniqueStep, SharedStep, Ordinal, Waiting
  <2>3. /\ FieldsCount' /\ bitfield' \in Word
        /\ bitfield'.shared + bitfield'.unique <= Cardinality(Lockers)
        /\ bitfield'.flag = bitfield.flag + 0
        /\ bitfield'.shared = bitfield.shared + 0
    <3>1. bitfield' = Plus(bitfield, FlagStep(pc[t], "unique_load"),
                           UniqueStep(pc[t], "unique_load"), SharedStep(pc[t], "unique_load"))
      BY <2>1, <2>2
    <3>2. bitfield.flag + FlagStep(pc[t], "unique_load") <= 1
      BY <1>0, <2>1, <2>2 DEF Word
    <3>3. pc' = [pc EXCEPT ![t] = "unique_load"]
      BY <2>1
    <3> QED
      BY <2>2, <3>1, <3>2, <3>3, WordAfter
  <2>4. MutexTypeInv'
    BY <1>0, <2>1, <2>3 DEF MutexTypeInv, Announced, At
  <2>5. OldvalMasked' /\ NoReaderUnderFlag'
    BY <1>0, <2>1, <2>3 DEF MutexTypeInv, OldvalMasked, NoReaderUnderFlag, Word
  <2> QED
    BY <2>3, <2>4, <2>5 DEF MutexInv
<1>2. ASSUME NEW t \in Lockers, Upgrade(t) PROVE MutexInv'
  <2>1. /\ pc[t] = "shared" /\ bitfield' = Plus(bitfield, 0, 1, -1)
        /\ pc' = [pc EXCEPT ![t] = "unique_load"]
        /\ upgrading' = upgrading \cup {t} /\ UNCHANGED <<oldval, overtaken>>
    BY <1>2 DEF Upgrade, SharedToUnique
  <2>2. /\ FlagStep(pc[t], "unique_load") = 0
        /\ UniqueStep(pc[t], "unique_load") = 1
        /\ SharedStep(pc[t], "unique_load") = -1
    BY <2>1 DEF FlagStep, UniqueStep, SharedStep, Ordinal, Waiting
  <2>3. /\ FieldsCount' /\ bitfield' \in Word
        /\ bitfield'.shared + bitfield'.unique <= Cardinality(Lockers)
        /\ bitfield'.flag = bitfield.flag + 0
        /\ bitfield'.shared = bitfield.shared + (-1)
    <3>1. bitfield' = Plus(bitfield, FlagStep(pc[t], "unique_load"),
                           UniqueStep(pc[t], "unique_load"), SharedStep(pc[t], "unique_load"))
      BY <2>1, <2>2
    <3>2. bitfield.flag + FlagStep(pc[t], "unique_load") <= 1
      BY <1>0, <2>1, <2>2 DEF Word
    <3>3. pc' = [pc EXCEPT ![t] = "unique_load"]
      BY <2>1
    <3> QED
      BY <2>2, <3>1, <3>2, <3>3, WordAfter
  <2>4. MutexTypeInv'
    BY <1>0, <2>1, <2>3 DEF MutexTypeInv, Announced, At
  <2>5. OldvalMasked' /\ NoReaderUnderFlag'
    BY <1>0, <2>1, <2>2, <2>3 DEF MutexTypeInv, OldvalMasked, NoReaderUnderFlag, Word
  <2> QED
    BY <2>3, <2>4, <2>5 DEF MutexInv
<1>3. ASSUME NEW t \in Lockers, UniqueLoad(t) \/ UniqueRetry(t) PROVE MutexInv'
  <2>1. /\ pc[t] \in {"unique_load", "unique_cas"}
        /\ pc' = [pc EXCEPT ![t] = "unique_cas"]
        /\ oldval' = [oldval EXCEPT ![t] = NoSharedNoUnique(bitfield)]
        /\ UNCHANGED <<bitfield, upgrading, overtaken>>
    BY <1>0, <1>3 DEF UniqueLoad, UniqueRetry, MutexTypeInv
  <2>2. oldval' \in [Lockers -> Word]
    BY <1>0, <2>1, Masks DEF MutexTypeInv
  <2>3. MutexTypeInv' /\ FieldsCount' /\ NoReaderUnderFlag'
    BY <2>1, <2>2, LocalStep
  <2>4. OldvalMasked'
    BY <1>0, <2>1, Masks DEF MutexTypeInv, OldvalMasked
  <2> QED
    BY <2>3, <2>4 DEF MutexInv
<1>4. ASSUME NEW t \in Lockers, UniqueTaken(t) PROVE MutexInv'
  <2>1. /\ pc[t] = "unique_cas" /\ bitfield' = Plus(bitfield, 1, 0, 0)
        /\ pc' = [pc EXCEPT ![t] = "unique"]
        /\ bitfield.flag = 0 /\ bitfield.shared = 0
        /\ UNCHANGED <<oldval, upgrading, overtaken>>
    BY <1>0, <1>4 DEF UniqueTaken, OldvalMasked
  <2>2. /\ FlagStep(pc[t], "unique") = 1
        /\ UniqueStep(pc[t], "unique") = 0
        /\ SharedStep(pc[t], "unique") = 0
    BY <2>1 DEF FlagStep, UniqueStep, SharedStep, Ordinal, Waiting
  <2>3. /\ FieldsCount' /\ bitfield' \in Word
        /\ bitfield'.shared + bitfield'.unique <= Cardinality(Lockers)
        /\ bitfield'.flag = bitfield.flag + 1
        /\ bitfield'.shared = bitfield.shared + 0
    <3>1. bitfield' = Plus(bitfield, FlagStep(pc[t], "unique"),
                           UniqueStep(pc[t], "unique"), SharedStep(pc[t], "unique"))
      BY <2>1, <2>2
    <3>2. bitfield.flag + FlagStep(pc[t], "unique") <= 1
      BY <1>0, <2>1, <2>2 DEF Word
    <3>3. pc' = [pc EXCEPT ![t] = "unique"]
      BY <2>1
    <3> QED
      BY <2>2, <3>1, <3>2, <3>3, WordAfter
  <2>4. MutexTypeInv'
    BY <1>0, <2>1, <2>3 DEF MutexTypeInv, Announced, At
  <2>5. OldvalMasked' /\ NoReaderUnderFlag'
    BY <1>0, <2>1, <2>3 DEF MutexTypeInv, OldvalMasked, NoReaderUnderFlag, Word
  <2> QED
    BY <2>3, <2>4, <2>5 DEF MutexInv
<1>5. ASSUME NEW t \in Lockers, Unlock(t) PROVE MutexInv'
  <2>1. /\ pc[t] = "unique" /\ bitfield' = Plus(bitfield, -1, -1, 0)
        /\ pc' = [pc EXCEPT ![t] = "idle"] /\ UNCHANGED oldval
        /\ upgrading' = upgrading \ {t}
        /\ overtaken' = (overtaken \cup upgrading) \ {t}
    BY <1>5 DEF Unlock, ReleaseUnique
  <2>2. /\ FlagStep(pc[t], "idle") = -1
        /\ UniqueStep(pc[t], "idle") = -1
        /\ SharedStep(pc[t], "idle") = 0
    BY <2>1 DEF FlagStep, UniqueStep, SharedStep, Ordinal, Waiting
  <2>3. /\ FieldsCount' /\ bitfield' \in Word
        /\ bitfield'.shared + bitfield'.unique <= Cardinality(Lockers)
        /\ bitfield'.flag = bitfield.flag + (-1)
        /\ bitfield'.shared = bitfield.shared + 0
    <3>1. bitfield' = Plus(bitfield, FlagStep(pc[t], "idle"),
                           UniqueStep(pc[t], "idle"), SharedStep(pc[t], "idle"))
      BY <2>1, <2>2
    <3>2. bitfield.flag + FlagStep(pc[t], "idle") <= 1
      BY <1>0, <2>1, <2>2 DEF Word
    <3>3. pc' = [pc EXCEPT ![t] = "idle"]
      BY <2>1
    <3> QED
      BY <2>2, <3>1, <3>2, <3>3, WordAfter
  <2>4. MutexTypeInv'
    BY <1>0, <2>1, <2>3 DEF MutexTypeInv, Announced, At
  <2>5. OldvalMasked' /\ NoReaderUnderFlag'
    BY <1>0, <2>1, <2>3 DEF MutexTypeInv, OldvalMasked, NoReaderUnderFlag, Word
  <2> QED
    BY <2>3, <2>4, <2>5 DEF MutexInv
<1>6. ASSUME NEW t \in Lockers, LockShared(t) \/ SharedRetry(t) PROVE MutexInv'
  <2>1. /\ pc[t] \in {"idle", "shared_cas"}
        /\ pc' = [pc EXCEPT ![t] = "shared_cas"]
        /\ oldval' = [oldval EXCEPT ![t] = AnySharedNoUnique(bitfield)]
        /\ UNCHANGED <<bitfield, upgrading, overtaken>>
    BY <1>0, <1>6 DEF LockShared, SharedRetry, MutexTypeInv
  <2>2. oldval' \in [Lockers -> Word]
    BY <1>0, <2>1, Masks DEF MutexTypeInv
  <2>3. MutexTypeInv' /\ FieldsCount' /\ NoReaderUnderFlag'
    BY <2>1, <2>2, LocalStep
  <2>4. OldvalMasked'
    BY <1>0, <2>1, Masks DEF MutexTypeInv, OldvalMasked
  <2> QED
    BY <2>3, <2>4 DEF MutexInv
<1>7. ASSUME NEW t \in Lockers, SharedTaken(t) PROVE MutexInv'
  <2>1. /\ pc[t] = "shared_cas" /\ bitfield' = Plus(bitfield, 0, 0, 1)
        /\ pc' = [pc EXCEPT ![t] = "shared"] /\ bitfield.flag = 0
        /\ UNCHANGED <<oldval, upgrading, overtaken>>
    BY <1>0, <1>7 DEF SharedTaken, OldvalMasked
  <2>2. /\ FlagStep(pc[t], "shared") = 0
        /\ UniqueStep(pc[t], "shared") = 0
        /\ SharedStep(pc[t], "shared") = 1
    BY <2>1 DEF FlagStep, UniqueStep, SharedStep, Ordinal, Waiting
  <2>3. /\ FieldsCount' /\ bitfield' \in Word
        /\ bitfield'.shared + bitfield'.unique <= Cardinality(Lockers)
        /\ bitfield'.flag = bitfield.flag + 0
        /\ bitfield'.shared = bitfield.shared + 1
    <3>1. bitfield' = Plus(bitfield, FlagStep(pc[t], "shared"),
                           UniqueStep(pc[t], "shared"), SharedStep(pc[t], "shared"))
      BY <2>1, <2>2
    <3>2. bitfield.flag + FlagStep(pc[t], "shared") <= 1
      BY <1>0, <2>1, <2>2 DEF Word
    <3>3. pc' = [pc EXCEPT ![t] = "shared"]
      BY <2>1
    <3> QED
      BY <2>2, <3>1, <3>2, <3>3, WordAfter
  <2>4. MutexTypeInv'
    BY <1>0, <2>1, <2>3 DEF MutexTypeInv, Announced, At
  <2>5. OldvalMasked' /\ NoReaderUnderFlag'
    BY <1>0, <2>1, <2>3 DEF MutexTypeInv, OldvalMasked, NoReaderUnderFlag, Word
  <2> QED
    BY <2>3, <2>4, <2>5 DEF MutexInv
<1>8. ASSUME NEW t \in Lockers, UnlockShared(t) PROVE MutexInv'
  <2>1. /\ pc[t] = "shared" /\ bitfield' = Plus(bitfield, 0, 0, -1)
        /\ pc' = [pc EXCEPT ![t] = "idle"]
        /\ UNCHANGED <<oldval, upgrading, overtaken>>
    BY <1>8 DEF UnlockShared
  <2>2. /\ FlagStep(pc[t], "idle") = 0
        /\ UniqueStep(pc[t], "idle") = 0
        /\ SharedStep(pc[t], "idle") = -1
    BY <2>1 DEF FlagStep, UniqueStep, SharedStep, Ordinal, Waiting
  <2>3. /\ FieldsCount' /\ bitfield' \in Word
        /\ bitfield'.shared + bitfield'.unique <= Cardinality(Lockers)
        /\ bitfield'.flag = bitfield.flag + 0
        /\ bitfield'.shared = bitfield.shared + (-1)
    <3>1. bitfield' = Plus(bitfield, FlagStep(pc[t], "idle"),
                           UniqueStep(pc[t], "idle"), SharedStep(pc[t], "idle"))
      BY <2>1, <2>2
    <3>2. bitfield.flag + FlagStep(pc[t], "idle") <= 1
      BY <1>0, <2>1, <2>2 DEF Word
    <3>3. pc' = [pc EXCEPT ![t] = "idle"]
      BY <2>1
    <3> QED
      BY <2>2, <3>1, <3>2, <3>3, WordAfter
  <2>4. MutexTypeInv'
    BY <1>0, <2>1, <2>3 DEF MutexTypeInv, Announced, At
  <2>5. OldvalMasked' /\ NoReaderUnderFlag'
    BY <1>0, <2>1, <2>2, <2>3 DEF MutexTypeInv, OldvalMasked, NoReaderUnderFlag, Word
  <2> QED
    BY <2>3, <2>4, <2>5 DEF MutexInv
<1>9. CASE UNCHANGED mutexVars
  BY <1>9 DEF mutexVars, MutexInv, MutexTypeInv, FieldsCount, OldvalMasked, NoReaderUnderFlag,
              Readers, Announced, Writers, At
<1> QED
  BY <1>1, <1>2, <1>3, <1>4, <1>5, <1>6, <1>7, <1>8, <1>9 DEF MutexNext, ThreadStep

\* The inductive invariant holds in every reachable state, for any number of
\* threads that the fields can count.
THEOREM Invariance == MutexSpec => []MutexInv
BY InitIInv, StepIInv, PTL DEF MutexSpec

\* The word keeps its type and never counts more threads than there are.
THEOREM TypeCorrect == MutexSpec => []MutexTypeInv
<1>1. MutexInv => MutexTypeInv
  BY DEF MutexInv
<1> QED
  BY <1>1, Invariance, PTL

\* lock, upgrade, unlock and their shared forms: the three packed counts are
\* always the numbers of readers, of announced writers and of writers inside.
THEOREM CountsAreRight == MutexSpec => []FieldsCount
<1>1. MutexInv => FieldsCount
  BY DEF MutexInv
<1> QED
  BY <1>1, Invariance, PTL

\* A count of one under the flag leaves room for one writer and no reader.
LEMMA ExclusionFromIInv == MutexInv => MutualExclusion
<1> SUFFICES ASSUME MutexInv, NEW t \in Writers PROVE Writers = {t} /\ Readers = {}
  BY DEF MutualExclusion
<1>1. IsFiniteSet(Writers) /\ IsFiniteSet(Readers)
  <2>1. Writers \in SUBSET Lockers /\ Readers \in SUBSET Lockers
    BY DEF Writers, Readers, At
  <2> QED
    BY <2>1, ThreadsAssumption, FS_Subset
<1>2. Cardinality(Writers) # 0
  BY <1>1, FS_EmptySet
<1>3. bitfield.flag = 1 /\ Cardinality(Writers) = 1
  BY <1>2 DEF MutexInv, MutexTypeInv, Word, FieldsCount
<1>4. Cardinality(Readers) = 0
  BY <1>3 DEF MutexInv, FieldsCount, NoReaderUnderFlag
<1>5. Readers = {}
  BY <1>1, <1>4, FS_EmptySet
<1>6. \E x : Writers = {x}
  BY <1>1, <1>3, FS_Singleton
<1> QED
  BY <1>5, <1>6

\* The unique section of shared_atomic_mutex excludes everybody else.
THEOREM Exclusion == MutexSpec => []MutualExclusion
BY Invariance, ExclusionFromIInv, PTL

\* Only the exchange of lock_shared lets a thread into the shared section, and
\* it compares with a word that counts no writer.
LEMMA PriorityStep ==
    ASSUME MutexInv, [MutexNext]_mutexVars, NEW t \in Lockers, pc[t] # "shared", pc'[t] = "shared"
    PROVE  Announced = {} /\ Announced' = {}
<1>1. SharedTaken(t)
  BY DEF MutexNext, ThreadStep, mutexVars, Lock, Upgrade, UniqueLoad, UniqueTaken, UniqueRetry,
         Unlock, LockShared, SharedTaken, SharedRetry, UnlockShared, MutexInv, MutexTypeInv
<1>2. bitfield.unique = 0
  BY <1>1 DEF SharedTaken, MutexInv, OldvalMasked
<1>3. Announced \in SUBSET Lockers
  BY DEF Announced, At
<1>4. IsFiniteSet(Announced)
  BY <1>3, ThreadsAssumption, FS_Subset
<1>5. Announced = {}
  BY <1>2, <1>4, FS_EmptySet DEF MutexInv, FieldsCount
<1>6. pc' = [pc EXCEPT ![t] = "shared"]
  BY <1>1 DEF SharedTaken
<1> QED
  BY <1>5, <1>6 DEF Announced, At, MutexInv, MutexTypeInv

\* No reader gets in while a writer waits or writes.
THEOREM WritersFirst == MutexSpec => UniquePriority
<1> DEFINE NoneAnnounced ==
      \A t \in Lockers : pc[t] # "shared" /\ pc'[t] = "shared" =>
          Announced = {} /\ Announced' = {}
<1>1. MutexInv /\ [MutexNext]_mutexVars => [NoneAnnounced]_mutexVars
  BY PriorityStep
<1> QED
  BY <1>1, Invariance, PTL DEF MutexSpec, UniquePriority
=============================================================================
