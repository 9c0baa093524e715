-------------------------- MODULE SharedAtomicMutex --------------------------
(***************************************************************************)
(* shared_atomic_mutex: a reader/writer lock in one atomic 32-bit word,    *)
(* [1 bit flag | 15 bits unique threads | 16 bits shared threads].  Every  *)
(* access to the word is one atomic instruction and one action here.  The  *)
(* threads follow the usage notes of the class: unlock what you locked, no *)
(* second lock while holding one, unless by upgrade.                       *)
(***************************************************************************)
EXTENDS Integers, FiniteSets

CONSTANTS Lockers,
          SharedLimit,   \* 2^16: what the shared field counts up to
          UniqueLimit    \* 2^15: what the unique field counts up to

ASSUME ThreadsAssumption == IsFiniteSet(Lockers)
ASSUME LimitsAssumption ==
    /\ SharedLimit \in Nat /\ UniqueLimit \in Nat
    /\ Cardinality(Lockers) < SharedLimit
    /\ Cardinality(Lockers) < UniqueLimit

VARIABLES bitfield,    \* m_bitfield, as its three fields
          pc,          \* where each thread is in the lock's operations
          oldval,      \* each thread's local oldval
          upgrading,   \* the threads between upgrade's first step and its last
          overtaken    \* history: of these, the ones another writer overtook

mutexVars == <<bitfield, pc, oldval, upgrading, overtaken>>

Word == [flag : 0 .. 1, unique : 0 .. UniqueLimit - 1, shared : 0 .. SharedLimit - 1]

-----------------------------------------------------------------------------
(* Arithmetic on the word: a field that leaves its range carries into the  *)
(* next one, as in the packed integer.                                     *)

Wrapped(x, n) == IF x >= n THEN x - n ELSE IF x < 0 THEN x + n ELSE x
Carry(x, n) == IF x >= n THEN 1 ELSE IF x < 0 THEN -1 ELSE 0

Plus(w, df, du, ds) ==
    LET s == w.shared + ds
        u == w.unique + du + Carry(s, SharedLimit)
        f == w.flag + df + Carry(u, UniqueLimit)
    IN  [flag |-> Wrapped(f, 2), unique |-> Wrapped(u, UniqueLimit),
         shared |-> Wrapped(s, SharedLimit)]

\* bits &= num_shared_mask: expects no unique lock, waiting or active.
IgnoreFlagOnly(w) == [w EXCEPT !.flag = 0]     \* variant: waiting writers overlooked
AnySharedNoUnique(w) == [flag |-> 0, unique |-> 0, shared |-> w.shared]

\* bits &= num_unique_mask: expects no shared lock and a free flag.
NoUniqueHolder(w) == [w EXCEPT !.flag = 0]     \* variant: readers overlooked
NoSharedNoUnique(w) == [flag |-> 0, unique |-> w.unique, shared |-> 0]

-----------------------------------------------------------------------------
MutexInit ==
    /\ bitfield = [flag |-> 0, unique |-> 0, shared |-> 0]
    /\ pc = [t \in Lockers |-> "idle"]
    /\ oldval = [t \in Lockers |-> bitfield]
    /\ upgrading = {} /\ overtaken = {}

\* lock: announce the thread, then acquire_unique.
Lock(t) ==
    /\ pc[t] = "idle"
    /\ bitfield' = Plus(bitfield, 0, 1, 0)
    /\ pc' = [pc EXCEPT ![t] = "unique_load"]
    /\ UNCHANGED <<oldval, upgrading, overtaken>>

\* upgrade: one addition turns the shared count into a unique one.
KeepsShared(w) == Plus(w, 0, 1, 0)             \* variant: shared lock not given back
SharedToUnique(w) == Plus(w, 0, 1, -1)

Upgrade(t) ==
    /\ pc[t] = "shared"
    /\ bitfield' = SharedToUnique(bitfield)
    /\ pc' = [pc EXCEPT ![t] = "unique_load"]
    /\ upgrading' = upgrading \cup {t}
    /\ UNCHANGED <<oldval, overtaken>>

\* acquire_unique: load, mask, then compare-exchange until it succeeds.
UniqueLoad(t) ==
    /\ pc[t] = "unique_load"
    /\ oldval' = [oldval EXCEPT ![t] = NoSharedNoUnique(bitfield)]
    /\ pc' = [pc EXCEPT ![t] = "unique_cas"]
    /\ UNCHANGED <<bitfield, upgrading, overtaken>>

UniqueTaken(t) ==
    /\ pc[t] = "unique_cas" /\ bitfield = oldval[t]
    /\ bitfield' = Plus(oldval[t], 1, 0, 0)
    /\ pc' = [pc EXCEPT ![t] = "unique"]
    /\ UNCHANGED <<oldval, upgrading, overtaken>>

\* compare_exchange_weak may also fail when the values are equal.
UniqueRetry(t) ==
    /\ pc[t] = "unique_cas"
    /\ oldval' = [oldval EXCEPT ![t] = NoSharedNoUnique(bitfield)]
    /\ UNCHANGED <<bitfield, pc, upgrading, overtaken>>

\* unlock: the holder has written; whoever is still upgrading was overtaken.
KeepsFlag(w) == Plus(w, 0, -1, 0)              \* variant: flag stays set
ReleaseUnique(w) == Plus(w, -1, -1, 0)

Unlock(t) ==
    /\ pc[t] = "unique"
    /\ bitfield' = ReleaseUnique(bitfield)
    /\ pc' = [pc EXCEPT ![t] = "idle"]
    /\ upgrading' = upgrading \ {t}
    /\ overtaken' = (overtaken \cup upgrading) \ {t}
    /\ UNCHANGED oldval

\* lock_shared: nothing is announced before the compare-exchange succeeds.
LockShared(t) ==
    /\ pc[t] = "idle"
    /\ oldval' = [oldval EXCEPT ![t] = AnySharedNoUnique(bitfield)]
    /\ pc' = [pc EXCEPT ![t] = "shared_cas"]
    /\ UNCHANGED <<bitfield, upgrading, overtaken>>

SharedTaken(t) ==
    /\ pc[t] = "shared_cas" /\ bitfield = oldval[t]
    /\ bitfield' = Plus(oldval[t], 0, 0, 1)
    /\ pc' = [pc EXCEPT ![t] = "shared"]
    /\ UNCHANGED <<oldval, upgrading, overtaken>>

SharedRetry(t) ==
    /\ pc[t] = "shared_cas"
    /\ oldval' = [oldval EXCEPT ![t] = AnySharedNoUnique(bitfield)]
    /\ UNCHANGED <<bitfield, pc, upgrading, overtaken>>

UnlockShared(t) ==
    /\ pc[t] = "shared"
    /\ bitfield' = Plus(bitfield, 0, 0, -1)
    /\ pc' = [pc EXCEPT ![t] = "idle"]
    /\ UNCHANGED <<oldval, upgrading, overtaken>>

ThreadStep(t) ==
    \/ Lock(t) \/ Upgrade(t) \/ UniqueLoad(t) \/ UniqueTaken(t) \/ UniqueRetry(t)
    \/ Unlock(t) \/ LockShared(t) \/ SharedTaken(t) \/ SharedRetry(t) \/ UnlockShared(t)

MutexNext == \E t \in Lockers : ThreadStep(t)

MutexSpec == MutexInit /\ [][MutexNext]_mutexVars

\* A spinning thread keeps running and its exchange does not fail spuriously
\* for ever; a thread that holds the lock releases it.  Nothing obliges a
\* thread to ask for the lock.
Proceeds(t) == UniqueLoad(t) \/ UniqueRetry(t) \/ SharedRetry(t)
               \/ Unlock(t) \/ UnlockShared(t) \/ Upgrade(t)
Enters(t) == UniqueTaken(t) \/ SharedTaken(t)

Fairness(t) == WF_mutexVars(Proceeds(t)) /\ SF_mutexVars(Enters(t))

MutexFairSpec == MutexSpec /\ \A t \in Lockers : Fairness(t)

-----------------------------------------------------------------------------
(* Properties.                                                             *)

At(steps) == {t \in Lockers : pc[t] \in steps}
Readers == At({"shared"})
Writers == At({"unique"})
Announced == At({"unique_load", "unique_cas", "unique"})

MutexTypeInv ==
    /\ bitfield \in Word
    /\ bitfield.shared + bitfield.unique <= Cardinality(Lockers)
    /\ pc \in [Lockers -> {"idle", "unique_load", "unique_cas", "unique",
                           "shared_cas", "shared"}]
    /\ oldval \in [Lockers -> Word]
    /\ upgrading \subseteq Announced /\ overtaken \subseteq upgrading

\* The three fields count exactly the threads they are meant to count, whatever
\* the exchanges raced with: nothing is lost, added twice or carried over.
FieldsCount ==
    /\ bitfield.shared = Cardinality(Readers)
    /\ bitfield.unique = Cardinality(Announced)
    /\ bitfield.flag = Cardinality(Writers)

\* A thread in the unique section is alone in it, and no reader is inside.
MutualExclusion ==
    \A t \in Writers : Writers = {t} /\ Readers = {}

\* Unique locks have priority: a thread enters the shared section only when no
\* thread waits for the unique lock or has it, although it compared the word
\* with a value it read earlier.
UniquePriority ==
    [][\A t \in Lockers : pc[t] # "shared" /\ pc'[t] = "shared" =>
          Announced = {} /\ Announced' = {}]_mutexVars

\* Threads that wait for the unique lock, by lock or by upgrade, never block
\* each other for ever: one of them gets in.
SomeWriterEnters == (Announced # {}) ~> (Writers # {})

\* When the writers stop coming, a waiting reader gets in.
ReaderEnters ==
    \A t \in Lockers : [](pc[t] = "shared_cas" /\ [](Announced = {}) => <>(pc[t] = "shared"))

\* Whoever waits gets in: both of the above.
WaitersEnter == SomeWriterEnters /\ ReaderEnters

\* "atomic shared-to-unique-lock upgrade": nobody else holds the unique lock
\* between the shared section of an upgrading thread and its unique section.
UpgradeIsAtomic == Writers \cap overtaken = {}

\* The inductive invariant: a thread inside a compare-exchange loop compares
\* with a masked value, so an exchange that succeeds saw nobody in its way.
OldvalMasked ==
    \A t \in Lockers :
        /\ pc[t] = "unique_cas" => oldval[t].flag = 0 /\ oldval[t].shared = 0
        /\ pc[t] = "shared_cas" => oldval[t].flag = 0 /\ oldval[t].unique = 0
NoReaderUnderFlag == bitfield.flag = 1 => bitfield.shared = 0

MutexInv == MutexTypeInv /\ FieldsCount /\ OldvalMasked /\ NoReaderUnderFlag
=============================================================================
