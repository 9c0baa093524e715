--------------------------- MODULE LogSystemProofs ---------------------------
(***************************************************************************)
(* The log system, for any number of threads, ring capacity, buffer size   *)
(* and both builds: every message is in one place, in its thread's order,  *)
(* a poll outputs by timestamp, and the end of the program writes all.     *)
(***************************************************************************)
EXTENDS LogSystem, SequenceTheorems, FiniteSetTheorems, WellFoundedInduction, TLAPS

-----------------------------------------------------------------------------
(* Sequences and their elements, and the least of a set of numbers.        *)

\* What Append does to the members, the length and the head of a sequence.
LEMMA AppendFacts ==
    ASSUME NEW S, NEW s \in Seq(S), NEW e \in S
    PROVE  /\ Append(s, e) \in Seq(S) /\ Len(Append(s, e)) = Len(s) + 1 /\ Len(s) \in Nat
           /\ Append(s, e)[Len(s) + 1] = e
           /\ \A i \in 1 .. Len(s) : Append(s, e)[i] = s[i]
           /\ DOMAIN s = 1 .. Len(s) /\ DOMAIN Append(s, e) = 1 .. Len(s) + 1
           /\ ToSet(Append(s, e)) = ToSet(s) \cup {e}
           /\ s # <<>> => Head(Append(s, e)) = Head(s)
           /\ Append(s, e) # <<>>
<1> PICK n \in Nat : n = Len(s)
  OBVIOUS
<1>1. /\ Append(s, e) \in Seq(S) /\ Len(Append(s, e)) = n + 1
      /\ Append(s, e)[n + 1] = e /\ Append(s, e) # <<>>
      /\ \A i \in 1 .. n : Append(s, e)[i] = s[i]
  BY AppendProperties
<1>2. DOMAIN s = 1 .. n /\ DOMAIN Append(s, e) = 1 .. n + 1
  BY <1>1, LenProperties
<1>3. ToSet(Append(s, e)) = ToSet(s) \cup {e}
  <2>1. 1 .. n + 1 = (1 .. n) \cup {n + 1}
    OBVIOUS
  <2> QED
    BY <1>1, <1>2, <2>1 DEF ToSet
<1>4. s # <<>> => Head(Append(s, e)) = Head(s)
  BY HeadTailAppend
<1> QED
  BY <1>1, <1>2, <1>3, <1>4

\* What Tail does to the members and the length of a sequence.
LEMMA TailFacts ==
    ASSUME NEW S, NEW s \in Seq(S), s # <<>>
    PROVE  /\ Tail(s) \in Seq(S) /\ Len(s) \in Nat /\ Len(Tail(s)) = Len(s) - 1
           /\ Head(s) = s[1] /\ Head(s) \in S /\ Head(s) \in ToSet(s)
           /\ \A i \in 1 .. Len(s) - 1 : Tail(s)[i] = s[i + 1]
           /\ DOMAIN s = 1 .. Len(s) /\ DOMAIN Tail(s) = 1 .. Len(s) - 1 /\ 1 \in DOMAIN s
           /\ ToSet(s) = {Head(s)} \cup ToSet(Tail(s))
<1> PICK n \in Nat : n = Len(s)
  OBVIOUS
<1>1. n > 0 /\ Head(s) = s[1] /\ DOMAIN s = 1 .. n /\ 1 \in 1 .. n
  BY LenProperties
<1>2. /\ Tail(s) \in Seq(S) /\ Len(Tail(s)) = n - 1 /\ Head(s) \in S
      /\ \A i \in 1 .. n - 1 : Tail(s)[i] = s[i + 1]
  BY HeadTailProperties
<1>3. DOMAIN Tail(s) = 1 .. n - 1
  BY <1>2, LenProperties
<1>4. ToSet(s) = {Head(s)} \cup ToSet(Tail(s))
  <2>1. \A i \in 1 .. n : i = 1 \/ (i - 1 \in 1 .. n - 1 /\ s[i] = Tail(s)[i - 1])
    BY <1>2
  <2>2. \A i \in 1 .. n - 1 : i + 1 \in 1 .. n /\ Tail(s)[i] = s[i + 1]
    BY <1>2
  <2>3. ToSet(s) \subseteq {Head(s)} \cup ToSet(Tail(s))
    BY <1>1, <1>3, <2>1 DEF ToSet
  <2>4. Head(s) \in ToSet(s)
    BY <1>1 DEF ToSet
  <2>5. ToSet(Tail(s)) \subseteq ToSet(s)
    BY <1>1, <1>3, <2>2 DEF ToSet
  <2> QED
    BY <2>3, <2>4, <2>5
<1> QED
  BY <1>1, <1>2, <1>3, <1>4 DEF ToSet

\* The empty sequence has no members.
LEMMA EmptyFacts == ToSet(<<>>) = {} /\ DOMAIN <<>> = {} /\ \A S : <<>> \in Seq(S)
BY DEF ToSet

\* A set of stamps has a least one.
LEMMA Least ==
    ASSUME NEW T \in SUBSET Nat, T # {}
    PROVE  \E x \in T : \A y \in T : x <= y
<1> PICK t \in T : TRUE
  OBVIOUS
<1> DEFINE U == {x \in T : x <= t}
           D(x) == 0 .. (x - 1)
           V == {D(x) : x \in U}
<1>1. IsWellFoundedOn(StrictSubsetOrdering(0 .. t), FiniteSubsetsOf(0 .. t))
  <2>1. IsFiniteSet(0 .. t)
    BY FS_Interval
  <2> QED
    BY <2>1, FS_StrictSubsetOrderingWellFounded
<1>2. V \subseteq FiniteSubsetsOf(0 .. t) /\ V # {} /\ V \subseteq SUBSET (0 .. t)
  <2>1. \A x \in U : IsFiniteSet(D(x)) /\ D(x) \subseteq 0 .. t
    <3> TAKE x \in U
    <3>1. IsFiniteSet(0 .. (x - 1))
      BY FS_Interval
    <3> QED
      BY <3>1
  <2> QED
    BY <2>1 DEF FiniteSubsetsOf
<1>3. PICK d \in V : \A e \in V : ~(<<e, d>> \in StrictSubsetOrdering(0 .. t))
  <2> HIDE DEF V
  <2> QED
    BY <1>1, <1>2, WFMin
<1>4. PICK x \in U : d = D(x)
  OBVIOUS
<1>5. \A y \in U : x <= y
  <2> SUFFICES ASSUME NEW y \in U, y < x PROVE FALSE
    OBVIOUS
  <2>1. D(y) \in V /\ D(y) \subseteq D(x) /\ D(y) # D(x)
    <3>1. y \in D(x) /\ y \notin D(y)
      OBVIOUS
    <3> QED
      BY <3>1
  <2>2. <<D(y), D(x)>> \in StrictSubsetOrdering(0 .. t)
    BY <1>2, <2>1 DEF StrictSubsetOrdering
  <2> QED
    BY <1>3, <1>4, <2>1, <2>2
<1> QED
  BY <1>5

-----------------------------------------------------------------------------
(* The inductive invariant.                                                *)

Message == [by : Threads, stamp : Nat]

\* The threads, their buffers and the poller's place in its scan.
ThreadInv ==
    /\ tpc \in [Threads -> {"idle", "alloc", "push", "exited"}]
    /\ buffer \in [Threads -> {"none", "new", "bg", "deleted"}]
    /\ shouldDeallocate \in [Threads -> BOOLEAN]
    /\ \A t \in Threads :
          /\ shouldDeallocate[t] => tpc[t] = "exited"
          /\ buffer[t] = "deleted" => tpc[t] = "exited"
          /\ tpc[t] \in {"alloc", "push"} \/ queue[t] # <<>> => buffer[t] \in {"new", "bg"}

ScanInv ==
    /\ ppc \in {"none", "collect", "scan", "dead", "output", "flush", "return"}
    /\ header \in [Threads -> BOOLEAN]
    /\ \A t \in Threads : header[t] => buffer[t] = "bg" /\ queue[t] # <<>>
    /\ unscanned \subseteq {t \in Threads : buffer[t] = "bg"}
    /\ unscanned # {} => ppc \in {"scan", "dead"}
    /\ \A t \in node : /\ t \in Threads /\ buffer[t] = "bg" /\ ~header[t] /\ t \notin unscanned
                       /\ ppc = "dead"

\* Who polls: the user, or the polling thread until the user has joined it.
UserInv ==
    /\ mpc \in {"free", "polling", "join", "join_start", "join_exit", "exit", "down"}
    /\ thr \in {"none", "run", "last"} /\ threadRunning \in BOOLEAN
    /\ threadRunning => thr = "run"
    /\ thr # "none" => threadRunning \/ mpc \in {"join", "join_start", "join_exit"}
    /\ mpc \in {"polling", "exit"} => thr = "none" /\ ppc # "none"
    /\ ppc # "none" => mpc \in {"polling", "exit"} \/ thr # "none"
    /\ mpc = "down" => thr = "none"

\* The messages.  No two carry the same timestamp, and the one a thread is about
\* to push is younger than all it has pushed.
MsgTypeInv ==
    /\ clock \in Nat /\ stamp \in [Threads -> Nat]
    /\ queue \in [Threads -> Seq(Message)]
    /\ out \in Seq(Message) /\ membuf \in Seq(Message)
    /\ sent \subseteq Message
    /\ \A t \in Threads : \A m \in ToSet(queue[t]) : m.by = t

StampInv ==
    /\ \A m \in sent : m.stamp < clock
    /\ \A x, y \in sent : x.stamp = y.stamp => x = y
    /\ \A t \in Threads : tpc[t] = "push" =>
          /\ stamp[t] < clock
          /\ \A x \in sent : x.stamp # stamp[t] /\ (x.by = t => x.stamp < stamp[t])
          /\ \A u \in Threads : u # t /\ tpc[u] = "push" => stamp[u] # stamp[t]

LostInv == \A m \in lost : buffer[m.by] = "deleted"

\* The poll in progress: it began with the messages in ready, and has output
\* those after the first since.
ReadyInv ==
    ppc \in {"collect", "scan", "dead", "output"} =>
        \A m \in ready : \/ m \in ToSet(out)
                         \/ /\ m.by \in Threads /\ m \in ToSet(queue[m.by])
                            /\ ppc = "collect" \/ header[m.by] \/ m.by \in unscanned

MergeInv ==
    /\ ppc \in {"collect", "scan", "dead"} => since = Len(out)
    /\ ppc = "output" /\ Len(out) > since =>
          \A t \in Threads : header[t] => Last(out).stamp < Head(queue[t]).stamp

\* The last poll of the program: the threads are done, so it sees every message.
ExitInv ==
    /\ mpc \in {"join_exit", "exit", "down"} => \A t \in Threads : tpc[t] \in {"idle", "exited"}
    /\ mpc = "exit" /\ ppc \in {"collect", "scan", "dead", "output"} =>
          /\ tsc = clock
          /\ \A t \in Threads : queue[t] # <<>> =>
                ppc = "collect" \/ header[t] \/ t \in unscanned
    /\ mpc = "exit" /\ ppc \in {"flush", "return"} => \A t \in Threads : queue[t] = <<>>
    /\ mpc = "down" => membuf = <<>> /\ \A t \in Threads : queue[t] = <<>>

LInv ==
    /\ ThreadInv /\ ScanInv /\ UserInv
    /\ MsgTypeInv /\ StampInv /\ LostInv /\ NothingVanishes /\ ThreadOrder
    /\ ReadyInv /\ MergeInv /\ ExitInv

\* A new Logger satisfies the invariant.
LEMMA InitLInv == Init => LInv
<1> SUFFICES ASSUME Init PROVE LInv
  OBVIOUS
<1>1. ThreadInv /\ ScanInv /\ UserInv /\ LostInv /\ ReadyInv /\ MergeInv /\ ExitInv
  BY DEF Init, ThreadInv, ScanInv, UserInv, LostInv, ReadyInv, MergeInv, ExitInv
<1>2. MsgTypeInv
  BY EmptyFacts DEF Init, MsgTypeInv
<1>3. StampInv /\ ThreadOrder
  BY EmptyFacts DEF Init, StampInv, ThreadOrder
<1>4. NothingVanishes
  BY EmptyFacts DEF Init, NothingVanishes, Queued
<1> QED
  BY <1>1, <1>2, <1>3, <1>4 DEF LInv

-----------------------------------------------------------------------------
(* What the conjuncts depend on.                                           *)

\* Where the messages are, and what the threads are about to do with one.
Places == <<clock, stamp, tpc, queue, buffer, sent, out, lost>>
Files == <<membuf, written, discarded>>

\* The order of the messages stays when they stay where they are.
LEMMA PlacesSame ==
    ASSUME StampInv, LostInv, ThreadOrder, UNCHANGED Places
    PROVE  StampInv' /\ LostInv' /\ ThreadOrder'
BY DEF Places, StampInv, LostInv, ThreadOrder

\* No message vanishes when neither the queues nor the files change.
LEMMA FilesSame ==
    ASSUME MsgTypeInv, NothingVanishes, UNCHANGED Places, UNCHANGED Files
    PROVE  MsgTypeInv' /\ NothingVanishes'
<1>1. UNCHANGED <<clock, stamp, queue, sent, out, lost, membuf, written, discarded>>
  BY DEF Places, Files
<1>2. Queued' = Queued
  BY <1>1 DEF Queued
<1>3. MsgTypeInv'
  BY <1>1 DEF MsgTypeInv
<1>4. NothingVanishes'
  BY <1>1, <1>2 DEF NothingVanishes
<1> QED
  BY <1>3, <1>4

\* Flushing moves what is buffered to the file, or away.
LEMMA FlushSame ==
    ASSUME MsgTypeInv, NothingVanishes, UNCHANGED Places, flushLogFile(membuf)
    PROVE  MsgTypeInv' /\ NothingVanishes' /\ membuf' = <<>>
<1>1. membuf' = <<>> /\ ToSet(membuf') = {} /\ membuf' \in Seq(Message)
  BY EmptyFacts DEF flushLogFile
<1>2. ToSet(membuf') \cup written' \cup discarded' = ToSet(membuf) \cup written \cup discarded
  BY <1>1 DEF flushLogFile
<1>3. UNCHANGED <<clock, stamp, queue, sent, out, lost>>
  BY DEF Places
<1>4. Queued' = Queued
  BY <1>3 DEF Queued
<1>5. MsgTypeInv'
  BY <1>1, <1>3 DEF MsgTypeInv
<1>6. NothingVanishes'
  BY <1>2, <1>3, <1>4 DEF NothingVanishes
<1> QED
  BY <1>1, <1>5, <1>6

\* No message vanishes when the buffered ones are written and the file is closed.
LEMMA CloseSame ==
    ASSUME MsgTypeInv, NothingVanishes, UNCHANGED Places, closeBuffered
    PROVE  MsgTypeInv' /\ NothingVanishes' /\ membuf' = <<>>
<1>1. CASE membuf # <<>>
  BY <1>1, FlushSame DEF closeBuffered
<1>2. CASE membuf = <<>>
  BY <1>2, FilesSame DEF closeBuffered, Files
<1> QED
  BY <1>1, <1>2

\* Queued, lost and written messages were all sent.
LEMMA SentFacts ==
    ASSUME MsgTypeInv, NothingVanishes
    PROVE  /\ Queued \subseteq sent /\ lost \subseteq sent /\ ToSet(out) \subseteq sent
           /\ \A t \in Threads : ToSet(queue[t]) \subseteq Queued
           /\ \A m \in sent : m.by \in Threads /\ m.stamp \in Nat
           /\ \A t \in Threads : queue[t] \in Seq(Message) /\ DOMAIN queue[t] = 1 .. Len(queue[t])
           /\ \A t \in Threads : \A i \in DOMAIN queue[t] : queue[t][i] \in ToSet(queue[t])
           /\ DOMAIN out = 1 .. Len(out) /\ Len(out) \in Nat
           /\ \A i \in DOMAIN out : out[i] \in ToSet(out)
<1>1. \A t \in Threads : queue[t] \in Seq(Message)
  BY DEF MsgTypeInv
<1>2. \A t \in Threads : DOMAIN queue[t] = 1 .. Len(queue[t])
  BY <1>1
<1>3. DOMAIN out = 1 .. Len(out) /\ Len(out) \in Nat
  BY DEF MsgTypeInv
<1>4. \A m \in sent : m.by \in Threads /\ m.stamp \in Nat
  BY DEF MsgTypeInv, Message
<1>5. Queued \subseteq sent /\ lost \subseteq sent /\ ToSet(out) \subseteq sent
  BY DEF NothingVanishes
<1>6. \A t \in Threads : ToSet(queue[t]) \subseteq Queued
  BY DEF Queued
<1>7. \A t \in Threads : \A i \in DOMAIN queue[t] : queue[t][i] \in ToSet(queue[t])
  BY DEF ToSet
<1>8. \A i \in DOMAIN out : out[i] \in ToSet(out)
  BY DEF ToSet
<1> QED
  BY <1>1, <1>2, <1>3, <1>4, <1>5, <1>6, <1>7, <1>8

-----------------------------------------------------------------------------
(* The logging threads.                                                    *)

\* preallocate makes the thread's queue.
LEMMA PreallocateStep ==
    ASSUME LInv, NEW t \in Threads, preallocate(t)
    PROVE  LInv'
<1> USE DEF LInv
<1>1. /\ tpc[t] = "idle" /\ buffer[t] = "none" /\ buffer' = [buffer EXCEPT ![t] = "new"]
      /\ UNCHANGED <<tpc, stamp, queue, shouldDeallocate, clock, sent, out, lost, Files>>
      /\ UNCHANGED <<ppc, tsc, unscanned, node, header, ready, since, userVars>>
  BY DEF preallocate, threadVars, pollVars, fileVars, Files
<1>2. ThreadInv'
  BY <1>1 DEF ThreadInv
<1>3. ScanInv'
  BY <1>1 DEF ScanInv, ThreadInv
<1>4. UserInv'
  BY <1>1 DEF UserInv, userVars
<1>5. Queued' = Queued
  BY <1>1 DEF Queued
<1>6. MsgTypeInv' /\ StampInv' /\ ThreadOrder'
  BY <1>1 DEF MsgTypeInv, StampInv, ThreadOrder, Files
<1>7. NothingVanishes'
  BY <1>1, <1>5 DEF NothingVanishes, Files
<1>8. LostInv'
  BY <1>1, SentFacts DEF LostInv, ThreadInv
<1>9. ReadyInv' /\ MergeInv' /\ ExitInv'
  BY <1>1 DEF ReadyInv, MergeInv, ExitInv, userVars, Files
<1> QED
  BY <1>2, <1>3, <1>4, <1>6, <1>7, <1>8, <1>9

\* The timestamp taken is younger than all that were taken before.
LEMMA AllocStep ==
    ASSUME LInv, NEW t \in Threads, allocMsg(t)
    PROVE  LInv'
<1> USE DEF LInv
<1>1. /\ tpc[t] \in {"idle", "alloc"} /\ buffer[t] \in {"new", "bg"}
      /\ tpc[t] = "idle" => mpc \notin {"join_exit", "exit", "down"}
      /\ UNCHANGED <<queue, buffer, shouldDeallocate, sent, out, lost, Files>>
      /\ UNCHANGED <<ppc, tsc, unscanned, node, header, ready, since, userVars>>
  BY DEF allocMsg, queueVars, pollVars, fileVars, Files
<1>2. \/ /\ stamp' = [stamp EXCEPT ![t] = clock] /\ clock' = clock + 1
         /\ tpc' = [tpc EXCEPT ![t] = "push"]
      \/ /\ tpc' = [tpc EXCEPT ![t] = "alloc"] \/ tpc' = [tpc EXCEPT ![t] = "idle"]
         /\ UNCHANGED <<stamp, clock>>
  BY DEF allocMsg
<1>3. ThreadInv'
  <2>1. PICK step \in {"push", "alloc", "idle"} : tpc' = [tpc EXCEPT ![t] = step]
    BY <1>2
  <2> QED
    BY <1>1, <2>1 DEF ThreadInv
<1>4. ScanInv' /\ UserInv'
  BY <1>1 DEF ScanInv, UserInv, userVars
<1>5. MsgTypeInv'
  BY <1>1, <1>2 DEF MsgTypeInv, Files
<1>6. Queued' = Queued
  BY <1>1 DEF Queued
<1>7. NothingVanishes' /\ ThreadOrder' /\ LostInv'
  BY <1>1, <1>6 DEF NothingVanishes, ThreadOrder, LostInv, Files
<1>8. StampInv'
  <2>1. clock \in Nat /\ stamp \in [Threads -> Nat] /\ \A m \in sent : m.stamp \in Nat
    BY SentFacts DEF MsgTypeInv
  <2>2. tpc \in [Threads -> {"idle", "alloc", "push", "exited"}]
    BY DEF ThreadInv
  <2>3. CASE /\ stamp' = [stamp EXCEPT ![t] = clock] /\ clock' = clock + 1
             /\ tpc' = [tpc EXCEPT ![t] = "push"]
    <3>1. \A m \in sent : m.stamp < clock'
      BY <2>1, <2>3 DEF StampInv
    <3>2. /\ stamp'[t] < clock'
          /\ \A x \in sent : x.stamp # stamp'[t] /\ (x.by = t => x.stamp < stamp'[t])
      BY <2>1, <2>3 DEF StampInv
    <3>3. ASSUME NEW u \in Threads, u # t, tpc'[u] = "push"
          PROVE  /\ tpc[u] = "push" /\ stamp'[u] = stamp[u] /\ stamp'[u] < clock'
                 /\ stamp'[u] # stamp'[t]
      <4>1. tpc[u] = "push" /\ stamp'[u] = stamp[u] /\ stamp'[t] = clock
        BY <2>1, <2>2, <2>3, <3>3
      <4> QED
        BY <2>1, <2>3, <4>1 DEF StampInv
    <3> QED
      BY <1>1, <3>1, <3>2, <3>3 DEF StampInv
  <2>4. CASE /\ tpc' = [tpc EXCEPT ![t] = "alloc"] \/ tpc' = [tpc EXCEPT ![t] = "idle"]
             /\ UNCHANGED <<stamp, clock>>
    <3>1. \A u \in Threads : tpc'[u] = "push" => tpc[u] = "push"
      BY <2>2, <2>4
    <3> QED
      BY <1>1, <2>4, <3>1 DEF StampInv
  <2> QED
    BY <1>2, <2>3, <2>4
<1>9. ReadyInv' /\ MergeInv'
  BY <1>1 DEF ReadyInv, MergeInv
<1>10. mpc \notin {"join_exit", "exit", "down"}
  BY <1>1 DEF ExitInv
<1>11. ExitInv'
  BY <1>1, <1>10 DEF ExitInv, userVars
<1> QED
  BY <1>3, <1>4, <1>5, <1>7, <1>8, <1>9, <1>11

\* A finished message becomes visible in its thread's queue.
LEMMA PushStep ==
    ASSUME LInv, NEW t \in Threads, push(t)
    PROVE  LInv'
<1> USE DEF LInv
<1> DEFINE m == [by |-> t, stamp |-> stamp[t]]
<1>1. /\ tpc[t] = "push" /\ tpc' = [tpc EXCEPT ![t] = "idle"]
      /\ stamp' = [stamp EXCEPT ![t] = 0]
      /\ queue' = [queue EXCEPT ![t] = Append(@, m)] /\ sent' = sent \cup {m}
      /\ UNCHANGED <<buffer, shouldDeallocate, clock, out, lost, Files>>
      /\ UNCHANGED <<ppc, tsc, unscanned, node, header, ready, since, userVars>>
  BY DEF push, pollVars, fileVars, Files
<1>2. m \in Message /\ m.by = t /\ m.stamp = stamp[t]
  BY DEF MsgTypeInv, Message
<1> HIDE DEF m
<1>3. /\ tpc \in [Threads -> {"idle", "alloc", "push", "exited"}]
      /\ stamp \in [Threads -> Nat] /\ clock \in Nat
      /\ queue \in [Threads -> Seq(Message)] /\ queue[t] \in Seq(Message)
      /\ buffer[t] \in {"new", "bg"}
  BY <1>1 DEF ThreadInv, MsgTypeInv
<1>4. /\ m.stamp < clock
      /\ \A x \in sent : x.stamp # m.stamp /\ (x.by = t => x.stamp < m.stamp)
      /\ m \notin sent
  BY <1>1, <1>2 DEF StampInv
<1>5. /\ queue' \in [Threads -> Seq(Message)]
      /\ queue'[t] = Append(queue[t], m)
      /\ ToSet(queue'[t]) = ToSet(queue[t]) \cup {m} /\ queue'[t] # <<>>
      /\ queue[t] # <<>> => Head(queue'[t]) = Head(queue[t])
      /\ \A u \in Threads : u # t => queue'[u] = queue[u]
  BY <1>1, <1>2, <1>3, AppendFacts
<1>6. ThreadInv'
  BY <1>1, <1>3, <1>5 DEF ThreadInv
<1>7. ScanInv' /\ UserInv'
  BY <1>1, <1>5 DEF ScanInv, UserInv, userVars
<1>8. MsgTypeInv'
  <2>1. \A u \in Threads : \A x \in ToSet(queue'[u]) : x.by = u
    BY <1>2, <1>5 DEF MsgTypeInv
  <2> QED
    BY <1>1, <1>2, <1>5, <2>1 DEF MsgTypeInv, Files
<1>9. StampInv'
  <2>1. \A x \in sent' : x.stamp < clock
    BY <1>1, <1>4 DEF StampInv
  <2>2. \A x, y \in sent' : x.stamp = y.stamp => x = y
    BY <1>1, <1>4 DEF StampInv
  <2>3. ASSUME NEW u \in Threads, tpc'[u] = "push"
        PROVE  /\ u # t /\ tpc[u] = "push" /\ stamp'[u] = stamp[u]
               /\ stamp[u] # m.stamp /\ m.by # u
    BY <1>1, <1>2, <1>3, <2>3 DEF StampInv
  <2> QED
    BY <1>1, <2>1, <2>2, <2>3 DEF StampInv
<1>10. NothingVanishes'
  <2>1. Queued' = Queued \cup {m}
    <3>1. \A u \in Threads : ToSet(queue'[u]) = IF u = t THEN ToSet(queue[t]) \cup {m}
                                               ELSE ToSet(queue[u])
      BY <1>5
    <3> QED
      BY <3>1 DEF Queued
  <2>2. m \notin lost /\ m \notin ToSet(out)
    BY <1>4, SentFacts
  <2> QED
    BY <1>1, <2>1, <2>2 DEF NothingVanishes, Files
<1>11. ThreadOrder'
  <2> PICK n \in Nat : n = Len(queue[t])
    BY <1>3
  <2>1. /\ DOMAIN queue[t] = 1 .. n /\ DOMAIN queue'[t] = 1 .. n + 1
        /\ queue'[t][n + 1] = m /\ \A i \in 1 .. n : queue'[t][i] = queue[t][i]
    BY <1>2, <1>3, <1>5, AppendFacts
  <2>2. \A i \in 1 .. n : queue[t][i] \in sent /\ queue[t][i].by = t
    BY <2>1, SentFacts DEF MsgTypeInv
  <2>3. ASSUME NEW j \in 1 .. n + 1
        PROVE  /\ \A i \in 1 .. n + 1 : i < j => queue'[t][i].stamp < queue'[t][j].stamp
               /\ \A x \in ToSet(out) : x.by = t => x.stamp < queue'[t][j].stamp
    <3>1. CASE j = n + 1
      <4>1. \A i \in 1 .. n + 1 : i < j => i \in 1 .. n
        BY <3>1
      <4>2. \A x \in ToSet(out) : x \in sent
        BY SentFacts
      <4> QED
        BY <1>4, <2>1, <2>2, <3>1, <4>1, <4>2
    <3>2. CASE j \in 1 .. n
      <4>1. \A i \in 1 .. n + 1 : i < j => i \in 1 .. n
        BY <3>2
      <4> QED
        BY <2>1, <3>2, <4>1 DEF ThreadOrder
    <3> QED
      BY <3>1, <3>2
  <2>4. ASSUME NEW u \in Threads, NEW j \in DOMAIN queue'[u]
        PROVE  /\ \A i \in DOMAIN queue'[u] : i < j => queue'[u][i].stamp < queue'[u][j].stamp
               /\ \A x \in ToSet(out) : x.by = u => x.stamp < queue'[u][j].stamp
    <3>1. CASE u = t
      BY <2>1, <2>3, <2>4, <3>1
    <3>2. CASE u # t
      BY <1>5, <2>4, <3>2 DEF ThreadOrder
    <3> QED
      BY <3>1, <3>2
  <2> QED
    BY <1>1, <2>4 DEF ThreadOrder
<1>12. LostInv'
  BY <1>1 DEF LostInv
<1>13. ReadyInv'
  <2>1. \A u \in Threads : ToSet(queue[u]) \subseteq ToSet(queue'[u])
    BY <1>5
  <2> QED
    BY <1>1, <2>1 DEF ReadyInv
<1>14. MergeInv'
  <2>1. \A u \in Threads : header[u] => Head(queue'[u]) = Head(queue[u])
    BY <1>5 DEF ScanInv
  <2> QED
    BY <1>1, <2>1 DEF MergeInv
<1>15. ExitInv'
  BY <1>1 DEF ExitInv, userVars
<1> QED
  BY <1>6, <1>7, <1>8, <1>9, <1>10, <1>11, <1>12, <1>13, <1>14, <1>15

\* A thread ends and leaves its queue to the polls.
LEMMA ThreadExitStep ==
    ASSUME LInv, NEW t \in Threads, threadExit(t)
    PROVE  LInv'
<1> USE DEF LInv
<1>1. /\ tpc[t] = "idle" /\ buffer[t] \in {"new", "bg"}
      /\ tpc' = [tpc EXCEPT ![t] = "exited"]
      /\ shouldDeallocate' = [shouldDeallocate EXCEPT ![t] = TRUE]
      /\ UNCHANGED <<stamp, queue, buffer, clock, sent, out, lost, Files>>
      /\ UNCHANGED <<ppc, tsc, unscanned, node, header, ready, since, userVars>>
  BY DEF threadExit, pollVars, fileVars, Files
<1>2. ThreadInv'
  BY <1>1 DEF ThreadInv
<1>3. ScanInv' /\ UserInv'
  BY <1>1 DEF ScanInv, UserInv, userVars
<1>4. Queued' = Queued
  BY <1>1 DEF Queued
<1>5. MsgTypeInv' /\ NothingVanishes' /\ ThreadOrder' /\ LostInv'
  BY <1>1, <1>4 DEF MsgTypeInv, NothingVanishes, ThreadOrder, LostInv, Files
<1>6. \A u \in Threads : tpc'[u] = "push" => tpc[u] = "push"
  BY <1>1 DEF ThreadInv
<1>7. StampInv'
  BY <1>1, <1>6 DEF StampInv
<1>8. ReadyInv' /\ MergeInv'
  BY <1>1 DEF ReadyInv, MergeInv
<1>9. ExitInv'
  BY <1>1 DEF ExitInv, ThreadInv, userVars, Files
<1> QED
  BY <1>2, <1>3, <1>5, <1>7, <1>8, <1>9

-----------------------------------------------------------------------------
(* The poller: the scan.                                                   *)

\* Who holds a message has something queued.
LEMMA HoldsOne == \A t \in Threads : \A m : m \in ToSet(queue[t]) => queue[t] # <<>>
BY EmptyFacts

\* A poll takes over the new queues.
LEMMA CollectStep ==
    ASSUME LInv, Collect
    PROVE  LInv'
<1> USE DEF LInv
<1>1. /\ ppc = "collect" /\ ppc' = "scan" /\ unscanned' = ToScan
      /\ buffer' = [t \in Threads |-> IF buffer[t] = "new" THEN "bg" ELSE buffer[t]]
      /\ UNCHANGED <<threadVars, queue, shouldDeallocate, clock, tsc, node, header,
                     ready, since, Files, userVars, sent, out, lost>>
  BY DEF Collect, fileVars, Files
<1>2. ThreadInv'
  BY <1>1 DEF ThreadInv, threadVars
<1>3. ScanInv'
  BY <1>1 DEF ScanInv, ThreadInv, ToScan
<1>4. UserInv'
  BY <1>1 DEF UserInv, userVars
<1>5. Queued' = Queued
  BY <1>1 DEF Queued
<1>6. MsgTypeInv' /\ StampInv' /\ ThreadOrder'
  BY <1>1 DEF MsgTypeInv, StampInv, ThreadOrder, threadVars, Files
<1>7. NothingVanishes'
  BY <1>1, <1>5 DEF NothingVanishes, Files
<1>8. LostInv'
  BY <1>1, SentFacts DEF LostInv
<1>9. \A t \in Threads : queue[t] # <<>> => t \in ToScan
  BY DEF ThreadInv, ToScan
<1>10. ReadyInv'
  BY <1>1, <1>9, HoldsOne DEF ReadyInv
<1>11. MergeInv'
  BY <1>1 DEF MergeInv
<1>12. ExitInv'
  BY <1>1, <1>9 DEF ExitInv, userVars, threadVars, Files
<1> QED
  BY <1>2, <1>3, <1>4, <1>6, <1>7, <1>8, <1>10, <1>11, <1>12

\* A poll looks at the front of one queue, and leaves an empty one to be judged dead.
LEMMA FrontOfStep ==
    ASSUME LInv, NEW t \in Threads, FrontOf(t)
    PROVE  LInv'
<1> USE DEF LInv
<1>1. /\ ppc = "scan" /\ ppc' \in {"scan", "dead"}
      /\ t \in unscanned /\ unscanned' = unscanned \ {t}
      /\ UNCHANGED <<threadVars, queueVars, clock, tsc, ready, since, Files, userVars>>
      /\ UNCHANGED <<sent, out, lost>>
  BY DEF FrontOf, fileVars, Files
<1>2. \/ /\ queue[t] # <<>> /\ header' = [header EXCEPT ![t] = TRUE] /\ UNCHANGED <<ppc, node>>
      \/ /\ queue[t] = <<>> /\ ~header[t] /\ ppc' = "dead" /\ node' = {t} /\ UNCHANGED header
  BY DEF FrontOf, ScanInv
<1>3. UNCHANGED Places /\ UNCHANGED Files
  BY <1>1 DEF Places, threadVars, queueVars
<1>4. ThreadInv' /\ UserInv'
  BY <1>1 DEF ThreadInv, UserInv, threadVars, queueVars, userVars
<1>5. ScanInv'
  BY <1>1, <1>2 DEF ScanInv, queueVars
<1>6. StampInv' /\ LostInv' /\ ThreadOrder' /\ MsgTypeInv' /\ NothingVanishes'
  BY <1>3, PlacesSame, FilesSame
<1>7. \A u \in Threads : queue[u] # <<>> /\ (header[u] \/ u \in unscanned)
                           => header'[u] \/ u \in unscanned'
  BY <1>1, <1>2 DEF ScanInv
<1>8. ReadyInv'
  BY <1>1, <1>7, HoldsOne DEF ReadyInv, queueVars
<1>9. MergeInv'
  BY <1>1 DEF MergeInv
<1>10. ExitInv'
  BY <1>1, <1>7 DEF ExitInv, userVars, threadVars, queueVars, Files
<1> QED
  BY <1>4, <1>5, <1>6, <1>8, <1>9, <1>10

\* The buffer that is deleted was found without a front by this poll; what its
\* thread pushed since is lost, and nothing else.
LEMMA CheckDeallocateStep ==
    ASSUME LInv, CheckDeallocate
    PROVE  LInv'
<1> USE DEF LInv
<1>1. PICK t \in node :
         IF shouldDeallocate[t]
         THEN /\ buffer' = [buffer EXCEPT ![t] = "deleted"]
              /\ lost' = lost \cup ToSet(queue[t])
              /\ queue' = [queue EXCEPT ![t] = <<>>]
         ELSE UNCHANGED <<buffer, lost, queue>>
  BY DEF CheckDeallocate, Orphaned
<1>2. /\ ppc = "dead" /\ ppc' = "scan" /\ node' = {}
      /\ UNCHANGED <<threadVars, shouldDeallocate, clock, tsc, unscanned, header,
                     ready, since, Files, userVars, sent, out>>
  BY DEF CheckDeallocate, fileVars, Files
<1>3. t \in Threads /\ buffer[t] = "bg" /\ ~header[t] /\ t \notin unscanned
  BY <1>1 DEF ScanInv
<1>4. UserInv'
  BY <1>2 DEF UserInv, userVars
<1>5. MergeInv'
  BY <1>2 DEF MergeInv
<1>6. CASE ~shouldDeallocate[t]
  <2>1. UNCHANGED <<buffer, lost, queue>>
    BY <1>1, <1>6
  <2>2. UNCHANGED Places /\ UNCHANGED Files
    BY <1>2, <2>1 DEF Places, threadVars
  <2>3. ThreadInv' /\ ScanInv'
    BY <1>2, <2>1 DEF ThreadInv, ScanInv, threadVars
  <2>4. StampInv' /\ LostInv' /\ ThreadOrder' /\ MsgTypeInv' /\ NothingVanishes'
    BY <2>2, PlacesSame, FilesSame
  <2>5. ReadyInv' /\ ExitInv'
    BY <1>2, <2>1 DEF ReadyInv, ExitInv, userVars, threadVars, Files
  <2> QED
    BY <1>4, <1>5, <2>3, <2>4, <2>5
<1>7. CASE shouldDeallocate[t]
  <2>1. /\ buffer' = [buffer EXCEPT ![t] = "deleted"]
        /\ lost' = lost \cup ToSet(queue[t])
        /\ queue' = [queue EXCEPT ![t] = <<>>]
    BY <1>1, <1>7
  <2>2. /\ queue'[t] = <<>> /\ \A u \in Threads : u # t => queue'[u] = queue[u]
        /\ ToSet(queue'[t]) = {} /\ queue' \in [Threads -> Seq(Message)]
    BY <1>3, <2>1, EmptyFacts DEF MsgTypeInv
  <2>3. ThreadInv'
    BY <1>2, <1>3, <1>7, <2>1, <2>2 DEF ThreadInv, threadVars
  <2>4. ScanInv'
    BY <1>2, <1>3, <2>1, <2>2 DEF ScanInv, ThreadInv
  <2>5. MsgTypeInv'
    BY <1>2, <2>2 DEF MsgTypeInv, threadVars, Files
  <2>6. StampInv'
    BY <1>2 DEF StampInv, threadVars
  <2>7. LostInv'
    <3>1. \A m \in ToSet(queue[t]) : m.by = t
      BY <1>3 DEF MsgTypeInv
    <3> QED
      BY <1>3, <2>1, <3>1, SentFacts DEF LostInv, ThreadInv
  <2>8. NothingVanishes'
    <3>1. Queued = Queued' \cup ToSet(queue[t])
      <4>1. \A u \in Threads : ToSet(queue'[u]) = IF u = t THEN {} ELSE ToSet(queue[u])
        BY <2>2
      <4>2. Queued' = UNION {ToSet(queue'[u]) : u \in Threads}
        BY DEF Queued
      <4> QED
        BY <1>3, <4>1, <4>2 DEF Queued
    <3>2. Queued' \cap ToSet(queue[t]) = {}
      <4> SUFFICES ASSUME NEW u \in Threads, NEW x \in ToSet(queue'[u]), x \in ToSet(queue[t])
                   PROVE  FALSE
        BY DEF Queued
      <4>1. u # t /\ x \in ToSet(queue[u])
        BY <2>2
      <4> QED
        BY <1>3, <4>1 DEF MsgTypeInv
    <3> QED
      BY <1>2, <2>1, <3>1, <3>2 DEF NothingVanishes, Files
  <2>9. ThreadOrder'
    <3>1. DOMAIN queue'[t] = {}
      BY <2>2, EmptyFacts
    <3> QED
      BY <1>2, <2>2, <3>1 DEF ThreadOrder
  <2>10. ReadyInv'
    BY <1>2, <1>3, <2>2 DEF ReadyInv
  <2>11. ExitInv'
    BY <1>2, <2>2 DEF ExitInv, userVars, threadVars, Files
  <2> QED
    BY <1>4, <1>5, <2>3, <2>4, <2>5, <2>6, <2>7, <2>8, <2>9, <2>10, <2>11
<1> QED
  BY <1>6, <1>7

\* A poll has read all fronts.
LEMMA ScanDoneStep ==
    ASSUME LInv, ScanDone
    PROVE  LInv'
<1> USE DEF LInv
<1>1. /\ ppc = "scan" /\ unscanned = {} /\ ppc' \in {"output", "return"}
      /\ ppc' = "return" => \A t \in Threads : buffer[t] # "bg"
      /\ UNCHANGED <<threadVars, queueVars, clock, tsc, unscanned, node, header>>
      /\ UNCHANGED <<ready, since, Files, userVars, sent, out, lost>>
  BY DEF ScanDone, fileVars, Files
<1>2. UNCHANGED Places /\ UNCHANGED Files
  BY <1>1 DEF Places, threadVars, queueVars
<1>3. ThreadInv' /\ UserInv'
  BY <1>1 DEF ThreadInv, UserInv, threadVars, queueVars, userVars
<1>4. ScanInv'
  BY <1>1 DEF ScanInv, queueVars
<1>5. StampInv' /\ LostInv' /\ ThreadOrder' /\ MsgTypeInv' /\ NothingVanishes'
  BY <1>2, PlacesSame, FilesSame
<1>6. ReadyInv'
  BY <1>1 DEF ReadyInv, queueVars
<1>7. MergeInv'
  <2>1. since = Len(out) /\ Len(out) \in Nat
    BY <1>1, SentFacts DEF MergeInv
  <2> QED
    BY <1>1, <2>1 DEF MergeInv
<1>8. ExitInv'
  BY <1>1 DEF ExitInv, ScanInv, userVars, threadVars, queueVars, Files
<1> QED
  BY <1>3, <1>4, <1>5, <1>6, <1>7, <1>8

-----------------------------------------------------------------------------
(* The poller: the output.                                                 *)

\* The front of a queue is the oldest of its thread's messages.
LEMMA HeadOldest ==
    ASSUME LInv, NEW t \in Threads, queue[t] # <<>>
    PROVE  LET m == Head(queue[t])
           IN  /\ m \in ToSet(queue[t]) /\ m \in Queued /\ m \in sent /\ m \in Message
               /\ m.by = t /\ m.stamp \in Nat
               /\ \A x \in ToSet(Tail(queue[t])) : m.stamp < x.stamp /\ x.stamp \in Nat
               /\ \A x \in ToSet(queue[t]) : m.stamp <= x.stamp
               /\ ToSet(queue[t]) = {m} \cup ToSet(Tail(queue[t]))
               /\ Tail(queue[t]) \in Seq(Message)
               /\ \A x \in ToSet(out) : x.by = t => x.stamp < m.stamp
<1> USE DEF LInv
<1> DEFINE q == queue[t]
           m == Head(q)
<1>1. q \in Seq(Message)
  BY DEF MsgTypeInv
<1>2. /\ Tail(q) \in Seq(Message) /\ Len(q) \in Nat
      /\ m = q[1] /\ m \in Message /\ m \in ToSet(q)
      /\ \A i \in 1 .. Len(q) - 1 : Tail(q)[i] = q[i + 1]
      /\ DOMAIN q = 1 .. Len(q) /\ DOMAIN Tail(q) = 1 .. Len(q) - 1 /\ 1 \in DOMAIN q
      /\ ToSet(q) = {m} \cup ToSet(Tail(q))
  BY <1>1, TailFacts
<1>3. m.by = t /\ m \in Queued /\ m \in sent /\ m.stamp \in Nat
  BY <1>2, SentFacts DEF MsgTypeInv
<1>4. \A x \in ToSet(Tail(q)) : m.stamp < x.stamp /\ x.stamp \in Nat
  <2> SUFFICES ASSUME NEW i \in DOMAIN Tail(q)
               PROVE  m.stamp < Tail(q)[i].stamp /\ Tail(q)[i].stamp \in Nat
    BY DEF ToSet
  <2>1. i \in Nat /\ i + 1 \in DOMAIN q /\ 1 < i + 1 /\ Tail(q)[i] = q[i + 1]
    BY <1>2
  <2>2. q[1].stamp < q[i + 1].stamp
    BY <1>2, <2>1 DEF ThreadOrder
  <2>3. q[i + 1].stamp \in Nat
    BY <2>1, SentFacts
  <2> QED
    BY <1>2, <2>1, <2>2, <2>3
<1>5. \A x \in ToSet(q) : m.stamp <= x.stamp
  BY <1>2, <1>3, <1>4
<1>6. \A x \in ToSet(out) : x.by = t => x.stamp < m.stamp
  BY <1>2 DEF ThreadOrder
<1> QED
  BY <1>2, <1>3, <1>4, <1>5, <1>6

\* Every other cached front is younger than the root.
LEMMA RootOldest ==
    ASSUME LInv, NEW t \in Threads, IsRoot(t), NEW u \in Threads, u # t, header[u]
    PROVE  Head(queue[t]).stamp < Head(queue[u]).stamp
<1>1. queue[t] # <<>> /\ queue[u] # <<>>
  BY DEF LInv, ScanInv, IsRoot
<1>2. /\ Head(queue[t]) \in sent /\ Head(queue[t]).by = t /\ Head(queue[t]).stamp \in Nat
      /\ Head(queue[u]) \in sent /\ Head(queue[u]).by = u /\ Head(queue[u]).stamp \in Nat
  BY <1>1, HeadOldest
<1>3. Head(queue[t]).stamp # Head(queue[u]).stamp
  BY <1>2 DEF LInv, StampInv
<1>4. Head(queue[t]).stamp <= Head(queue[u]).stamp
  BY DEF IsRoot
<1> QED
  BY <1>2, <1>3, <1>4

\* A poll writes the oldest front.
LEMMA OutputStep ==
    ASSUME LInv, NEW t \in Threads, Output(t)
    PROVE  LInv'
<1> USE DEF LInv
<1> DEFINE m == Head(queue[t])
<1>1. /\ ppc = "output" /\ IsRoot(t) /\ out' = Append(out, m)
      /\ queue' = [queue EXCEPT ![t] = Tail(@)]
      /\ header' = [header EXCEPT ![t] = (queue'[t] # <<>>)]
      /\ UNCHANGED <<threadVars, buffer, shouldDeallocate, clock, ppc, tsc>>
      /\ UNCHANGED <<unscanned, node, ready, since, userVars, sent, lost>>
  BY DEF Output, Popped, HasFront
<1>2. header[t] /\ buffer[t] = "bg" /\ queue[t] # <<>> /\ queue[t] \in Seq(Message)
  BY <1>1 DEF IsRoot, ScanInv, MsgTypeInv
<1>3. /\ m \in ToSet(queue[t]) /\ m \in Queued /\ m \in sent /\ m \in Message
      /\ m.by = t /\ m.stamp \in Nat
      /\ \A x \in ToSet(Tail(queue[t])) : m.stamp < x.stamp /\ x.stamp \in Nat
      /\ ToSet(queue[t]) = {m} \cup ToSet(Tail(queue[t]))
      /\ Tail(queue[t]) \in Seq(Message)
      /\ \A x \in ToSet(out) : x.by = t => x.stamp < m.stamp
  BY <1>2, HeadOldest
<1> HIDE DEF m
<1>4. /\ queue'[t] = Tail(queue[t]) /\ \A u \in Threads : u # t => queue'[u] = queue[u]
      /\ queue' \in [Threads -> Seq(Message)]
      /\ header' \in [Threads -> BOOLEAN] /\ (header'[t] <=> queue'[t] # <<>>)
      /\ \A u \in Threads : u # t => header'[u] = header[u]
  <2>1. queue \in [Threads -> Seq(Message)] /\ header \in [Threads -> BOOLEAN]
    BY DEF MsgTypeInv, ScanInv
  <2> QED
    BY <1>1, <1>3, <2>1
<1>5. /\ out' \in Seq(Message) /\ ToSet(out') = ToSet(out) \cup {m}
      /\ Len(out) \in Nat /\ Len(out') = Len(out) + 1 /\ out'[Len(out) + 1] = m
      /\ DOMAIN out = 1 .. Len(out) /\ DOMAIN out' = 1 .. Len(out) + 1
      /\ \A i \in 1 .. Len(out) : out'[i] = out[i]
  <2>1. out \in Seq(Message)
    BY DEF MsgTypeInv
  <2> QED
    BY <1>1, <1>3, <2>1, AppendFacts
<1>6. ThreadInv'
  BY <1>1, <1>2, <1>4 DEF ThreadInv, threadVars
<1>7. ScanInv'
  BY <1>1, <1>2, <1>4 DEF ScanInv
<1>8. UserInv'
  BY <1>1 DEF UserInv, userVars
<1>9. StampInv' /\ LostInv'
  BY <1>1 DEF StampInv, LostInv, threadVars
<1>10. /\ membuf' \in Seq(Message)
       /\ ToSet(membuf') \cup written' \cup discarded'
            = ToSet(membuf) \cup written \cup discarded \cup {m}
  <2> DEFINE buf == Append(membuf, m)
  <2>1. membuf \in Seq(Message)
    BY DEF MsgTypeInv
  <2>2. buf \in Seq(Message) /\ ToSet(buf) = ToSet(membuf) \cup {m}
    BY <1>3, <2>1, AppendFacts
  <2> HIDE DEF buf
  <2>3. flushLogFile(buf) \/ (membuf' = buf /\ KeepFile)
    BY DEF Output, buf, m
  <2>4. CASE flushLogFile(buf)
    BY <2>2, <2>4, EmptyFacts DEF flushLogFile
  <2>5. CASE membuf' = buf /\ KeepFile
    BY <2>2, <2>5 DEF KeepFile
  <2> QED
    BY <2>3, <2>4, <2>5
<1>11. MsgTypeInv'
  <2>1. \A u \in Threads : ToSet(queue'[u]) \subseteq ToSet(queue[u])
    BY <1>3, <1>4
  <2>2. \A u \in Threads : \A x \in ToSet(queue'[u]) : x.by = u
    BY <2>1 DEF MsgTypeInv
  <2> QED
    BY <1>1, <1>4, <1>5, <1>10, <2>2 DEF MsgTypeInv, threadVars
<1>12. NothingVanishes'
  <2>1. Queued = Queued' \cup {m}
    <3>1. \A u \in Threads : ToSet(queue[u]) = IF u = t THEN {m} \cup ToSet(queue'[t])
                                              ELSE ToSet(queue'[u])
      BY <1>3, <1>4
    <3>2. Queued' = UNION {ToSet(queue'[u]) : u \in Threads}
      BY DEF Queued
    <3> QED
      BY <3>1, <3>2 DEF Queued
  <2>2. m \notin Queued'
    <3> SUFFICES ASSUME NEW u \in Threads, m \in ToSet(queue'[u]) PROVE FALSE
      BY DEF Queued
    <3>1. u = t
      BY <1>3, <1>4 DEF MsgTypeInv
    <3>2. m.stamp < m.stamp
      BY <1>3, <1>4, <3>1
    <3> QED
      BY <1>3, <3>2
  <2>3. m \notin lost /\ m \notin ToSet(out)
    BY <1>3 DEF NothingVanishes
  <2>4. \A i \in 1 .. Len(out) : out[i] # m
    BY <1>5, <2>3 DEF ToSet
  <2>5. \A i, j \in DOMAIN out' : i # j => out'[i] # out'[j]
    <3>1. \A i \in DOMAIN out' : i \in DOMAIN out \/ i = Len(out) + 1
      BY <1>5
    <3> QED
      BY <1>5, <2>4, <3>1 DEF NothingVanishes
  <2> QED
    BY <1>1, <1>5, <1>10, <2>1, <2>2, <2>3, <2>5 DEF NothingVanishes
<1>13. ThreadOrder'
  <2>1. \A i, j \in DOMAIN out' : i < j /\ out'[i].by = out'[j].by
                                     => out'[i].stamp < out'[j].stamp
    <3> SUFFICES ASSUME NEW i \in DOMAIN out', NEW j \in DOMAIN out', i < j,
                        out'[i].by = out'[j].by
                 PROVE  out'[i].stamp < out'[j].stamp
      OBVIOUS
    <3>1. i \in 1 .. Len(out) /\ out'[i] = out[i] /\ out[i] \in ToSet(out)
      BY <1>5, SentFacts
    <3>2. CASE j = Len(out) + 1
      BY <1>3, <1>5, <3>1, <3>2
    <3>3. CASE j \in 1 .. Len(out)
      BY <1>5, <3>1, <3>3 DEF ThreadOrder
    <3> QED
      BY <1>5, <3>2, <3>3
  <2>2. ASSUME NEW u \in Threads, NEW j \in DOMAIN queue'[u]
        PROVE  /\ \A i \in DOMAIN queue'[u] : i < j => queue'[u][i].stamp < queue'[u][j].stamp
               /\ \A x \in ToSet(out') : x.by = u => x.stamp < queue'[u][j].stamp
    <3>1. CASE u = t
      <4> DEFINE q == queue[t]
      <4> PICK n \in Nat : n = Len(q)
        BY <1>2
      <4>1. /\ DOMAIN q = 1 .. n /\ DOMAIN Tail(q) = 1 .. n - 1
            /\ \A i \in 1 .. n - 1 : Tail(q)[i] = q[i + 1]
        BY <1>2, TailFacts
      <4> HIDE DEF q
      <4>2. queue'[u] = Tail(q)
        BY <1>4, <3>1 DEF q
      <4>3. j \in 1 .. n - 1 /\ j \in DOMAIN Tail(q)
        BY <2>2, <4>1, <4>2
      <4>4. j + 1 \in DOMAIN q /\ queue'[u][j] = q[j + 1]
        BY <4>1, <4>2, <4>3
      <4>5. ASSUME NEW i \in DOMAIN queue'[u], i < j
            PROVE  queue'[u][i].stamp < queue'[u][j].stamp
        <5>1. i \in 1 .. n - 1
          BY <4>1, <4>2, <4>5
        <5>2. i + 1 \in DOMAIN q /\ i + 1 < j + 1 /\ queue'[u][i] = q[i + 1]
          BY <4>1, <4>2, <4>3, <4>5, <5>1
        <5> QED
          BY <4>4, <5>2 DEF ThreadOrder, q
      <4>6. \A x \in ToSet(out) : x.by = u => x.stamp < queue'[u][j].stamp
        BY <3>1, <4>4 DEF ThreadOrder, q
      <4>7. m.stamp < queue'[u][j].stamp
        <5>1. Tail(q)[j] \in ToSet(Tail(q))
          BY <4>3 DEF ToSet
        <5> QED
          BY <1>3, <4>2, <5>1 DEF q
      <4> QED
        BY <1>5, <4>5, <4>6, <4>7
    <3>2. CASE u # t
      BY <1>3, <1>4, <1>5, <2>2, <3>2 DEF ThreadOrder
    <3> QED
      BY <3>1, <3>2
  <2> QED
    BY <2>1, <2>2 DEF ThreadOrder
<1>14. ReadyInv'
  <2> SUFFICES ASSUME NEW x \in ready, x \notin ToSet(out')
               PROVE  x.by \in Threads /\ x \in ToSet(queue'[x.by]) /\ header'[x.by]
    BY <1>1 DEF ReadyInv
  <2>1. x.by \in Threads /\ x \in ToSet(queue[x.by]) /\ header[x.by] /\ x # m
    BY <1>1, <1>5 DEF ReadyInv, ScanInv
  <2>2. x \in ToSet(queue'[x.by])
    BY <1>3, <1>4, <2>1
  <2>3. queue'[x.by] # <<>>
    BY <2>2, EmptyFacts
  <2> QED
    BY <1>4, <2>1, <2>2, <2>3
<1>15. MergeInv'
  <2> SUFFICES ASSUME NEW u \in Threads, header'[u]
               PROVE  Last(out').stamp < Head(queue'[u]).stamp
    BY <1>1 DEF MergeInv
  <2>1. Last(out') = m
    BY <1>5 DEF Last
  <2>2. CASE u = t
    <3>1. queue'[t] # <<>> /\ queue'[t] \in Seq(Message) /\ queue'[t] = Tail(queue[t])
      BY <1>4, <2>2
    <3>2. Head(queue'[t]) \in ToSet(queue'[t])
      BY <3>1, TailFacts
    <3> QED
      BY <1>3, <2>1, <2>2, <3>1, <3>2
  <2>3. CASE u # t
    <3>1. header[u] /\ queue'[u] = queue[u]
      BY <1>4, <2>3
    <3> QED
      BY <1>1, <2>1, <2>3, <3>1, RootOldest DEF m
  <2> QED
    BY <2>2, <2>3
<1>16. ExitInv'
  BY <1>1, <1>4 DEF ExitInv, ScanInv, userVars, threadVars
<1> QED
  BY <1>6, <1>7, <1>8, <1>9, <1>11, <1>12, <1>13, <1>14, <1>15, <1>16

\* The output ends when no cached front is old enough.  In the last poll of the
\* program all are, so then no message is left.
LEMMA OutputDoneStep ==
    ASSUME LInv, OutputDone
    PROVE  LInv'
<1> USE DEF LInv
<1>1. /\ ppc = "output" /\ ppc' \in {"return", "flush"}
      /\ ~\E t \in Threads : IsRoot(t) /\ OldEnough(t)
      /\ UNCHANGED <<threadVars, queueVars, clock, tsc, unscanned, node, header>>
      /\ UNCHANGED <<ready, since, Files, userVars, sent, out, lost>>
  BY DEF OutputDone, fileVars, Files
<1>2. UNCHANGED Places /\ UNCHANGED Files
  BY <1>1 DEF Places, threadVars, queueVars
<1>3. ThreadInv' /\ UserInv'
  BY <1>1 DEF ThreadInv, UserInv, threadVars, queueVars, userVars
<1>4. ScanInv'
  BY <1>1 DEF ScanInv, queueVars
<1>5. StampInv' /\ LostInv' /\ ThreadOrder' /\ MsgTypeInv' /\ NothingVanishes'
  BY <1>2, PlacesSame, FilesSame
<1>6. ReadyInv' /\ MergeInv'
  BY <1>1 DEF ReadyInv, MergeInv
<1>7. ASSUME mpc = "exit" PROVE \A t \in Threads : queue[t] = <<>>
  <2> DEFINE F == {t \in Threads : header[t]}
             S == {Head(queue[t]).stamp : t \in F}
  <2>1. \A t \in F : queue[t] # <<>> /\ Head(queue[t]).stamp \in Nat /\ OldEnough(t)
    <3> TAKE t \in F
    <3>1. queue[t] # <<>>
      BY DEF ScanInv
    <3>2. Head(queue[t]).stamp \in Nat /\ Head(queue[t]) \in sent
      BY <3>1, HeadOldest
    <3>3. Head(queue[t]).stamp < tsc
      BY <1>1, <1>7, <3>2 DEF ExitInv, StampInv
    <3> QED
      BY <3>1, <3>2, <3>3 DEF OldEnough
  <2>2. F = {}
    <3> SUFFICES ASSUME F # {} PROVE FALSE
      OBVIOUS
    <3>1. S \in SUBSET Nat /\ S # {}
      BY <2>1
    <3>2. PICK x \in S : \A y \in S : x <= y
      <4> HIDE DEF S
      <4> QED
        BY <3>1, Least
    <3>3. PICK t \in F : x = Head(queue[t]).stamp
      OBVIOUS
    <3>4. IsRoot(t)
      BY <3>2, <3>3 DEF IsRoot
    <3> QED
      BY <1>1, <2>1, <3>3, <3>4
  <2>3. unscanned = {}
    BY <1>1 DEF ScanInv
  <2> QED
    BY <1>1, <1>7, <2>2, <2>3 DEF ExitInv
<1>8. ExitInv'
  BY <1>1, <1>7 DEF ExitInv, UserInv, userVars, threadVars, queueVars, Files
<1> QED
  BY <1>3, <1>4, <1>5, <1>6, <1>8

\* A poll flushes the buffer, or leaves it for later.
LEMMA FlushStep ==
    ASSUME LInv, FlushNow \/ FlushLater
    PROVE  LInv'
<1> USE DEF LInv
<1>1. /\ ppc = "flush" /\ ppc' = "return"
      /\ UNCHANGED <<threadVars, queueVars, clock, tsc, unscanned, node, header>>
      /\ UNCHANGED <<ready, since, userVars, sent, out, lost>>
  BY DEF FlushNow, FlushLater
<1>2. UNCHANGED Places
  BY <1>1 DEF Places, threadVars, queueVars
<1>3. ThreadInv' /\ UserInv'
  BY <1>1 DEF ThreadInv, UserInv, threadVars, queueVars, userVars
<1>4. ScanInv'
  BY <1>1 DEF ScanInv, queueVars
<1>5. StampInv' /\ LostInv' /\ ThreadOrder'
  BY <1>2, PlacesSame
<1>6. MsgTypeInv' /\ NothingVanishes'
  <2>1. CASE FlushNow
    BY <1>2, <2>1, FlushSame DEF FlushNow
  <2>2. CASE FlushLater
    <3>1. UNCHANGED Files
      BY <2>2 DEF FlushLater, Files
    <3> QED
      BY <1>2, <3>1, FilesSame
  <2> QED
    BY <2>1, <2>2
<1>7. ReadyInv' /\ MergeInv'
  BY <1>1 DEF ReadyInv, MergeInv
<1>8. ExitInv'
  BY <1>1 DEF ExitInv, UserInv, userVars, threadVars, queueVars
<1> QED
  BY <1>3, <1>4, <1>5, <1>6, <1>7, <1>8

-----------------------------------------------------------------------------
(* The user's thread and the polling thread.                               *)

\* What is left to show of a step that moves no message: who polls, and what
\* holds when the program ends.
RestInv ==
    /\ ThreadInv /\ ScanInv /\ StampInv /\ LostInv /\ ThreadOrder /\ ReadyInv /\ MergeInv

Still == UNCHANGED <<threadVars, queueVars, clock, sent, out, lost>>

\* Nothing that is about messages changes when no message moves.
LEMMA StillFacts ==
    ASSUME LInv, Still
    PROVE  ThreadInv' /\ StampInv' /\ LostInv' /\ ThreadOrder' /\ UNCHANGED Places
<1>1. UNCHANGED Places /\ UNCHANGED shouldDeallocate
  BY DEF Still, Places, threadVars, queueVars
<1>2. ThreadInv'
  BY <1>1 DEF LInv, ThreadInv, Places
<1> QED
  BY <1>1, <1>2, PlacesSame DEF LInv

\* A poll begins with the clock as its limit.
LEMMA BeginFacts ==
    ASSUME LInv, NEW force, Begin(force), Still
    PROVE  RestInv' /\ ppc = "none" /\ ppc' = "collect" /\ tsc' = clock
<1>1. /\ ppc = "none" /\ ppc' = "collect" /\ tsc' = clock /\ ready' = Queued /\ since' = Len(out)
      /\ UNCHANGED <<unscanned, node, header>>
  BY DEF Begin, Queued
<1>2. UNCHANGED <<queue, buffer, out>>
  BY DEF Still, queueVars
<1>3. ScanInv'
  BY <1>1, <1>2 DEF LInv, ScanInv
<1>4. ReadyInv'
  <2>1. \A m \in Queued : m.by \in Threads /\ m \in ToSet(queue[m.by])
    BY DEF LInv, MsgTypeInv, Queued
  <2> QED
    BY <1>1, <1>2, <2>1 DEF ReadyInv
<1>5. MergeInv'
  BY <1>1, <1>2 DEF MergeInv
<1> QED
  BY <1>1, <1>3, <1>4, <1>5, StillFacts DEF RestInv

\* A poll returns.
LEMMA ReturnFacts ==
    ASSUME LInv, Return, Still
    PROVE  RestInv' /\ ppc = "return" /\ ppc' = "none"
<1>1. ppc = "return" /\ ppc' = "none" /\ UNCHANGED <<unscanned, node, header>>
  BY DEF Return
<1>2. UNCHANGED <<queue, buffer>>
  BY DEF Still, queueVars
<1>3. ScanInv'
  BY <1>1, <1>2 DEF LInv, ScanInv
<1>4. ReadyInv' /\ MergeInv'
  BY <1>1 DEF ReadyInv, MergeInv
<1> QED
  BY <1>1, <1>3, <1>4, StillFacts DEF RestInv

\* What is about the polls stays when none takes a step.
LEMMA NoPollFacts ==
    ASSUME LInv, UNCHANGED pollVars, Still
    PROVE  RestInv'
<1>1. UNCHANGED <<ppc, tsc, unscanned, node, header, ready, since, queue, buffer, out>>
  BY DEF Still, pollVars, queueVars
<1>2. ScanInv' /\ ReadyInv' /\ MergeInv'
  BY <1>1 DEF LInv, ScanInv, ReadyInv, MergeInv
<1> QED
  BY <1>2, StillFacts DEF RestInv

\* poll, startPollingThread, stopPollingThread, the start of the end of the
\* program and the polling thread touch no file.
LEMMA NoFileFacts ==
    ASSUME LInv, PollEnv
    PROVE  Still /\ MsgTypeInv' /\ NothingVanishes' /\ UNCHANGED <<membuf, queue, tpc, clock>>
<1>1. Still /\ UNCHANGED Files /\ UNCHANGED <<membuf, queue, tpc, clock>>
  BY DEF PollEnv, Still, fileVars, Files, queueVars, threadVars
<1>2. UNCHANGED Places
  BY <1>1, StillFacts
<1> QED
  BY <1>1, <1>2, FilesSame DEF LInv

\* The invariant of the next state, from its parts.
LEMMA LInvParts ==
    RestInv' /\ MsgTypeInv' /\ NothingVanishes' /\ UserInv' /\ ExitInv' => LInv'
BY DEF RestInv, LInv

\* poll is called, by the user or by the polling thread.
LEMMA PollCallStep ==
    ASSUME LInv, (\E force \in BOOLEAN : poll(force)) \/ threadPolls
    PROVE  LInv'
<1> USE DEF LInv
<1>1. PICK force : Begin(force)
  BY DEF poll, threadPolls
<1>2. PollEnv
  BY DEF poll, threadPolls
<1>3. /\ RestInv' /\ ppc = "none" /\ ppc' = "collect"
      /\ MsgTypeInv' /\ NothingVanishes' /\ UNCHANGED <<membuf, queue, tpc, clock>>
  BY <1>1, <1>2, NoFileFacts, BeginFacts
<1>4. UserInv' /\ ExitInv'
  <2>1. CASE \E force1 \in BOOLEAN : poll(force1)
    BY <1>3, <2>1 DEF poll, UserInv, ExitInv
  <2>2. CASE threadPolls
    <3>1. thr = "run" /\ thr' \in {"run", "last"} /\ (threadRunning => thr' = "run")
          /\ UNCHANGED <<mpc, threadRunning>>
      BY <2>2 DEF threadPolls, LoopWhile
    <3> QED
      BY <1>3, <3>1 DEF UserInv, ExitInv
  <2> QED
    BY <2>1, <2>2
<1> QED
  BY <1>3, <1>4, LInvParts

\* A poll returns to the user or to the polling thread.
LEMMA PollReturnStep ==
    ASSUME LInv, pollReturns \/ threadReturns
    PROVE  LInv'
<1> USE DEF LInv
<1>1. Return /\ PollEnv
  BY DEF pollReturns, threadReturns
<1>2. /\ RestInv' /\ ppc = "return" /\ ppc' = "none"
      /\ MsgTypeInv' /\ NothingVanishes' /\ UNCHANGED <<membuf, queue, tpc, clock>>
  BY <1>1, NoFileFacts, ReturnFacts
<1>3. UserInv' /\ ExitInv'
  BY <1>2 DEF pollReturns, threadReturns, UserInv, ExitInv
<1> QED
  BY <1>2, <1>3, LInvParts

\* The polling thread is told to stop.
LEMMA StopFacts ==
    ASSUME LInv, NEW then \in {"join", "join_start", "join_exit"}, mpc = "free", Stop(then),
           then = "join_exit" => \A t \in Threads : tpc[t] \in {"idle", "exited"}
    PROVE  LInv'
<1> USE DEF LInv
<1>1. /\ threadRunning' = FALSE /\ mpc' = then /\ UNCHANGED thr /\ UNCHANGED pollVars /\ PollEnv
  BY DEF Stop
<1>2. /\ RestInv' /\ MsgTypeInv' /\ NothingVanishes' /\ UNCHANGED <<membuf, queue, tpc, clock>>
  BY <1>1, NoFileFacts, NoPollFacts
<1>3. UserInv' /\ ExitInv'
  BY <1>1, <1>2 DEF UserInv, ExitInv, pollVars
<1> QED
  BY <1>2, <1>3, LInvParts

\* The polling thread is started.
LEMMA SpawnFacts ==
    ASSUME LInv, mpc \in {"free", "join_start"}, thr = "none", Spawn
    PROVE  LInv'
<1> USE DEF LInv
<1>1. /\ threadRunning' = TRUE /\ thr' = "run" /\ mpc' = "free" /\ UNCHANGED pollVars /\ PollEnv
  BY DEF Spawn
<1>2. /\ RestInv' /\ MsgTypeInv' /\ NothingVanishes' /\ UNCHANGED <<membuf, queue, tpc, clock>>
  BY <1>1, NoFileFacts, NoPollFacts
<1>3. UserInv' /\ ExitInv'
  BY <1>1, <1>2 DEF UserInv, ExitInv, pollVars
<1> QED
  BY <1>2, <1>3, LInvParts

\* The last poll of the program begins.
LEMMA LastPollFacts ==
    ASSUME LInv, mpc \in {"free", "join_exit"}, thr = "none", Begin(TRUE), mpc' = "exit",
           UNCHANGED <<threadRunning, thr>>, PollEnv,
           \A t \in Threads : tpc[t] \in {"idle", "exited"}
    PROVE  LInv'
<1> USE DEF LInv
<1>1. /\ RestInv' /\ ppc = "none" /\ ppc' = "collect" /\ tsc' = clock
      /\ MsgTypeInv' /\ NothingVanishes' /\ UNCHANGED <<membuf, queue, tpc, clock>>
  BY NoFileFacts, BeginFacts
<1>2. UserInv' /\ ExitInv'
  BY <1>1 DEF UserInv, ExitInv
<1> QED
  BY <1>1, <1>2, LInvParts

\* startPollingThread, stopPollingThread and the end of the program.
LEMMA ThreadControlStep ==
    ASSUME LInv, startPollingThread \/ stopPollingThread \/ Exit \/ Joined
    PROVE  LInv'
<1>1. mpc = "free" /\ ~threadRunning => thr = "none"
  BY DEF LInv, UserInv
<1>2. CASE startPollingThread
  BY <1>1, <1>2, StopFacts, SpawnFacts DEF startPollingThread
<1>3. CASE stopPollingThread
  BY <1>3, StopFacts DEF stopPollingThread
<1>4. CASE Exit
  BY <1>1, <1>4, StopFacts, LastPollFacts DEF Exit
<1>5. CASE Joined
  <2>1. CASE mpc = "join"
    <3>1. mpc' = "free" /\ thr = "none" /\ UNCHANGED <<threadRunning, thr, pollVars>> /\ PollEnv
      BY <1>5, <2>1 DEF Joined
    <3>2. /\ RestInv' /\ MsgTypeInv' /\ NothingVanishes' /\ UNCHANGED <<membuf, queue, tpc, clock>>
      BY <3>1, NoFileFacts, NoPollFacts
    <3>3. UserInv' /\ ExitInv'
      BY <2>1, <3>1, <3>2 DEF LInv, UserInv, ExitInv, pollVars
    <3> QED
      BY <3>2, <3>3, LInvParts
  <2>2. CASE mpc = "join_start"
    BY <1>5, <2>2, SpawnFacts DEF Joined
  <2>3. CASE mpc = "join_exit"
    <3>1. \A t \in Threads : tpc[t] \in {"idle", "exited"}
      BY <2>3 DEF LInv, ExitInv
    <3> QED
      BY <1>5, <2>3, <3>1, LastPollFacts DEF Joined
  <2> QED
    BY <1>5, <2>1, <2>2, <2>3 DEF Joined
<1> QED
  BY <1>2, <1>3, <1>4, <1>5

\* ~Logger ends: what is still buffered is flushed.
LEMMA ExitReturnsStep ==
    ASSUME LInv, exitReturns
    PROVE  LInv'
<1> USE DEF LInv
<1>1. /\ mpc = "exit" /\ mpc' = "down" /\ Return /\ closeBuffered
      /\ Still /\ UNCHANGED <<threadRunning, thr>>
  BY DEF exitReturns, closeLogFile, Still
<1>2. RestInv' /\ ppc = "return" /\ ppc' = "none" /\ UNCHANGED Places
  BY <1>1, ReturnFacts, StillFacts
<1>3. MsgTypeInv' /\ NothingVanishes' /\ membuf' = <<>>
  BY <1>1, <1>2, CloseSame
<1>4. UserInv' /\ ExitInv'
  BY <1>1, <1>2, <1>3 DEF UserInv, ExitInv, Places
<1> QED
  BY <1>2, <1>3, <1>4, LInvParts

\* The log file is set or closed.
LEMMA FileStep ==
    ASSUME LInv,
           close_log_file \/ set_log_file_name \/ \E manage \in BOOLEAN : set_log_file_fp(manage)
    PROVE  LInv'
<1> USE DEF LInv
<1>1. mpc = "free" /\ NoFile /\ (closeBuffered \/ UNCHANGED fileVars)
  BY DEF close_log_file, closeLogFile, set_log_file_name, set_log_file_fp, MayChangeFile
<1>2. Still /\ UNCHANGED pollVars /\ UNCHANGED userVars
  BY <1>1 DEF NoFile, Still
<1>3. RestInv' /\ UNCHANGED Places
  BY <1>2, NoPollFacts, StillFacts
<1>4. MsgTypeInv' /\ NothingVanishes'
  <2>1. CASE closeBuffered
    BY <1>1, <1>3, <2>1, CloseSame
  <2>2. CASE UNCHANGED fileVars
    <3>1. PollEnv
      BY <1>1, <2>2 DEF NoFile, PollEnv
    <3> QED
      BY <1>2, <3>1, NoFileFacts, NoPollFacts
  <2> QED
    BY <1>1, <2>1, <2>2
<1>5. UserInv' /\ ExitInv'
  BY <1>1, <1>2 DEF UserInv, ExitInv, userVars, pollVars
<1> QED
  BY <1>3, <1>4, <1>5, LInvParts

\* A step of nobody.
LEMMA StutterStep ==
    ASSUME LInv, UNCHANGED vars
    PROVE  LInv'
<1> USE DEF LInv
<1>1. PollEnv /\ UNCHANGED pollVars /\ UNCHANGED userVars
  BY DEF vars, PollEnv
<1>2. /\ RestInv' /\ MsgTypeInv' /\ NothingVanishes' /\ UNCHANGED <<membuf, queue, tpc, clock>>
  BY <1>1, NoFileFacts, NoPollFacts
<1>3. UserInv' /\ ExitInv'
  BY <1>1, <1>2 DEF UserInv, ExitInv, userVars, pollVars
<1> QED
  BY <1>2, <1>3, LInvParts

-----------------------------------------------------------------------------
(* The log system, in every state it can reach.                            *)

\* Every step keeps the invariant.
LEMMA StepLInv == LInv /\ [Next]_vars => LInv'
<1> SUFFICES ASSUME LInv, [Next]_vars PROVE LInv'
  OBVIOUS
<1>1. ASSUME NEW t \in Threads, preallocate(t) \/ LogStep(t) \/ threadExit(t) PROVE LInv'
  BY <1>1, PreallocateStep, AllocStep, PushStep, ThreadExitStep DEF LogStep
<1>2. CASE PollStep
  BY <1>2, CollectStep, CheckDeallocateStep, ScanDoneStep, OutputDoneStep, FlushStep,
     FrontOfStep, OutputStep DEF PollStep
<1>3. CASE threadPolls \/ threadReturns
  BY <1>3, PollCallStep, PollReturnStep
<1>4. CASE UserStep
  BY <1>4, PollCallStep, PollReturnStep, ThreadControlStep, ExitReturnsStep, FileStep DEF UserStep
<1>5. CASE UNCHANGED vars
  BY <1>5, StutterStep
<1> QED
  BY <1>1, <1>2, <1>3, <1>4, <1>5 DEF Next

\* The invariant behind the properties below holds however vlog, poll, the polling
\* thread, thread ends, file changes and ~Logger interleave.
THEOREM Invariance == Spec => []LInv
<1>1. Init => LInv
  BY InitLInv
<1>2. LInv /\ [Next]_vars => LInv'
  BY StepLInv
<1> QED
  BY <1>1, <1>2, PTL DEF Spec

\* Whatever the threads, the poller and the user are at, each message is in one
\* place, once, in its thread's order, and no buffer is deleted under its thread.
THEOREM MessagesInOrder == Spec => []EachOnceInOrder
<1>1. LInv => EachOnceInOrder
  <2> SUFFICES ASSUME LInv PROVE EachOnceInOrder
    OBVIOUS
  <2>1. TypeInv
    BY DEF LInv, ThreadInv, ScanInv, UserInv, TypeInv
  <2>2. BufferOutlivesThread
    BY DEF LInv, ThreadInv, BufferOutlivesThread
  <2> QED
    BY <2>1, <2>2 DEF LInv, EachOnceInOrder
<1> QED
  BY <1>1, Invariance, PTL

\* When ~Logger has returned, every message is written, discarded for want of a
\* file, or was lost with its thread's buffer; none is left behind.
THEOREM EndWritesAll == Spec => []ExitWritesAll
<1>1. LInv => ExitWritesAll
  <2> SUFFICES ASSUME LInv, mpc = "down" PROVE sent = written \cup discarded \cup lost
    BY DEF ExitWritesAll
  <2>1. membuf = <<>> /\ \A t \in Threads : queue[t] = <<>>
    BY DEF LInv, ExitInv
  <2>2. Queued = {} /\ ToSet(membuf) = {}
    BY <2>1, EmptyFacts DEF Queued
  <2> QED
    BY <2>2 DEF LInv, NothingVanishes
<1> QED
  BY <1>1, Invariance, PTL

\* A poll outputs by timestamp across all threads, and never a message before an
\* older one that was already pushed when the poll began.
THEOREM PollMergesInOrder == Spec => OldestFirst
<1> DEFINE Ordered == /\ Len(out) > since => Last(out).stamp < Last(out').stamp
                      /\ \A m \in ready : m.stamp < Last(out').stamp => m \in ToSet(out)
<1>1. ASSUME LInv, NEW t \in Threads, Output(t)
      PROVE  Ordered
  <2>1. ppc = "output" /\ IsRoot(t) /\ out' = Append(out, Head(queue[t]))
    BY <1>1 DEF Output
  <2>2. header[t] /\ queue[t] # <<>>
    BY <1>1, <2>1 DEF IsRoot, LInv, ScanInv
  <2>3. Last(out') = Head(queue[t])
    <3>1. out \in Seq(Message) /\ Head(queue[t]) \in Message
      BY <1>1, <2>2, HeadOldest DEF LInv, MsgTypeInv
    <3> QED
      BY <2>1, <3>1, AppendFacts DEF Last
  <2>4. Len(out) > since => Last(out).stamp < Last(out').stamp
    BY <1>1, <2>1, <2>2, <2>3 DEF LInv, MergeInv
  <2>5. ASSUME NEW m \in ready, m.stamp < Last(out').stamp
        PROVE  m \in ToSet(out)
    <3> SUFFICES ASSUME m \notin ToSet(out) PROVE FALSE
      OBVIOUS
    <3>1. m.by \in Threads /\ m \in ToSet(queue[m.by]) /\ header[m.by]
      BY <1>1, <2>1 DEF LInv, ReadyInv, ScanInv
    <3>2. queue[m.by] # <<>>
      BY <3>1, EmptyFacts
    <3>3. Head(queue[m.by]).stamp <= m.stamp /\ Head(queue[m.by]).stamp \in Nat
      BY <1>1, <3>1, <3>2, HeadOldest
    <3>4. m.stamp \in Nat
      BY <1>1, <3>1, SentFacts DEF LInv
    <3>5. Head(queue[t]).stamp <= Head(queue[m.by]).stamp /\ Head(queue[t]).stamp \in Nat
      BY <1>1, <2>1, <2>2, <3>1, HeadOldest DEF IsRoot
    <3> QED
      BY <2>3, <2>5, <3>3, <3>4, <3>5
  <2> QED
    BY <2>4, <2>5
<1>2. ASSUME LInv, [Next]_vars, out' # out
      PROVE  Ordered
  <2>1. CASE \E t \in Threads : Output(t)
    BY <1>1, <1>2, <2>1
  <2>2. ASSUME NEW t \in Threads, preallocate(t) \/ LogStep(t) \/ threadExit(t) \/ FrontOf(t)
        PROVE  out' = out
    BY <2>2 DEF preallocate, LogStep, allocMsg, push, threadExit, FrontOf
  <2>3. CASE Collect \/ CheckDeallocate \/ ScanDone \/ OutputDone \/ FlushNow \/ FlushLater
    BY <2>3, <1>2 DEF Collect, CheckDeallocate, ScanDone, OutputDone, FlushNow, FlushLater
  <2>4. CASE threadPolls \/ threadReturns
    BY <2>4, <1>2 DEF threadPolls, threadReturns, PollEnv
  <2>5. CASE UserStep
    BY <2>5, <1>2 DEF UserStep, poll, pollReturns, startPollingThread, stopPollingThread, Exit,
                      Joined, exitReturns, close_log_file, set_log_file_name, set_log_file_fp,
                      Stop, Spawn, PollEnv, NoFile
  <2>6. CASE UNCHANGED vars
    BY <2>6, <1>2 DEF vars
  <2> QED
    BY <1>2, <2>1, <2>2, <2>3, <2>4, <2>5, <2>6 DEF Next, PollStep
<1>3. LInv /\ [Next]_vars => [out' # out => Ordered]_vars
  BY <1>2
<1> QED
  BY <1>3, Invariance, PTL DEF Spec, OldestFirst
=============================================================================
