---------------------------- MODULE LogPartsProofs ----------------------------
(***************************************************************************)
(* The two parts of the logger beside its queues.  The clock: tsc2ns never *)
(* mixes two calibrations, for any number of them, all orders of the loads *)
(* and stores between the fences, and whatever the clocks say, and the     *)
(* feedback takes an error back.  The heap of poll: for any number of      *)
(* buffers and any timestamps, the root that poll looks at is an oldest    *)
(* front.  adjustHeap leaves every node that the build loop has come to in *)
(* order with its children, and the node being sifted is the only one that *)
(* may be out of order.                                                    *)
(***************************************************************************)
EXTENDS Tscns, BufferHeap, FiniteSetTheorems, WellFoundedInduction, SequenceTheorems, TLAPS

-----------------------------------------------------------------------------
(* The clock.                                                              *)

\* The line of a calibration has integer parameters.
LEMMA CalibrationIsLine ==
    ASSUME ClockAssumptions, ClockTypeInv, Calibrate
    PROVE  \E l \in Lines :
             /\ saved' = Append(saved, l)
             /\ writer' \in [at : {"open"}, todo : {Words}, base_ns_err : Int,
                             next_calibrate_tsc : Int]
<1> DEFINE err == Line(param, now.tsc) - now.ns
           dt == now.tsc - param.base_tsc
           slope == NewSlope(param.ns_per_tsc, Clamped(err), writer.base_ns_err, dt)
<1> DEFINE Lens == [base_tsc : Int, base_ns : Int, ns_per_tsc : Int, seq : Nat]
<1>1. err \in Int /\ dt \in Int /\ dt > 0
  <2>1. param \in Lens /\ now \in [tsc : Nat, ns : Int]
    BY DEF ClockTypeInv
  <2>2. now.tsc > param.base_tsc
    BY DEF Calibrate
  <2>3. /\ param.base_tsc \in Int /\ param.base_ns \in Int /\ param.ns_per_tsc \in Int
        /\ now.tsc \in Int /\ now.ns \in Int
    BY <2>1
  <2>4. (now.tsc - param.base_tsc) * param.ns_per_tsc \in Int
    BY <2>3
  <2>5. Line(param, now.tsc) \in Int
    BY <2>3, <2>4 DEF Line
  <2> QED
    BY <2>2, <2>3, <2>5
<1>2. Clamped(err) \in Int
  BY <1>1, Z3 DEF Clamped, ClockAssumptions
<1>3. slope \in Int
  <2>1. \A e, o, d \in Int : d > 0 => (e + e - o) \div d \in Int
    BY Z3
  <2>2. (Clamped(err) + Clamped(err) - writer.base_ns_err) \div dt \in Int
    BY <1>1, <1>2, <2>1 DEF ClockTypeInv
  <2> QED
    BY <2>2 DEF NewSlope, ClockTypeInv
<1>4. slope > 0
  BY DEF Calibrate
<1>5. Interval \div slope \in Int
  BY <1>3, <1>4, Z3 DEF ClockAssumptions
<1>6. NextCalibrate(now.tsc, slope) \in Int
  BY <1>5 DEF NextCalibrate, ClockTypeInv
<1>7. now.tsc \in Int /\ now.ns \in Int /\ now.ns + Clamped(err) \in Int
  BY <1>2 DEF ClockTypeInv
<1>8. [base_tsc |-> now.tsc, base_ns |-> now.ns + Clamped(err), ns_per_tsc |-> slope,
       ns |-> now.ns, err |-> err] \in Lines
  BY <1>1, <1>3, <1>7 DEF Lines
<1> QED
  BY <1>2, <1>6, <1>8 DEF Calibrate

\* The invariant holds at the start.
LEMMA Initially == ASSUME ClockAssumptions, ClockInit PROVE ClockInv
<1> PICK s \in Slopes :
       /\ param = [base_tsc |-> 0, base_ns |-> 0, ns_per_tsc |-> s, seq |-> 2]
       /\ writer = [at |-> "idle", todo |-> {}, base_ns_err |-> 0,
                    next_calibrate_tsc |-> NextCalibrate(0, s)]
       /\ saved = <<[base_tsc |-> 0, base_ns |-> 0, ns_per_tsc |-> s, ns |-> 0, err |-> 0]>>
  BY DEF ClockInit
<1>1. s \in Nat /\ s > 0 /\ Interval \in Nat
  BY DEF ClockAssumptions
<1>2. NextCalibrate(0, s) \in Int
  <2>1. Interval \div s \in Int
    BY <1>1, Z3
  <2> QED
    BY <2>1 DEF NextCalibrate
<1>3. saved \in Seq(Lines) /\ Len(saved) = 1
  BY <1>1 DEF Lines
<1>4. ClockTypeInv
  BY <1>1, <1>2, <1>3 DEF ClockTypeInv, ClockInit, Words
<1>5. SeqCountsSaves
  BY <1>3 DEF SeqCountsSaves, Words
<1> QED
  BY <1>4, <1>5 DEF ClockInv, LoadedOneLine, ReadsOneSave, ClockInit

\* The types of the four records, apart.
Clocks == [tsc : Nat, ns : Int]
Params == [base_tsc : Int, base_ns : Int, ns_per_tsc : Int, seq : Nat]
Writers == [at : {"idle", "open", "store"}, todo : SUBSET Words,
            base_ns_err : Int, next_calibrate_tsc : Int]
ReaderStates == {"idle", "seq", "load", "done"}
ReadersOf == [at : ReaderStates, todo : SUBSET Words, tsc : Nat, seq : Nat, ns : Int,
              base_tsc : Int, base_ns : Int, ns_per_tsc : Int]

\* The type invariant, one conjunct a variable.
LEMMA TypesApart ==
    ClockTypeInv <=> /\ now \in Clocks /\ param \in Params /\ writer \in Writers
                /\ reader \in ReadersOf /\ saved \in Seq(Lines) /\ Len(saved) >= 1
BY DEF ClockTypeInv, Clocks, Params, Writers, ReadersOf, ReaderStates

\* Nothing but the types speaks of the clocks.
LEMMA ClocksAlone ==
    ASSUME ClockInv, now' \in [tsc : Nat, ns : Int], UNCHANGED <<param, writer, reader, saved>>
    PROVE  ClockInv'
<1>1. ClockTypeInv'
  BY DEF ClockInv, ClockTypeInv
<1>2. SeqCountsSaves'
  BY DEF ClockInv, SeqCountsSaves
<1>3. LoadedOneLine'
  BY DEF ClockInv, LoadedOneLine
<1>4. ReadsOneSave'
  BY DEF ClockInv, ReadsOneSave, Line
<1> QED
  BY <1>1, <1>2, <1>3, <1>4 DEF ClockInv

\* Every step keeps it.
LEMMA Inductive == ASSUME ClockAssumptions, ClockInv, [ClockNext]_clockVars PROVE ClockInv'
<1> USE DEF ClockInv
<1>1. CASE Tick \/ SetSystemClock
  <2>1. CASE Tick
    <3>1. now.tsc \in Nat /\ now.ns \in Int /\ Rate \in Nat
      BY DEF ClockTypeInv, ClockAssumptions
    <3>2. now' \in [tsc : Nat, ns : Int]
      BY <2>1, <3>1 DEF Tick
    <3> QED
      BY <2>1, <3>2, ClocksAlone DEF Tick
  <2>2. CASE SetSystemClock
    <3> PICK d \in Steps : \E ns \in {now.ns + d, now.ns - d} : now' = [now EXCEPT !.ns = ns]
      BY <2>2 DEF SetSystemClock
    <3>1. d \in Int /\ now.ns \in Int /\ now \in Clocks
      BY DEF ClockTypeInv, ClockAssumptions, Clocks
    <3>2. now' \in [tsc : Nat, ns : Int]
      BY <3>1 DEF Clocks
    <3> QED
      BY <2>2, <3>2, ClocksAlone DEF SetSystemClock
  <2> QED
    BY <1>1, <2>1, <2>2
<1>2. CASE Calibrate
  <2> PICK l \in Lines :
         /\ saved' = Append(saved, l)
         /\ writer' \in [at : {"open"}, todo : {Words}, base_ns_err : Int,
                         next_calibrate_tsc : Int]
    BY <1>2, CalibrationIsLine
  <2>1. UNCHANGED <<now, param, reader>> /\ writer.at = "idle"
    BY <1>2 DEF Calibrate
  <2>2. /\ Len(saved') = Len(saved) + 1
        /\ \A k \in 1 .. Len(saved) : saved'[k] = saved[k]
        /\ saved' \in Seq(Lines) /\ DOMAIN saved \subseteq DOMAIN saved'
    <3>1. saved \in Seq(Lines)
      BY DEF ClockTypeInv
    <3>2. /\ Append(saved, l) \in Seq(Lines) /\ Len(Append(saved, l)) = Len(saved) + 1
          /\ \A k \in 1 .. Len(saved) : Append(saved, l)[k] = saved[k]
      BY <3>1, AppendProperties
    <3>3. DOMAIN saved = 1 .. Len(saved) /\ DOMAIN saved' = 1 .. Len(saved')
      BY <3>1, <3>2
    <3>4. Len(saved) \in Nat
      BY <3>1
    <3> QED
      BY <3>2, <3>3, <3>4
  <2>3. ClockTypeInv'
    <3>1. Len(saved) \in Nat /\ Len(saved) >= 1
      BY DEF ClockTypeInv
    <3>2. now' \in [tsc : Nat, ns : Int] /\ param' \in Params /\ reader' \in ReadersOf
      BY <2>1, TypesApart DEF Clocks
    <3>3. writer' \in Writers
      BY DEF Writers, Words
    <3>4. Len(saved') >= 1
      BY <2>2, <3>1
    <3> QED
      BY <2>2, <3>2, <3>3, <3>4 DEF ClockTypeInv, Params, Writers, ReadersOf, ReaderStates
  <2>4. SeqCountsSaves'
    <3>1. /\ Len(saved) \in Nat /\ Len(saved) >= 1 /\ param.seq = 2 * Len(saved)
          /\ \A w \in Words : param[w] = saved[Len(saved)][w]
      BY <2>1 DEF SeqCountsSaves, ClockTypeInv
    <3>2. /\ Len(saved') >= 2 /\ param'.seq = 2 * (Len(saved') - 1)
          /\ \A w \in Words : param'[w] = saved'[Len(saved') - 1][w]
      BY <2>1, <2>2, <3>1
    <3>3. writer'.at = "open" /\ writer'.todo = Words
      OBVIOUS
    <3> QED
      BY <3>2, <3>3 DEF SeqCountsSaves
  <2>5. LoadedOneLine'
    <3> SUFFICES ASSUME reader.at = "load"
                 PROVE  \E k \in 1 .. Len(saved') :
                          /\ reader.seq = 2 * k /\ reader.seq <= param.seq
                          /\ reader.seq = param.seq =>
                                \A w \in Words \ reader.todo : reader[w] = saved'[k][w]
      BY <2>1 DEF LoadedOneLine
    <3> PICK k \in 1 .. Len(saved) :
           /\ reader.seq = 2 * k /\ reader.seq <= param.seq
           /\ reader.seq = param.seq =>
                 \A w \in Words \ reader.todo : reader[w] = saved[k][w]
      BY DEF LoadedOneLine
    <3>1. k \in 1 .. Len(saved') /\ saved'[k] = saved[k]
      <4>1. Len(saved) \in Nat
        BY DEF ClockTypeInv
      <4> QED
        BY <2>2, <4>1
    <3> QED
      BY <3>1
  <2>6. ReadsOneSave'
    <3> SUFFICES ASSUME reader.at = "done"
                 PROVE  \E k \in DOMAIN saved' : reader.ns = Line(saved'[k], reader.tsc)
      BY <2>1 DEF ReadsOneSave, Line
    <3> PICK k \in DOMAIN saved : reader.ns = Line(saved[k], reader.tsc)
      BY DEF ReadsOneSave
    <3>1. saved \in Seq(Lines)
      BY DEF ClockTypeInv
    <3>2. k \in 1 .. Len(saved)
      BY <3>1
    <3>3. k \in DOMAIN saved' /\ saved'[k] = saved[k]
      BY <2>2, <3>2
    <3> QED
      BY <3>3
  <2> QED
    BY <2>3, <2>4, <2>5, <2>6
<1>3. CASE OpenSave
  <2>1. /\ param'.seq = param.seq + 1 /\ \A w \in Words : param'[w] = param[w]
        /\ writer'.at = "store" /\ writer'.todo = writer.todo
        /\ writer.at = "open" /\ UNCHANGED <<now, reader, saved>>
    BY <1>3 DEF OpenSave, ClockTypeInv, Words
  <2>2. ClockTypeInv'
    <3>1. param' \in Params
      BY <1>3, TypesApart DEF OpenSave, Params
    <3>2. writer' \in Writers
      BY <1>3, TypesApart DEF OpenSave, Writers
    <3> QED
      BY <2>1, <3>1, <3>2, TypesApart DEF ClockTypeInv, Params, Writers
  <2>3. /\ Len(saved) \in Nat /\ Len(saved) >= 2 /\ param.seq = 2 * (Len(saved) - 1)
        /\ \A w \in Words : param[w] = saved[Len(saved) - 1][w]
        /\ writer.todo = Words
    <3>1. Len(saved) \in Nat
      BY DEF ClockTypeInv
    <3> QED
      BY <2>1, <3>1 DEF SeqCountsSaves
  <2>4. SeqCountsSaves'
    <3>1. param'.seq = 2 * Len(saved) - 1
      BY <2>1, <2>3
    <3>2. \A w \in Words :
             param'[w] = saved[IF w \in writer'.todo THEN Len(saved) - 1 ELSE Len(saved)][w]
      BY <2>1, <2>3
    <3> QED
      BY <2>1, <2>3, <3>1, <3>2 DEF SeqCountsSaves
  <2>5. LoadedOneLine'
    <3> SUFFICES ASSUME reader.at = "load"
                 PROVE  \E k \in 1 .. Len(saved) :
                          /\ reader.seq = 2 * k /\ reader.seq <= param'.seq
                          /\ reader.seq # param'.seq
      BY <2>1 DEF LoadedOneLine
    <3> PICK k \in 1 .. Len(saved) : reader.seq = 2 * k /\ reader.seq <= param.seq
      BY DEF LoadedOneLine
    <3>1. Len(saved) \in Nat /\ param.seq = 2 * (Len(saved) - 1)
      BY <2>3
    <3> QED
      BY <2>1, <3>1
  <2>6. ReadsOneSave'
    BY <2>1 DEF ReadsOneSave, Line
  <2> QED
    BY <2>2, <2>4, <2>5, <2>6
<1>4. CASE \E w \in Words : Store(w)
  <2> PICK w \in Words : Store(w)
    BY <1>4
  <2>1. ClockTypeInv'
    <3>1. saved[Len(saved)] \in Lines
      BY DEF ClockTypeInv
    <3>2. saved[Len(saved)][w] \in Int
      BY <3>1 DEF Lines, Words
    <3> QED
      BY <3>2 DEF Store, ClockTypeInv, Words
  <2>2. /\ param'.seq = param.seq
        /\ \A v \in Words : param'[v] = IF v = w THEN saved[Len(saved)][w] ELSE param[v]
        /\ writer'.at = "store" /\ writer'.todo = writer.todo \ {w}
        /\ UNCHANGED <<reader, saved>>
    BY DEF Store, ClockTypeInv, Words
  <2>3. SeqCountsSaves'
    BY <2>2 DEF Store, SeqCountsSaves
  <2>4. LoadedOneLine'
    BY <2>2 DEF LoadedOneLine
  <2>5. ReadsOneSave'
    BY <2>2 DEF ReadsOneSave, Line
  <2> QED
    BY <2>1, <2>3, <2>4, <2>5
<1>5. CASE CloseSave
  <2>1. /\ param'.seq = param.seq + 1 /\ \A w \in Words : param'[w] = param[w]
        /\ writer'.at = "idle" /\ writer.at = "store" /\ writer.todo = {}
        /\ UNCHANGED <<now, reader, saved>>
    BY <1>5 DEF CloseSave, ClockTypeInv, Words
  <2>2. ClockTypeInv'
    <3>1. param' \in Params
      BY <1>5, TypesApart DEF CloseSave, Params
    <3>2. writer' \in Writers
      BY <1>5, TypesApart DEF CloseSave, Writers
    <3> QED
      BY <2>1, <3>1, <3>2, TypesApart DEF ClockTypeInv, Params, Writers
  <2>3. /\ Len(saved) \in Nat /\ param.seq = 2 * Len(saved) - 1
        /\ \A w \in Words : param[w] = saved[Len(saved)][w]
    <3>1. Len(saved) \in Nat
      BY DEF ClockTypeInv
    <3> QED
      BY <2>1, <3>1 DEF SeqCountsSaves
  <2>4. SeqCountsSaves'
    <3>1. param'.seq = 2 * Len(saved)
      BY <2>1, <2>3
    <3> QED
      BY <2>1, <2>3, <3>1 DEF SeqCountsSaves
  <2>5. LoadedOneLine'
    <3> SUFFICES ASSUME reader.at = "load"
                 PROVE  \E k \in 1 .. Len(saved) :
                          /\ reader.seq = 2 * k /\ reader.seq <= param'.seq
                          /\ reader.seq # param'.seq
      BY <2>1 DEF LoadedOneLine
    <3> PICK k \in 1 .. Len(saved) : reader.seq = 2 * k /\ reader.seq <= param.seq
      BY DEF LoadedOneLine
    <3>1. Len(saved) \in Nat /\ param.seq = 2 * Len(saved) - 1
      BY <2>3
    <3> QED
      BY <2>1, <3>1
  <2>6. ReadsOneSave'
    BY <2>1 DEF ReadsOneSave, Line
  <2> QED
    BY <2>2, <2>4, <2>5, <2>6
<1>6. CASE Enter
  BY <1>6 DEF Enter, ClockTypeInv, SeqCountsSaves, LoadedOneLine, ReadsOneSave
<1>7. CASE LoadSeq
  <2>1. \E k \in 1 .. Len(saved) : Even(param.seq) = 2 * k /\ 2 * k <= param.seq
    <3>1. \A m \in Nat : Even(2 * m) = 2 * m /\ Even(2 * m - 1) = 2 * (m - 1)
      BY Z3 DEF Even
    <3>2. Len(saved) \in Nat /\ Len(saved) >= 1
      BY DEF ClockTypeInv
    <3>3. \/ param.seq = 2 * Len(saved)
          \/ Len(saved) >= 2 /\ param.seq = 2 * (Len(saved) - 1)
          \/ Len(saved) >= 2 /\ param.seq = 2 * Len(saved) - 1
      BY DEF SeqCountsSaves
    <3>4. \E k \in {Len(saved), Len(saved) - 1} :
             k \in 1 .. Len(saved) /\ (param.seq = 2 * k \/ param.seq = 2 * (k + 1) - 1)
      BY <3>2, <3>3
    <3> PICK k \in 1 .. Len(saved) : param.seq = 2 * k \/ param.seq = 2 * (k + 1) - 1
      BY <3>4
    <3>5. k \in Nat /\ k + 1 \in Nat
      BY <3>2
    <3>6. Even(2 * k) = 2 * k
      BY <3>1, <3>5
    <3>7. Even(2 * (k + 1) - 1) = 2 * ((k + 1) - 1)
      BY <3>1, <3>5
    <3> QED
      BY <3>5, <3>6, <3>7
  <2>2. ClockTypeInv'
    <3>1. Even(param.seq) \in Nat
      BY <2>1 DEF ClockTypeInv
    <3>2. reader' \in ReadersOf
      BY <1>7, <3>1, TypesApart DEF LoadSeq, Before, ReadersOf, ReaderStates
    <3> QED
      BY <1>7, <3>2, TypesApart DEF LoadSeq, ClockTypeInv, ReadersOf, ReaderStates
  <2>3. SeqCountsSaves'
    BY <1>7 DEF LoadSeq, SeqCountsSaves
  <2>4. LoadedOneLine'
    BY <1>7, <2>1 DEF LoadSeq, Before, LoadedOneLine, ClockTypeInv
  <2> QED
    BY <1>7, <2>2, <2>3, <2>4 DEF LoadSeq, ReadsOneSave, ClockTypeInv
<1>8. CASE \E w \in Words : Load(w)
  <2> PICK w \in Words : Load(w)
    BY <1>8
  <2>1. param[w] \in Int
    BY DEF ClockTypeInv, Words
  <2>2. /\ reader'.seq = reader.seq /\ reader'.at = "load" /\ reader.at = "load"
        /\ \A v \in Words : reader'[v] = IF v = w THEN param[w] ELSE reader[v]
        /\ reader'.todo = reader.todo \ {w}
        /\ UNCHANGED <<now, param, writer, saved>>
    BY DEF Load, ClockTypeInv, Words
  <2>3. ClockTypeInv'
    BY <2>1 DEF Load, ClockTypeInv, Words
  <2>4. SeqCountsSaves'
    BY <2>2 DEF SeqCountsSaves
  <2>5. LoadedOneLine'
    <3> PICK k \in 1 .. Len(saved) :
           /\ reader.seq = 2 * k /\ reader.seq <= param.seq
           /\ reader.seq = param.seq =>
                 \A v \in Words \ reader.todo : reader[v] = saved[k][v]
      BY <2>2 DEF LoadedOneLine
    <3>1. reader.seq = param.seq => \A v \in Words : param[v] = saved[k][v]
      <4>1. Len(saved) \in Nat
        BY DEF ClockTypeInv
      <4>2. reader.seq = param.seq =>
              \/ k = Len(saved) /\ writer.at = "idle"
              \/ k = Len(saved) - 1 /\ writer.at = "open"
        BY <4>1 DEF SeqCountsSaves
      <4> QED
        BY <4>1, <4>2 DEF SeqCountsSaves
    <3>2. reader.seq = param.seq =>
            \A v \in Words \ reader'.todo : reader'[v] = saved[k][v]
      BY <2>2, <3>1
    <3> QED
      BY <2>2, <3>2 DEF LoadedOneLine
  <2> QED
    BY <2>2, <2>3, <2>4, <2>5 DEF ReadsOneSave
<1>9. CASE LoadSeqAgain
  <2>1. Line(reader, reader.tsc) \in Int
    BY DEF Line, ClockTypeInv
  <2>2. ClockTypeInv'
    BY <1>9, <2>1 DEF LoadSeqAgain, ClockTypeInv
  <2>3. SeqCountsSaves'
    BY <1>9 DEF LoadSeqAgain, SeqCountsSaves
  <2>4. LoadedOneLine'
    BY <1>9 DEF LoadSeqAgain, LoadedOneLine, ClockTypeInv
  <2>5. ReadsOneSave'
    <3>1. CASE param.seq # reader.seq
      BY <1>9, <3>1 DEF LoadSeqAgain, ReadsOneSave, ClockTypeInv
    <3>2. CASE param.seq = reader.seq
      <4> PICK k \in 1 .. Len(saved) : \A w \in Words : reader[w] = saved[k][w]
        BY <1>9, <3>2 DEF LoadSeqAgain, LoadedOneLine
      <4>1. /\ reader.base_tsc = saved[k].base_tsc /\ reader.base_ns = saved[k].base_ns
            /\ reader.ns_per_tsc = saved[k].ns_per_tsc
        BY DEF Words
      <4>2. /\ reader'.ns = Line(reader, reader.tsc) /\ reader'.tsc = reader.tsc
            /\ saved' = saved
        BY <1>9, <3>2 DEF LoadSeqAgain, ClockTypeInv
      <4>3. k \in DOMAIN saved /\ reader'.ns = Line(saved[k], reader'.tsc)
        BY <4>1, <4>2 DEF Line, ClockTypeInv
      <4> QED
        BY <4>2, <4>3 DEF ReadsOneSave, Line
    <3> QED
      BY <3>1, <3>2
  <2> QED
    BY <2>2, <2>3, <2>4, <2>5
<1>10. CASE UNCHANGED clockVars
  BY <1>10, ClocksAlone DEF clockVars, ClockTypeInv
<1> QED
  BY <1>1, <1>2, <1>3, <1>4, <1>5, <1>6, <1>7, <1>8, <1>9, <1>10 DEF ClockNext

\* log.cpp:198-208: what tsc2ns returns is computed from the parameters of a single
\* calibration.
THEOREM SingleLine == ClockSpec => []ReadsOneSave
<1>1. ClockInit => ClockInv
  BY ClockBounds, Initially
<1>2. ClockInv /\ [ClockNext]_clockVars => ClockInv'
  BY ClockBounds, Inductive
<1>3. ClockInv => ReadsOneSave
  BY DEF ClockInv
<1> QED
  BY <1>1, <1>2, <1>3, PTL DEF ClockSpec

-----------------------------------------------------------------------------
(* The feedback.                                                           *)

\* What Calibrate appends, said of the line before it.
LEMMA CalibrationFollows ==
    ASSUME ClockAssumptions, ClockInv, Feedback, Calibrate
    PROVE  \E l \in Lines :
             LET old == saved[Len(saved)]
             IN  /\ saved' = Append(saved, l)
                 /\ writer'.base_ns_err = Clamped(l.err)
                 /\ old.base_tsc < l.base_tsc
                 /\ l.base_ns = l.ns + Clamped(l.err)
                 /\ l.err = Line(old, l.base_tsc) - l.ns
                 /\ l.ns_per_tsc = NewSlope(old.ns_per_tsc, Clamped(l.err), Clamped(old.err),
                                            l.base_tsc - old.base_tsc)
<1> DEFINE err == Line(param, now.tsc) - now.ns
           slope == NewSlope(param.ns_per_tsc, Clamped(err), writer.base_ns_err,
                             now.tsc - param.base_tsc)
           new == [base_tsc |-> now.tsc, base_ns |-> now.ns + Clamped(err),
                   ns_per_tsc |-> slope, ns |-> now.ns, err |-> err]
<1>1. saved' = Append(saved, new) /\ writer'.base_ns_err = Clamped(err)
  BY DEF Calibrate
<1>2. new \in Lines
  <2> PICK l \in Lines : saved' = Append(saved, l)
    BY CalibrationIsLine DEF ClockInv
  <2>1. saved \in Seq(Lines) /\ Len(saved) \in Nat
    BY DEF ClockInv, ClockTypeInv
  <2>2. Append(saved, l)[Len(saved) + 1] = l /\ Append(saved, new)[Len(saved) + 1] = new
    BY <2>1
  <2> QED
    BY <1>1, <2>2
<1>3. \A w \in Words : param[w] = saved[Len(saved)][w]
  BY DEF ClockInv, SeqCountsSaves, Calibrate
<1>4. /\ param.base_tsc = saved[Len(saved)].base_tsc
      /\ param.base_ns = saved[Len(saved)].base_ns
      /\ param.ns_per_tsc = saved[Len(saved)].ns_per_tsc
  BY <1>3 DEF Words
<1>5. param.base_tsc < now.tsc
  BY DEF Calibrate, ClockInv, ClockTypeInv
<1>6. Line(param, now.tsc) = Line(saved[Len(saved)], now.tsc)
  BY <1>4 DEF Line
<1> HIDE DEF err, slope
<1>7. err = Line(saved[Len(saved)], now.tsc) - now.ns
  BY <1>6 DEF err
<1>8. slope = NewSlope(saved[Len(saved)].ns_per_tsc, Clamped(err),
                       Clamped(saved[Len(saved)].err), now.tsc - saved[Len(saved)].base_tsc)
  BY <1>4 DEF slope, Feedback
<1> QED
  BY <1>1, <1>2, <1>4, <1>5, <1>7, <1>8

\* Every step keeps the feedback's account.
LEMMA FeedbackKept ==
    ASSUME ClockAssumptions, ClockInv, Feedback, [ClockNext]_clockVars
    PROVE  Feedback'
<1>1. CASE Calibrate
  <2> PICK l \in Lines :
         LET old == saved[Len(saved)]
         IN  /\ saved' = Append(saved, l)
             /\ writer'.base_ns_err = Clamped(l.err)
             /\ old.base_tsc < l.base_tsc
             /\ l.base_ns = l.ns + Clamped(l.err)
             /\ l.err = Line(old, l.base_tsc) - l.ns
             /\ l.ns_per_tsc = NewSlope(old.ns_per_tsc, Clamped(l.err), Clamped(old.err),
                                        l.base_tsc - old.base_tsc)
    BY <1>1, CalibrationFollows
  <2> DEFINE n == Len(saved)
  <2>1. /\ n \in Nat /\ n >= 1 /\ Len(saved') = n + 1
        /\ \A k \in 1 .. n : saved'[k] = saved[k]
        /\ saved'[n + 1] = l
    <3>1. saved \in Seq(Lines) /\ Len(saved) >= 1
      BY DEF ClockInv, ClockTypeInv
    <3> QED
      BY <3>1, AppendProperties
  <2> HIDE DEF n
  <2>2. writer'.base_ns_err = Clamped(saved'[Len(saved')].err)
    BY <2>1
  <2>3. ASSUME NEW k \in 1 .. Len(saved')
        PROVE  saved'[k].base_ns = saved'[k].ns + Clamped(saved'[k].err)
    <3>1. CASE k \in 1 .. n
      <4>1. saved[k].base_ns = saved[k].ns + Clamped(saved[k].err)
        BY <3>1 DEF Feedback, n
      <4> QED
        BY <2>1, <3>1, <4>1
    <3>2. CASE k = n + 1
      BY <2>1, <3>2
    <3> QED
      BY <2>1, <3>1, <3>2
  <2>4. ASSUME NEW k \in 2 .. Len(saved')
        PROVE  LET old == saved'[k - 1]
               IN  /\ old.base_tsc < saved'[k].base_tsc
                   /\ saved'[k].err = Line(old, saved'[k].base_tsc) - saved'[k].ns
                   /\ saved'[k].ns_per_tsc =
                        NewSlope(old.ns_per_tsc, Clamped(saved'[k].err), Clamped(old.err),
                                 saved'[k].base_tsc - old.base_tsc)
    <3>1. CASE k \in 2 .. n
      <4>1. saved'[k] = saved[k] /\ saved'[k - 1] = saved[k - 1]
        BY <2>1, <3>1
      <4>2. k \in 2 .. Len(saved)
        BY <3>1 DEF n
      <4> QED
        BY <4>1, <4>2 DEF Feedback
    <3>2. CASE k = n + 1
      <4>1. saved'[k] = l /\ saved'[k - 1] = saved[Len(saved)]
        BY <2>1, <3>2 DEF n
      <4> QED
        BY <4>1
    <3> QED
      BY <2>1, <3>1, <3>2
  <2> QED
    BY <2>2, <2>3, <2>4 DEF Feedback, Clamped, Line, NewSlope
<1>2. CASE ~Calibrate
  <2>1. saved' = saved /\ writer'.base_ns_err = writer.base_ns_err
    <3>1. writer \in Writers
      BY TypesApart DEF ClockInv
    <3> QED
      BY <1>2, <3>1 DEF ClockNext, clockVars, Tick, SetSystemClock, OpenSave, CloseSave, Store,
         Enter, LoadSeq, Load, LoadSeqAgain, Writers
  <2> QED
    BY <2>1 DEF Feedback, Clamped, Line, NewSlope
<1> QED
  BY <1>1, <1>2

\* The account holds at the start.
LEMMA FeedbackAtFirst == ASSUME ClockAssumptions, ClockInit PROVE Feedback
<1>1. Clamped(0) = 0
  BY DEF Clamped, ClockAssumptions
<1> QED
  BY <1>1 DEF ClockInit, Feedback

\* Division rounds down, by less than the divisor.
LEMMA RoundedDown ==
    ASSUME NEW x \in Int, NEW d \in Int, d > 0
    PROVE  /\ x \div d \in Int
           /\ d * (x \div d) <= x /\ x < d * (x \div d) + d
BY Z3

\* A difference of slopes over an interval.
LEMMA Distributes ==
    ASSUME NEW d \in Int, NEW x \in Int, NEW y \in Int
    PROVE  /\ d * (x - y) = d * x - d * y
           /\ d * x \in Int /\ d * x = x * d
BY Z3

\* Three calibrations at equal distances, a, b, c: the error of the last, with what the
\* rate and the slopes make of an interval as numbers.
LEMMA ThreeCalibrations ==
    ASSUME NEW dt \in Int, NEW q \in Int, NEW rate \in Int, NEW sa \in Int, NEW sb \in Int,
           NEW ans \in Int, NEW bns \in Int, NEW cns \in Int,
           NEW ca \in Int, NEW cb \in Int, NEW be \in Int, NEW ce \in Int,
           bns - ans = rate, cns - bns = rate,
           be = (ans + ca + sa) - bns,
           ce = (bns + cb + sb) - cns,
           sb = sa - q, q <= cb + cb - ca, cb + cb - ca < q + dt
    PROVE  be - cb <= ce /\ ce <= be - cb + dt
OBVIOUS

\* What the account says of three calibrations.
LEMMA FeedbackHolds ==
    ASSUME ClockAssumptions, ClockTypeInv, Feedback
    PROVE  ErrorIsTakenBack
<1> SUFFICES ASSUME NEW k \in 3 .. Len(saved), Steady(k)
             PROVE  LET dt == saved[k].base_tsc - saved[k - 1].base_tsc
                        excess == saved[k - 1].err - Clamped(saved[k - 1].err)
                    IN  Abs(saved[k].err - excess) <= 2 * dt
  BY DEF ErrorIsTakenBack
<1> DEFINE a == saved[k - 2]
           b == saved[k - 1]
           c == saved[k]
           dt == c.base_tsc - b.base_tsc
           pa == (b.base_tsc - a.base_tsc) * a.ns_per_tsc
           pb == (c.base_tsc - b.base_tsc) * b.ns_per_tsc
<1>1. k \in Int /\ k - 1 \in 2 .. Len(saved) /\ k \in 2 .. Len(saved) /\ (k - 1) - 1 = k - 2
      /\ k - 2 \in 1 .. Len(saved)
  BY DEF ClockTypeInv
<1>2. a \in Lines /\ b \in Lines /\ c \in Lines
  <2>1. \A j \in 1 .. Len(saved) : saved[j] \in Lines
    BY DEF ClockTypeInv
  <2>2. k - 1 \in 1 .. Len(saved) /\ k \in 1 .. Len(saved)
    BY <1>1
  <2> QED
    BY <1>1, <2>1, <2>2
<1>3. /\ b.base_tsc < c.base_tsc
      /\ c.err = Line(b, c.base_tsc) - c.ns /\ b.err = Line(a, b.base_tsc) - b.ns
      /\ b.ns_per_tsc = NewSlope(a.ns_per_tsc, Clamped(b.err), Clamped(a.err),
                                 b.base_tsc - a.base_tsc)
  BY <1>1 DEF Feedback
<1>4. b.base_ns = b.ns + Clamped(b.err) /\ a.base_ns = a.ns + Clamped(a.err)
  BY <1>1 DEF Feedback
<1>5. Line(b, c.base_tsc) = b.base_ns + pb /\ Line(a, b.base_tsc) = a.base_ns + pa
  BY DEF Line
<1>6. /\ dt = b.base_tsc - a.base_tsc
      /\ c.ns - b.ns = Rate * dt /\ b.ns - a.ns = Rate * dt
  BY <1>1 DEF Steady
<1>7. /\ a.base_tsc \in Int /\ a.ns \in Int /\ a.ns_per_tsc \in Int /\ a.err \in Int
      /\ b.base_tsc \in Int /\ b.ns \in Int /\ b.ns_per_tsc \in Int /\ b.err \in Int
      /\ c.base_tsc \in Int /\ c.ns \in Int /\ c.err \in Int
  BY <1>2 DEF Lines
<1> HIDE DEF a, b, c
<1>8. dt \in Int /\ dt > 0 /\ Rate \in Int
  BY <1>3, <1>7 DEF ClockAssumptions
<1> DEFINE ca == Clamped(a.err)
           cb == Clamped(b.err)
           q == (cb + cb - ca) \div dt
           pq == dt * q
           r == Rate * dt
<1>9. ca \in Int /\ cb \in Int
  BY <1>7 DEF Clamped, ClockAssumptions
<1>10. pa = dt * a.ns_per_tsc /\ pb = dt * b.ns_per_tsc
  BY <1>6
<1>11. b.ns_per_tsc = a.ns_per_tsc - q
  BY <1>3, <1>6 DEF NewSlope
<1> HIDE DEF dt, pa, pb, ca, cb
<1>12. q \in Int /\ pq <= cb + cb - ca /\ cb + cb - ca < pq + dt
  <2>1. cb + cb - ca \in Int
    BY <1>9
  <2> QED
    BY <1>8, <2>1, RoundedDown
<1> HIDE DEF q
<1>13. pa \in Int /\ pq \in Int /\ r \in Int /\ pb = pa - pq
  <2> DEFINE sa == a.ns_per_tsc
             sb == b.ns_per_tsc
  <2>1. sa \in Int /\ sb = sa - q
    BY <1>7, <1>11
  <2> HIDE DEF sa, sb
  <2>2. dt * (sa - q) = dt * sa - dt * q /\ dt * sa \in Int /\ dt * q \in Int
    BY <1>8, <1>12, <2>1, Distributes
  <2>3. dt * Rate \in Int /\ dt * Rate = Rate * dt
    BY <1>8, Distributes
  <2> QED
    BY <1>10, <2>1, <2>2, <2>3 DEF sa, sb
<1>14. c.ns - b.ns = r /\ b.ns - a.ns = r
  BY <1>6
<1> HIDE DEF pq, r
<1>15. b.err = (a.ns + ca + pa) - b.ns /\ c.err = (b.ns + cb + pb) - c.ns
  BY <1>3, <1>4, <1>5 DEF ca, cb
<1>16. b.err - cb <= c.err /\ c.err <= b.err - cb + dt
  <2>1. pb \in Int
    BY <1>13
  <2>2. \A be, ce, ans, bns, cns \in Int :
           /\ bns - ans = r /\ cns - bns = r
           /\ be = (ans + ca + pa) - bns /\ ce = (bns + cb + pb) - cns
           => be - cb <= ce /\ ce <= be - cb + dt
    BY <1>8, <1>9, <1>12, <1>13, <2>1, ThreeCalibrations
  <2> QED
    BY <1>7, <1>14, <1>15, <2>2
<1>17. Abs(c.err - (b.err - cb)) <= 2 * dt
  <2> DEFINE x == c.err - (b.err - cb)
  <2>1. x \in Int /\ 0 <= x /\ x <= dt
    <3>1. \A e, f, g \in Int : f - g <= e /\ e <= f - g + dt
                               => LET y == e - (f - g) IN y \in Int /\ 0 <= y /\ y <= dt
      BY <1>8
    <3> QED
      BY <1>7, <1>9, <1>16, <3>1
  <2> HIDE DEF x
  <2>2. Abs(x) <= 2 * dt
    BY <1>8, <2>1 DEF Abs
  <2> QED
    BY <2>2 DEF x
<1> QED
  BY <1>17 DEF a, b, c, dt, cb

\* log.cpp:174-184: over two steady intervals calibrate takes back what it believed of
\* the clock's error, for all slopes, rates and lengths of the intervals.
THEOREM FeedbackSettles == ClockSpec => []ErrorIsTakenBack
<1>1. ClockInit => ClockInv /\ Feedback
  BY ClockBounds, Initially, FeedbackAtFirst
<1>2. ClockInv /\ Feedback /\ [ClockNext]_clockVars => (ClockInv /\ Feedback)'
  BY ClockBounds, Inductive, FeedbackKept
<1>3. ClockInv /\ Feedback => ErrorIsTakenBack
  BY ClockBounds, FeedbackHolds DEF ClockInv
<1> QED
  BY <1>1, <1>2, <1>3, PTL DEF ClockSpec

-----------------------------------------------------------------------------
(* The heap of poll.                                                       *)

\* A set of node indices has a least one.
LEMMA LeastNode ==
    ASSUME NEW T \in SUBSET Nat, T # {}
    PROVE  \E x \in T : \A y \in T : x <= y
<1> PICK t \in T : TRUE
  OBVIOUS
<1> DEFINE U == {x \in T : x <= t}
           Below(x) == 0 .. (x - 1)
           V == {Below(x) : x \in U}
<1>1. IsWellFoundedOn(StrictSubsetOrdering(0 .. t), FiniteSubsetsOf(0 .. t))
  <2>1. IsFiniteSet(0 .. t)
    BY FS_Interval
  <2> QED
    BY <2>1, FS_StrictSubsetOrderingWellFounded
<1>2. V \subseteq FiniteSubsetsOf(0 .. t) /\ V # {} /\ V \subseteq SUBSET (0 .. t)
  <2>1. \A x \in U : IsFiniteSet(Below(x)) /\ Below(x) \subseteq 0 .. t
    <3> TAKE x \in U
    <3>1. IsFiniteSet(0 .. (x - 1))
      BY FS_Interval
    <3> QED
      BY <3>1
  <2> QED
    BY <2>1 DEF FiniteSubsetsOf
<1>3. PICK d \in V : \A e \in V : ~(<<e, d>> \in StrictSubsetOrdering(0 .. t))
  <2> HIDE DEF V
  <2> QED
    BY <1>1, <1>2, WFMin
<1>4. PICK x \in U : d = Below(x)
  OBVIOUS
<1>5. \A y \in U : x <= y
  <2> SUFFICES ASSUME NEW y \in U, y < x PROVE FALSE
    OBVIOUS
  <2>1. Below(y) \in V /\ Below(y) \subseteq Below(x) /\ Below(y) # Below(x)
    <3>1. y \in Below(x) /\ y \notin Below(y)
      OBVIOUS
    <3> QED
      BY <3>1
  <2>2. <<Below(y), Below(x)>> \in StrictSubsetOrdering(0 .. t)
    BY <1>2, <2>1 DEF StrictSubsetOrdering
  <2> QED
    BY <1>3, <1>4, <2>1, <2>2
<1> QED
  BY <1>5

\* The types of what the steps speak of.
LEMMA HeapTypes ==
    ASSUME HeapTypeInv
    PROVE  /\ Size \in Nat /\ Size >= 1 /\ i \in 0 .. Size - 1 /\ next \in Int
           /\ NoHeader \in Nat
           /\ \A n \in 0 .. Size - 1 : At(n) \in 0 .. NoHeader /\ At(n) \in Int
<1>1. Size \in Nat /\ Size >= 1
  BY DEF HeapTypeInv, Size
<1>2. NoHeader \in Nat
  BY HeapBounds DEF NoHeader
<1>3. ASSUME NEW n \in 0 .. Size - 1
      PROVE  At(n) \in 0 .. NoHeader /\ At(n) \in Int
  <2>1. n + 1 \in 1 .. Len(heap)
    BY <1>1 DEF Size
  <2> DEFINE S == 0 .. NoHeader
  <2>2. heap \in Seq(S)
    BY DEF HeapTypeInv
  <2>3. heap[n + 1] \in S
    <3> HIDE DEF S
    <3> QED
      BY <2>1, <2>2
  <2> QED
    BY <1>2, <2>3 DEF At
<1> QED
  BY <1>1, <1>2, <1>3 DEF HeapTypeInv

\* A child is a node, comes after its parent, and has no other parent.
LEMMA ChildrenFollow ==
    ASSUME HeapTypeInv, NEW p \in Nat, NEW c \in Children(p)
    PROVE  /\ c \in 0 .. Size - 1 /\ p < c
           /\ \A q \in Nat : c \in Children(q) => q = p
<1>1. Size \in Nat
  BY HeapTypes
<1> QED
  BY <1>1 DEF Children

\* MinOf is the node itself when no child has an earlier front, else a child with the
\* earliest of all.
LEMMA MinIsLeast ==
    ASSUME HeapTypeInv
    PROVE  \/ MinOf(i) = i /\ \A c \in Children(i) : At(i) <= At(c)
           \/ /\ MinOf(i) \in Children(i) /\ At(MinOf(i)) < At(i)
              /\ \A c \in Children(i) : At(MinOf(i)) <= At(c)
<1>1. /\ Size \in Nat /\ i \in 0 .. Size - 1 /\ i \in Nat
      /\ \A n \in 0 .. Size - 1 : At(n) \in Int
  BY HeapTypes
<1>2. \A c \in Children(i) : c \in 0 .. Size - 1 /\ c \in Nat /\ At(c) \in Int /\ c # i
  BY <1>1, ChildrenFollow
<1>3. CASE \A c \in Children(i) : ~Younger(c, i)
  BY <1>1, <1>2, <1>3 DEF MinOf, Younger
<1>4. CASE \E c \in Children(i) : Younger(c, i)
  <2> DEFINE Best(c) == \A d \in Children(i) : ~Younger(d, c) /\ (At(d) = At(c) => c <= d)
             a == i * 2 + 1
             b == i * 2 + 2
  <2>1. Children(i) \subseteq {a, b} /\ a < b /\ a \in Nat /\ b \in Nat
    BY <1>1 DEF Children
  <2>2. b \in Children(i) => a \in Children(i)
    BY <1>1 DEF Children
  <2> HIDE DEF a, b
  <2>3. \E c \in Children(i) : Best(c)
    <3>1. CASE b \in Children(i) /\ At(b) < At(a)
      <4>1. Best(b)
        BY <1>2, <2>1, <2>2, <3>1 DEF Younger
      <4> QED
        BY <3>1, <4>1
    <3>2. CASE ~(b \in Children(i) /\ At(b) < At(a))
      <4>1. a \in Children(i)
        BY <1>4, <2>1, <2>2
      <4>2. Best(a)
        BY <1>2, <2>1, <3>2, <4>1 DEF Younger
      <4> QED
        BY <4>1, <4>2
    <3> QED
      BY <3>1, <3>2
  <2>4. MinOf(i) = CHOOSE c \in Children(i) : Best(c)
    BY <1>4 DEF MinOf
  <2>5. MinOf(i) \in Children(i) /\ Best(MinOf(i))
    <3> HIDE DEF Best
    <3> QED
      BY <2>3, <2>4
  <2> PICK y \in Children(i) : Younger(y, i)
    BY <1>4
  <2>6. \A d \in Children(i) : At(MinOf(i)) <= At(d)
    BY <1>2, <2>5 DEF Younger
  <2>7. At(MinOf(i)) < At(i)
    BY <1>1, <1>2, <2>5, <2>6 DEF Younger
  <2> QED
    BY <2>5, <2>6, <2>7
<1> QED
  BY <1>3, <1>4

\* The argument of a call of adjustHeap beyond the last parent has no children: there is
\* nothing to be ordered yet.
LEMMA HeapInitially == HeapInit => HeapInv
<1> SUFFICES ASSUME HeapInit PROVE HeapInv
  OBVIOUS
<1> PICK n \in 1 .. MaxNodes : heap \in [1 .. n -> Stamps \cup {NoHeader}]
  BY DEF HeapInit
<1>1. n \in Nat /\ n >= 1 /\ NoHeader \in Nat
  BY HeapBounds DEF NoHeader
<1>2. heap \in Seq(0 .. NoHeader) /\ Len(heap) = n
  <2>1. Stamps \cup {NoHeader} \subseteq 0 .. NoHeader
    BY HeapBounds DEF Stamps, NoHeader
  <2>2. heap \in [1 .. n -> 0 .. NoHeader]
    BY <2>1
  <2> QED
    BY <1>1, <2>2
<1>3. i = n \div 2 /\ next = n \div 2 - 1 /\ settled = FALSE
  BY <1>2 DEF HeapInit, Size
<1>4. n \div 2 \in Nat /\ n \div 2 < n /\ 2 * (n \div 2) + 1 >= n
  BY <1>1, Z3
<1>5. HeapTypeInv
  <2>1. i \in 0 .. Size - 1 /\ next \in -1 .. Size - 1
    BY <1>1, <1>2, <1>3, <1>4 DEF Size
  <2> QED
    BY <1>1, <1>2, <1>3, <2>1 DEF HeapTypeInv
<1>6. Ordered
  <2> SUFFICES ASSUME NEW p \in next + 1 .. Size - 1, NEW c \in Children(p) PROVE FALSE
    BY DEF Ordered
  <2>1. p \in Int /\ p >= n \div 2
    BY <1>1, <1>2, <1>3, <1>4 DEF Size
  <2>2. c \in p * 2 + 1 .. p * 2 + 2 /\ c \in 0 .. n - 1
    BY <1>2 DEF Children, Size
  <2> QED
    BY <1>1, <1>4, <2>1, <2>2
<1> QED
  BY <1>3, <1>4, <1>5, <1>6 DEF HeapInv

\* The order is said of positions: it does not change while the heap does not.
LEMMA SameHeap ==
    ASSUME heap' = heap
    PROVE  /\ Size' = Size
           /\ \A n : At(n)' = At(n) /\ Children(n)' = Children(n)
BY DEF Size, At, Children

\* A turn of adjustHeap's loop: the node takes its least child's place.
LEMMA SiftKeeps == ASSUME HeapInv, SiftDown PROVE HeapInv'
<1> DEFINE m == MinOf(i)
<1>1. /\ Size \in Nat /\ Size >= 1 /\ i \in 0 .. Size - 1 /\ i \in Nat /\ next \in Int
      /\ NoHeader \in Nat
      /\ \A n \in 0 .. Size - 1 : At(n) \in 0 .. NoHeader /\ At(n) \in Int
  BY HeapTypes DEF HeapInv
<1>2. /\ ~settled /\ m # i
      /\ heap' = [heap EXCEPT ![i + 1] = At(m), ![m + 1] = At(i)]
      /\ i' = m /\ next' = next /\ settled' = settled
  BY DEF SiftDown
<1>3. /\ m \in Children(i) /\ At(m) < At(i)
      /\ \A c \in Children(i) : At(m) <= At(c)
  BY <1>2, MinIsLeast DEF HeapInv
<1>4. m \in 0 .. Size - 1 /\ i < m /\ \A q \in Nat : m \in Children(q) => q = i
  BY <1>1, <1>3, ChildrenFollow DEF HeapInv
<1> HIDE DEF m
<1>5. /\ heap' \in Seq(0 .. NoHeader) /\ Size' = Size
      /\ \A n \in 0 .. Size - 1 :
           At(n)' = IF n = i THEN At(m) ELSE IF n = m THEN At(i) ELSE At(n)
  <2>1. i + 1 \in 1 .. Len(heap) /\ m + 1 \in 1 .. Len(heap) /\ i + 1 # m + 1
    BY <1>1, <1>4 DEF Size
  <2>2. /\ heap \in Seq(0 .. NoHeader)
        /\ At(m) \in 0 .. NoHeader /\ At(i) \in 0 .. NoHeader
    BY <1>1, <1>4 DEF HeapInv, HeapTypeInv
  <2>3. /\ heap' \in Seq(0 .. NoHeader) /\ Len(heap') = Len(heap)
        /\ \A k \in 1 .. Len(heap) :
             heap'[k] = IF k = i + 1 THEN At(m) ELSE IF k = m + 1 THEN At(i) ELSE heap[k]
    BY <1>2, <2>1, <2>2
  <2>4. \A n \in 0 .. Size - 1 : /\ n + 1 \in 1 .. Len(heap)
                                 /\ (n + 1 = i + 1 <=> n = i) /\ (n + 1 = m + 1 <=> n = m)
    BY <1>1, <1>4 DEF Size
  <2>5. ASSUME NEW n \in 0 .. Size - 1
        PROVE  At(n)' = IF n = i THEN At(m) ELSE IF n = m THEN At(i) ELSE At(n)
    BY <2>3, <2>4 DEF At
  <2> QED
    BY <2>3, <2>5 DEF Size
<1>6. HeapTypeInv'
  BY <1>1, <1>2, <1>4, <1>5 DEF HeapInv, HeapTypeInv, Size
<1>7. \A n : Children(n)' = Children(n)
  BY <1>5 DEF Children
<1>8. ASSUME NEW p \in next + 1 .. Size - 1, NEW c \in Children(p)
      PROVE  /\ p # m => At(p)' <= At(c)'
             /\ c = m => \A d \in Children(m) : At(p)' <= At(d)'
  <2>1. p \in 0 .. Size - 1 /\ p \in Nat
    BY <1>1 DEF HeapInv, HeapTypeInv
  <2>2. c \in 0 .. Size - 1 /\ p < c /\ \A q \in Nat : c \in Children(q) => q = p
    BY <2>1, ChildrenFollow DEF HeapInv
  <2>3. /\ p # i => At(p) <= At(c)
        /\ c = i => \A d \in Children(i) : At(p) <= At(d)
    BY <1>2 DEF HeapInv, Ordered
  <2>4. ASSUME p # m PROVE At(p)' <= At(c)'
    <3>1. CASE p = i
      <4>1. c # i
        BY <1>1, <2>2, <3>1
      <4>2. At(p)' = At(m) /\ At(c)' = IF c = m THEN At(i) ELSE At(c)
        BY <1>5, <2>1, <2>2, <3>1, <4>1
      <4> QED
        BY <1>1, <1>3, <1>4, <2>2, <3>1, <4>2
    <3>2. CASE p # i /\ c = i
      <4>1. At(p)' = At(p) /\ At(c)' = At(m)
        BY <1>5, <2>1, <2>2, <2>4, <3>2
      <4> QED
        BY <1>3, <2>3, <3>2, <4>1
    <3>3. CASE p # i /\ c # i
      <4>1. c # m
        BY <1>4, <2>1, <3>3
      <4>2. At(p)' = At(p) /\ At(c)' = At(c)
        BY <1>5, <2>1, <2>2, <2>4, <3>3, <4>1
      <4> QED
        BY <2>3, <3>3, <4>2
    <3> QED
      BY <3>1, <3>2, <3>3
  <2>5. ASSUME c = m, NEW d \in Children(m) PROVE At(p)' <= At(d)'
    <3>1. p = i
      BY <1>4, <2>1, <2>5
    <3>2. d \in 0 .. Size - 1 /\ m < d
      BY <1>1, <1>4, ChildrenFollow DEF HeapInv
    <3>3. At(p)' = At(m) /\ At(d)' = At(d)
      BY <1>1, <1>4, <1>5, <3>1, <3>2
    <3>4. m \in next + 1 .. Size - 1
      BY <1>1, <1>4 DEF HeapInv
    <3>5. At(m) <= At(d)
      BY <1>2, <3>4 DEF HeapInv, Ordered
    <3> QED
      BY <3>3, <3>5
  <2> QED
    BY <2>4, <2>5
<1>9. Ordered'
  <2> SUFFICES ASSUME NEW p \in (next + 1 .. Size - 1)', NEW c \in Children(p)'
               PROVE  /\ (settled \/ p # i)' => At(p)' <= At(c)'
                      /\ (~settled /\ c = i)' => \A d \in Children(i)' : At(p)' <= At(d)'
    BY DEF Ordered
  <2>1. p \in next + 1 .. Size - 1 /\ c \in Children(p)
    BY <1>2, <1>5, <1>7
  <2>2. Children(i)' = Children(m)
    BY <1>2, <1>5 DEF Children
  <2> QED
    BY <1>2, <1>8, <2>1, <2>2
<1> QED
  BY <1>1, <1>2, <1>4, <1>6, <1>9 DEF HeapInv

\* adjustHeap returns: the node is in order.
LEMMA EndKeeps == ASSUME HeapInv, SiftEnd PROVE HeapInv'
<1>1. /\ ~settled /\ settled' = TRUE /\ UNCHANGED <<heap, i, next>> /\ i \in Nat
      /\ \A c \in Children(i) : At(i) <= At(c)
  <2>1. ~(MinOf(i) \in Children(i))
    <3>1. i \in Nat /\ MinOf(i) = i
      BY HeapTypes DEF HeapInv, SiftEnd
    <3> QED
      BY <3>1, ChildrenFollow DEF HeapInv
  <2> QED
    BY <2>1, MinIsLeast, HeapTypes DEF SiftEnd, HeapInv
<1>2. HeapTypeInv'
  BY <1>1 DEF HeapInv, HeapTypeInv, Size
<1>3. ASSUME NEW p \in next + 1 .. Size - 1, NEW c \in Children(p)
      PROVE  At(p) <= At(c)
  BY <1>1 DEF HeapInv, Ordered
<1>4. Ordered'
  BY <1>1, <1>3, SameHeap DEF Ordered
<1> QED
  BY <1>1, <1>2, <1>4 DEF HeapInv

\* The build loop calls adjustHeap for the node before.
LEMMA BuildKeeps == ASSUME HeapInv, BuildNext PROVE HeapInv'
<1>1. /\ settled /\ settled' = FALSE /\ next >= 0 /\ i' = next /\ next' = next - 1
      /\ heap' = heap
  BY DEF BuildNext
<1>2. next \in Int /\ Size \in Nat /\ next < Size
  BY HeapTypes DEF HeapInv, HeapTypeInv
<1>3. HeapTypeInv'
  <2>1. i' \in 0 .. Size - 1 /\ next' \in -1 .. Size - 1 /\ Size' = Size
    BY <1>1, <1>2 DEF Size
  <2>2. heap' \in Seq(0 .. NoHeader) /\ Len(heap') >= 1
    BY <1>1 DEF HeapInv, HeapTypeInv
  <2> QED
    BY <1>1, <2>1, <2>2 DEF HeapTypeInv
<1>4. ASSUME NEW p \in next .. Size - 1, NEW c \in Children(p)
      PROVE  c # next /\ (p # next => At(p) <= At(c))
  <2>1. p \in Nat /\ p < c /\ c \in Int
    BY <1>1, <1>2, ChildrenFollow DEF HeapInv
  <2>2. p # next => p \in next + 1 .. Size - 1
    BY <1>2
  <2> QED
    BY <1>1, <1>2, <2>1, <2>2 DEF HeapInv, Ordered
<1>5. Ordered'
  <2>1. next' + 1 = next
    BY <1>1, <1>2
  <2> QED
    BY <1>1, <1>4, <2>1, SameHeap DEF Ordered
<1> QED
  BY <1>1, <1>2, <1>3, <1>5 DEF HeapInv

\* poll takes the root and gives it another stamp.
LEMMA TakeKeeps == ASSUME HeapInv, TakeRoot PROVE HeapInv'
<1>1. /\ settled /\ settled' = FALSE /\ next = -1 /\ next' = -1 /\ i' = 0
  BY DEF TakeRoot
<1>2. /\ Size \in Nat /\ Size >= 1 /\ NoHeader \in Nat
      /\ \A n \in 0 .. Size - 1 : At(n) \in 0 .. NoHeader
  BY HeapTypes DEF HeapInv
<1> PICK s \in At(0) .. NoHeader : heap' = [heap EXCEPT ![1] = s]
  BY DEF TakeRoot
<1>3. s \in 0 .. NoHeader
  BY <1>2
<1>4. /\ heap' \in Seq(0 .. NoHeader) /\ Len(heap') = Len(heap)
      /\ \A k \in 1 .. Len(heap) : k # 1 => heap'[k] = heap[k]
  BY <1>3 DEF HeapInv, HeapTypeInv
<1>5. Size' = Size /\ \A n \in 1 .. Size - 1 : At(n)' = At(n)
  <2>1. \A n \in 1 .. Size - 1 : n + 1 \in 1 .. Len(heap) /\ n + 1 # 1
    BY <1>2 DEF Size
  <2> QED
    BY <1>4, <2>1 DEF At, Size
<1>6. HeapTypeInv'
  <2>1. i' \in 0 .. Size - 1 /\ next' \in -1 .. Size - 1
    BY <1>1, <1>2
  <2>2. Len(heap') >= 1
    BY <1>2, <1>5 DEF Size
  <2> QED
    BY <1>1, <1>4, <1>5, <2>1, <2>2 DEF HeapTypeInv
<1>7. \A n : Children(n)' = Children(n)
  BY <1>5 DEF Children
<1>8. ASSUME NEW p \in 0 .. Size - 1, NEW c \in Children(p)
      PROVE  c # 0 /\ (p # 0 => At(p)' <= At(c)')
  <2>1. p \in Nat /\ p < c /\ c \in 0 .. Size - 1
    BY <1>2, ChildrenFollow DEF HeapInv
  <2>2. ASSUME p # 0 PROVE At(p)' <= At(c)'
    <3>1. p \in 1 .. Size - 1 /\ c \in 1 .. Size - 1 /\ p \in next + 1 .. Size - 1
      BY <1>1, <1>2, <2>1, <2>2
    <3>2. At(p) <= At(c)
      BY <1>1, <3>1 DEF HeapInv, Ordered
    <3> QED
      BY <1>5, <3>1, <3>2
  <2> QED
    BY <2>1, <2>2
<1>9. Ordered'
  <2> SUFFICES ASSUME NEW p \in (next + 1 .. Size - 1)', NEW c \in Children(p)'
               PROVE  (p # i)' => At(p)' <= At(c)'
                      /\ (c # i)'
    <3>1. \A p \in (next + 1 .. Size - 1)' : \A c \in Children(p)' : c # 0
      BY <1>1, <1>5, <1>7, <1>8
    <3> QED
      BY <1>1, <3>1 DEF Ordered
  <2>1. p \in 0 .. Size - 1 /\ c \in Children(p)
    BY <1>1, <1>5, <1>7
  <2> QED
    BY <1>1, <1>8, <2>1
<1> QED
  BY <1>1, <1>6, <1>9 DEF HeapInv

\* Every step keeps the invariant.
LEMMA HeapInductive == HeapInv /\ [HeapNext]_heapVars => HeapInv'
<1> SUFFICES ASSUME HeapInv, [HeapNext]_heapVars PROVE HeapInv'
  OBVIOUS
<1>1. CASE UNCHANGED heapVars
  BY <1>1 DEF heapVars, HeapInv, HeapTypeInv, Ordered, Size, At, Children
<1> QED
  BY <1>1, SiftKeeps, EndKeeps, BuildKeeps, TakeKeeps DEF HeapNext

\* Once all nodes are in order, the least node that is older than the root would have a
\* parent that is older still.
LEMMA OrderedRoot == HeapInv => RootIsOldest
<1> SUFFICES ASSUME HeapInv, settled, next = -1, NEW k \in Nodes
             PROVE  At(0) <= heap[k]
  BY DEF RootIsOldest
<1>1. /\ Size \in Nat /\ Size >= 1
      /\ \A n \in 0 .. Size - 1 : At(n) \in Int
  BY HeapTypes DEF HeapInv
<1>2. k - 1 \in 0 .. Size - 1 /\ At(k - 1) = heap[k]
  <2>1. k \in 1 .. Len(heap)
    BY DEF Nodes, HeapInv, HeapTypeInv
  <2> QED
    BY <1>1, <2>1 DEF Size, At
<1>3. \A p \in 0 .. Size - 1 : \A c \in Children(p) : At(p) <= At(c)
  <2>1. next + 1 = 0
    OBVIOUS
  <2> QED
    BY <2>1 DEF HeapInv, Ordered
<1> DEFINE T == {n \in 0 .. Size - 1 : At(n) < At(0)}
<1>4. T = {}
  <2> SUFFICES ASSUME T # {} PROVE FALSE
    OBVIOUS
  <2>1. T \in SUBSET Nat
    BY <1>1
  <2>2. PICK x \in T : \A y \in T : x <= y
    <3> HIDE DEF T
    <3> QED
      BY <2>1, LeastNode
  <2>3. x \in 0 .. Size - 1 /\ At(x) < At(0) /\ x \in Nat
    BY <1>1
  <2>4. x # 0 /\ x \in 1 .. Size - 1
    BY <1>1, <2>3
  <2> DEFINE q == (x - 1) \div 2
  <2>5. q \in Nat /\ q < x /\ x \in q * 2 + 1 .. q * 2 + 2
    <3>1. x - 1 \in Nat
      BY <2>4
    <3> QED
      BY <3>1, <2>3, Z3
  <2> HIDE DEF q
  <2>6. q \in 0 .. Size - 1 /\ x \in Children(q)
    BY <1>1, <2>3, <2>5 DEF Children
  <2>7. At(q) <= At(x)
    BY <1>3, <2>6
  <2>8. q \in T
    BY <1>1, <2>3, <2>6, <2>7
  <2> QED
    BY <2>2, <2>3, <2>5, <2>8
<1>5. ~(At(k - 1) < At(0))
  BY <1>2, <1>4
<1> QED
  BY <1>1, <1>2, <1>5

\* log.cpp:694-706, 792-805: whenever poll looks at node 0, no buffer has an older front, for any
\* number of buffers and any timestamps.
THEOREM PollTakesOldest == HeapSpec => []RootIsOldest
<1>1. HeapInit => HeapInv
  BY HeapInitially
<1>2. HeapInv /\ [HeapNext]_heapVars => HeapInv'
  BY HeapInductive
<1>3. HeapInv => RootIsOldest
  BY OrderedRoot
<1> QED
  BY <1>1, <1>2, <1>3, PTL DEF HeapSpec
=============================================================================
