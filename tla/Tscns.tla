-------------------------------- MODULE Tscns --------------------------------
(***************************************************************************)
(* The timestamps of log.cpp: struct TSCNS turns ticks of the processor    *)
(* into nanoseconds along a line through the last calibration.  calibrate, *)
(* called by each poll, compares the line with the system's clock and      *)
(* bends it so that the error is gone one interval later; saveParam stores *)
(* the new line under a sequence number, and tsc2ns retries while that     *)
(* number moves.  The poller calibrates; the reader is the other thread    *)
(* that the sequence number is there for.  Doubles are integers here, so a *)
(* slope is rounded down by less than 1 per tick.                          *)
(***************************************************************************)
EXTENDS Integers, Sequences

CONSTANTS Rate,       \* nanoseconds of the system's clock per tick
          Slopes,     \* what init may have measured for Rate in its 20 ms
          Clamp,      \* 1000000: the largest error that calibrate believes
          Interval,   \* calibate_interval_ns_ - 1000
          Steps,      \* what the system's clock may be set by, forward or back
          MaxTsc,     \* bound: the last tick
          MaxSaves    \* bound: calibrations, with that of init

ClockAssumptions ==
    /\ Rate \in Nat /\ Slopes \subseteq Nat \ {0} /\ Clamp \in Nat /\ Interval \in Nat
    /\ Steps \subseteq Nat /\ MaxTsc \in Nat /\ MaxSaves \in Nat

ASSUME ClockBounds == ClockAssumptions

VARIABLES now,       \* the two clocks: ticks, and the system's nanoseconds
          param,     \* the shared words base_tsc_, base_ns_, ns_per_tsc_, param_seq_
          writer,    \* the thread in calibrate, and the members only it uses
          reader,    \* the thread in tsc2ns
          saved      \* history: the lines of all calibrations

clockVars == <<now, param, writer, reader, saved>>

Words == {"base_tsc", "base_ns", "ns_per_tsc"}

\* The line of p at a tick.
Line(p, tsc) == p.base_ns + (tsc - p.base_tsc) * p.ns_per_tsc

Clamped(e) == IF e > Clamp THEN Clamp ELSE IF e < -Clamp THEN -Clamp ELSE e

NextCalibrate(tsc, slope) == tsc + Interval \div slope

\* init starts at tick 0; its 20 ms are over at the next tick or before.
ClockInit ==
    /\ now = [tsc |-> 0, ns |-> 0]
    /\ \E s \in Slopes :
         /\ param = [base_tsc |-> 0, base_ns |-> 0, ns_per_tsc |-> s, seq |-> 2]
         /\ writer = [at |-> "idle", todo |-> {}, base_ns_err |-> 0,
                      next_calibrate_tsc |-> NextCalibrate(0, s)]
         /\ saved = <<[base_tsc |-> 0, base_ns |-> 0, ns_per_tsc |-> s, ns |-> 0, err |-> 0]>>
    /\ reader = [at |-> "idle", todo |-> {}, tsc |-> 0, seq |-> 0, ns |-> 0,
                 base_tsc |-> 0, base_ns |-> 0, ns_per_tsc |-> 0]

-----------------------------------------------------------------------------
(* The clocks.                                                             *)

Tick == /\ now.tsc < MaxTsc
        /\ now' = [tsc |-> now.tsc + 1, ns |-> now.ns + Rate]
        /\ UNCHANGED <<param, writer, reader, saved>>

\* Somebody sets the system's clock, once.
SetSystemClock ==
    /\ now.ns = Rate * now.tsc
    /\ \E d \in Steps : \E ns \in {now.ns + d, now.ns - d} : now' = [now EXCEPT !.ns = ns]
    /\ UNCHANGED <<param, writer, reader, saved>>

-----------------------------------------------------------------------------
(* calibrate.                                                              *)

\* The slope that would have made no error, less what takes the error back.
Single(slope, err, old, dt) == slope - (err - old) \div dt     \* variant: not taken back
NewSlope(slope, err, old, dt) == slope - (err + err - old) \div dt

\* The line through what syncTime measured, moved by the believed error.  The first
\* and the last guard are bounds: ticks are few here, and intervals and slopes are
\* far above 0 with the code's numbers.  tsc2ns does not retry: this thread writes.
Calibrate ==
    /\ writer.at = "idle"
    /\ Len(saved) < MaxSaves /\ now.tsc > param.base_tsc
    /\ now.tsc >= writer.next_calibrate_tsc
    /\ LET err   == Line(param, now.tsc) - now.ns
           slope == NewSlope(param.ns_per_tsc, Clamped(err), writer.base_ns_err,
                             now.tsc - param.base_tsc)
       IN  /\ slope > 0
           /\ saved' = Append(saved, [base_tsc |-> now.tsc, base_ns |-> now.ns + Clamped(err),
                                      ns_per_tsc |-> slope, ns |-> now.ns, err |-> err])
           /\ writer' = [at |-> "open", todo |-> Words, base_ns_err |-> Clamped(err),
                         next_calibrate_tsc |-> NextCalibrate(now.tsc, slope)]
    /\ UNCHANGED <<now, param, reader>>

OpenSave ==
    /\ writer.at = "open"
    /\ param' = [param EXCEPT !.seq = @ + 1]
    /\ writer' = [writer EXCEPT !.at = "store"]
    /\ UNCHANGED <<now, reader, saved>>

\* Between the fences the compiler may order the three stores as it likes.
Store(w) ==
    /\ writer.at = "store" /\ w \in writer.todo
    /\ param' = [param EXCEPT ![w] = saved[Len(saved)][w]]
    /\ writer' = [writer EXCEPT !.todo = @ \ {w}]
    /\ UNCHANGED <<now, reader, saved>>

CloseSave ==
    /\ writer.at = "store" /\ writer.todo = {}
    /\ param' = [param EXCEPT !.seq = @ + 1]
    /\ writer' = [writer EXCEPT !.at = "idle"]
    /\ UNCHANGED <<now, reader, saved>>

-----------------------------------------------------------------------------
(* rdns and tsc2ns.                                                        *)

AsLoaded(n) == n                                   \* variant: an odd number counts
Even(n) == n - (n % 2)                             \* & ~1
Before(n) == Even(n)

Enter ==
    /\ reader.at = "idle"
    /\ reader' = [reader EXCEPT !.at = "seq", !.tsc = now.tsc]
    /\ UNCHANGED <<now, param, writer, saved>>

LoadSeq ==
    /\ reader.at = "seq"
    /\ reader' = [reader EXCEPT !.at = "load", !.todo = Words,
                               !.seq = Before(param.seq)]
    /\ UNCHANGED <<now, param, writer, saved>>

Load(w) ==
    /\ reader.at = "load" /\ w \in reader.todo
    /\ reader' = [reader EXCEPT ![w] = param[w], !.todo = @ \ {w}]
    /\ UNCHANGED <<now, param, writer, saved>>

LoadSeqAgain ==
    /\ reader.at = "load" /\ reader.todo = {}
    /\ reader' = IF param.seq = reader.seq
                 THEN [reader EXCEPT !.at = "done", !.ns = Line(reader, reader.tsc)]
                 ELSE [reader EXCEPT !.at = "seq"]
    /\ UNCHANGED <<now, param, writer, saved>>

ClockNext ==
    \/ Tick \/ SetSystemClock
    \/ Calibrate \/ OpenSave \/ CloseSave
    \/ Enter \/ LoadSeq \/ LoadSeqAgain
    \/ \E w \in Words : Store(w) \/ Load(w)

ClockSpec == ClockInit /\ [][ClockNext]_clockVars

-----------------------------------------------------------------------------
(* Properties.                                                             *)

Lines == [base_tsc : Int, base_ns : Int, ns_per_tsc : Int, ns : Int, err : Int]

ClockTypeInv ==
    /\ now \in [tsc : Nat, ns : Int]
    /\ param \in [base_tsc : Int, base_ns : Int, ns_per_tsc : Int, seq : Nat]
    /\ writer \in [at : {"idle", "open", "store"}, todo : SUBSET Words,
                   base_ns_err : Int, next_calibrate_tsc : Int]
    /\ reader \in [at : {"idle", "seq", "load", "done"}, todo : SUBSET Words,
                   tsc : Nat, seq : Nat, ns : Int,
                   base_tsc : Int, base_ns : Int, ns_per_tsc : Int]
    /\ saved \in Seq(Lines) /\ Len(saved) >= 1

\* param_seq_ counts the saves, twice, and says which lines the words belong to.
SeqCountsSaves ==
    LET n == Len(saved)
    IN  \/ /\ writer.at = "idle" /\ param.seq = 2 * n
           /\ \A w \in Words : param[w] = saved[n][w]
        \/ /\ writer.at = "open" /\ n >= 2 /\ param.seq = 2 * (n - 1)
           /\ \A w \in Words : param[w] = saved[n - 1][w]
           /\ writer.todo = Words
        \/ /\ writer.at = "store" /\ n >= 2 /\ param.seq = 2 * n - 1
           /\ \A w \in Words : param[w] = saved[IF w \in writer.todo THEN n - 1 ELSE n][w]

\* As long as the number is the one the reader began with, what it has loaded is
\* all of one line.
LoadedOneLine ==
    reader.at = "load" =>
        \E k \in 1 .. Len(saved) :
            /\ reader.seq = 2 * k /\ reader.seq <= param.seq
            /\ reader.seq = param.seq =>
                  \A w \in Words \ reader.todo : reader[w] = saved[k][w]

\* tsc2ns answers with one line, never with a mixture of two, however often
\* calibrate moves it meanwhile.
ReadsOneSave ==
    reader.at = "done" => \E i \in DOMAIN saved : reader.ns = Line(saved[i], reader.tsc)

ClockInv == ClockTypeInv /\ SeqCountsSaves /\ LoadedOneLine /\ ReadsOneSave

\* Each line begins where the one before it was found wrong, bent by that error and by
\* the one that had been taken back already.
Feedback ==
    /\ writer.base_ns_err = Clamped(saved[Len(saved)].err)
    /\ \A k \in 1 .. Len(saved) : saved[k].base_ns = saved[k].ns + Clamped(saved[k].err)
    /\ \A k \in 2 .. Len(saved) :
         LET old == saved[k - 1]
         IN  /\ old.base_tsc < saved[k].base_tsc
             /\ saved[k].err = Line(old, saved[k].base_tsc) - saved[k].ns
             /\ saved[k].ns_per_tsc = NewSlope(old.ns_per_tsc, Clamped(saved[k].err),
                                               Clamped(old.err), saved[k].base_tsc - old.base_tsc)

Abs(n) == IF n < 0 THEN -n ELSE n

\* Two intervals of the same length, during which nobody set the clock.
Steady(k) ==
    LET dt(i) == saved[i].base_tsc - saved[i - 1].base_tsc
        dns(i) == saved[i].ns - saved[i - 1].ns
    IN  /\ dt(k) = dt(k - 1)
        /\ dns(k) = Rate * dt(k) /\ dns(k - 1) = Rate * dt(k - 1)

\* The feedback of calibrate neither overshoots nor adds up: over two steady
\* intervals the error falls by what calibrate believed of it, to 0 (but for the
\* rounding of two slopes) when that was all.
ErrorIsTakenBack ==
    \A k \in 3 .. Len(saved) : Steady(k) =>
        LET dt == saved[k].base_tsc - saved[k - 1].base_tsc
            excess == saved[k - 1].err - Clamped(saved[k - 1].err)
        IN  Abs(saved[k].err - excess) <= 2 * dt
=============================================================================
