------------------------------ MODULE LogSystem ------------------------------
(***************************************************************************)
(* The log system: threads that log into a queue of their own, and one     *)
(* poller that collects the queues, merges the messages by timestamp and   *)
(* writes them out.  The poller is the user calling poll or the thread of  *)
(* start_polling_thread, never both (log.hpp:133).  The queues are the     *)
(* FIFOs that SPSCVarQueue is shown to implement.                          *)
(***************************************************************************)
EXTENDS Integers, Sequences, SequencesExt

CONSTANTS Threads,
          MaxCalls,      \* bound: vlog calls of each thread
          QueueCap,      \* messages a thread's ring holds
          Block,         \* HANA_LOG_BLOCK
          FlushBufSize,  \* flush_buffer_size, in messages
          Exits          \* do threads end, releasing their buffer, while we look?

ASSUME BoundsAssumption == MaxCalls \in [Threads -> Nat] /\ QueueCap \in Nat \ {0}
                               /\ FlushBufSize \in Nat \ {0}
ASSUME SwitchAssumption == Block \in BOOLEAN /\ Exits \in BOOLEAN

VARIABLES
    \* the logging threads
    tpc, calls, stamp,        \* step in vlog, vlog calls made, timestamp taken
    queue,                    \* messages pushed and not popped
    buffer,                   \* the ThreadBuffer: none, in threadBuffers, in
                              \*   bgThreadBuffers, deleted
    shouldDeallocate,         \* set when the thread ends
    clock,                    \* the timestamp counter
    \* the poller
    ppc, forceFlush, tsc,     \* step in poll, its argument, its timestamp
    unscanned, node, header,  \* scan loop: nodes left, the current one if any;
                              \*   which nodes have their front cached
    membuf, nextFlushTime,    \* formatted and not flushed; armed or not
    manageFp, outputFp,       \* file managed by the logger; file open
    \* the user's thread and the polling thread
    mpc, threadRunning, thr,
    \* history
    sent, out, written, discarded, lost, ready, since

threadVars == <<tpc, calls, stamp>>
queueVars == <<queue, buffer, shouldDeallocate>>
fileVars == <<membuf, nextFlushTime, manageFp, outputFp, written, discarded>>
pollVars == <<ppc, forceFlush, tsc, unscanned, node, header, ready, since>>
userVars == <<mpc, threadRunning, thr>>
vars == <<threadVars, queueVars, clock, pollVars, fileVars, userVars, sent, out, lost>>

Init ==
    /\ tpc = [t \in Threads |-> "idle"] /\ calls = [t \in Threads |-> 0]
    /\ stamp = [t \in Threads |-> 0]
    /\ queue = [t \in Threads |-> <<>>]
    /\ buffer = [t \in Threads |-> "none"]
    /\ shouldDeallocate = [t \in Threads |-> FALSE]
    /\ clock = 0
    /\ ppc = "none" /\ forceFlush = FALSE /\ tsc = 0
    /\ unscanned = {} /\ node = {} /\ header = [t \in Threads |-> FALSE]
    /\ membuf = <<>> /\ nextFlushTime = "max"
    /\ manageFp = FALSE /\ outputFp = TRUE       \* setLogFile(stdout)
    /\ mpc = "free" /\ threadRunning = FALSE /\ thr = "none"
    /\ sent = {} /\ out = <<>> /\ written = {} /\ discarded = {} /\ lost = {}
    /\ ready = {} /\ since = 0

-----------------------------------------------------------------------------
(* A logging thread.                                                       *)

\* The first log of a thread, or preallocate(): a buffer, published under
\* bufferMutex.
preallocate(t) ==
    /\ tpc[t] = "idle" /\ buffer[t] = "none" /\ mpc # "down"
    /\ buffer' = [buffer EXCEPT ![t] = "new"]
    /\ UNCHANGED <<threadVars, queue, shouldDeallocate, clock, pollVars, fileVars,
                   userVars, sent, out, lost>>

\* vlog and allocMsg: claims room in the ring and then reads the timestamp.  Full,
\* it retries or drops.  One step: the poller can only make more room in between.
allocMsg(t) ==
    /\ \/ tpc[t] = "idle" /\ calls[t] < MaxCalls[t] /\ mpc \notin {"join_exit", "exit", "down"}
          /\ calls' = [calls EXCEPT ![t] = @ + 1]
       \/ tpc[t] = "alloc" /\ UNCHANGED calls
    /\ buffer[t] \in {"new", "bg"}
    /\ \/ /\ Len(queue[t]) < QueueCap
          /\ stamp' = [stamp EXCEPT ![t] = clock] /\ clock' = clock + 1
          /\ tpc' = [tpc EXCEPT ![t] = "push"]
       \/ /\ Len(queue[t]) >= QueueCap
          /\ tpc' = [tpc EXCEPT ![t] = IF Block THEN "alloc" ELSE "idle"]
          /\ UNCHANGED <<stamp, clock>>
    /\ UNCHANGED <<queueVars, pollVars, fileVars, userVars, sent, out, lost>>

push(t) ==
    /\ tpc[t] = "push"
    /\ LET m == [by |-> t, stamp |-> stamp[t]]
       IN  queue' = [queue EXCEPT ![t] = Append(@, m)] /\ sent' = sent \cup {m}
    /\ tpc' = [tpc EXCEPT ![t] = "idle"] /\ stamp' = [stamp EXCEPT ![t] = 0]
    /\ UNCHANGED <<calls, buffer, shouldDeallocate, clock, pollVars, fileVars,
                   userVars, out, lost>>

\* The thread ends: ThreadBufferDestroyer hands the buffer to the poller.
threadExit(t) ==
    /\ Exits /\ tpc[t] = "idle" /\ buffer[t] \in {"new", "bg"}
    /\ shouldDeallocate' = [shouldDeallocate EXCEPT ![t] = TRUE]
    /\ tpc' = [tpc EXCEPT ![t] = "exited"]
    /\ UNCHANGED <<calls, stamp, queue, buffer, clock, pollVars, fileVars, userVars,
                   sent, out, lost>>

LogStep(t) == allocMsg(t) \/ push(t)

-----------------------------------------------------------------------------
(* flushLogFile and the file operations.                                   *)

\* flushLogFile with buf in membuf: to the file, if there is one.
flushLogFile(buf) ==
    /\ membuf' = <<>> /\ nextFlushTime' = "max"
    /\ written' = IF outputFp THEN written \cup ToSet(buf) ELSE written
    /\ discarded' = IF outputFp THEN discarded ELSE discarded \cup ToSet(buf)

KeepFile == UNCHANGED <<nextFlushTime, written, discarded>>

-----------------------------------------------------------------------------
(* poll, step by step.                                                     *)

Begin(force) ==
    /\ ppc = "none"
    /\ ppc' = "collect" /\ forceFlush' = force /\ tsc' = clock
    /\ ready' = UNION {ToSet(queue[t]) : t \in Threads} /\ since' = Len(out)
    /\ UNCHANGED <<unscanned, node, header>>

\* Takes over the buffers published since the last poll, under bufferMutex.
SkipsNew == {t \in Threads : buffer[t] = "bg"}     \* variant: new buffers wait a poll
ToScan == {t \in Threads : buffer[t] \in {"new", "bg"}}

Collect ==
    /\ ppc = "collect"
    /\ buffer' = [t \in Threads |-> IF buffer[t] = "new" THEN "bg" ELSE buffer[t]]
    /\ unscanned' = ToScan
    /\ ppc' = "scan"
    /\ UNCHANGED <<threadVars, queue, shouldDeallocate, clock, forceFlush, tsc, node,
                   header, ready, since, fileVars, userVars, sent, out, lost>>

\* Scan loop: a node with a cached front is skipped, else front() is called.
FrontOf(t) ==
    /\ ppc = "scan" /\ t \in unscanned
    /\ unscanned' = unscanned \ {t}
    /\ IF header[t] \/ queue[t] # <<>>
       THEN header' = [header EXCEPT ![t] = TRUE] /\ UNCHANGED <<ppc, node>>
       ELSE ppc' = "dead" /\ node' = {t} /\ UNCHANGED header
    /\ UNCHANGED <<threadVars, queueVars, clock, forceFlush, tsc, ready, since, fileVars,
                   userVars, sent, out, lost>>

\* front() was null: the flag is read now, and the buffer deleted if it is set.
AnyEmpty(t) == TRUE                                \* variant: every empty buffer
Orphaned(t) == shouldDeallocate[t]

CheckDeallocate ==
    /\ ppc = "dead"
    /\ \E t \in node :
         IF Orphaned(t)
         THEN /\ buffer' = [buffer EXCEPT ![t] = "deleted"]
              /\ lost' = lost \cup ToSet(queue[t])
              /\ queue' = [queue EXCEPT ![t] = <<>>]
         ELSE UNCHANGED <<buffer, lost, queue>>
    /\ ppc' = "scan" /\ node' = {}
    /\ UNCHANGED <<threadVars, shouldDeallocate, clock, forceFlush, tsc, unscanned,
                   header, ready, since, fileVars, userVars, sent, out>>

\* With no buffer left poll returns at once, else the heap is built.
ScanDone ==
    /\ ppc = "scan" /\ unscanned = {}
    /\ ppc' = IF \E t \in Threads : buffer[t] = "bg" THEN "output" ELSE "return"
    /\ UNCHANGED <<threadVars, queueVars, clock, forceFlush, tsc, unscanned, node, header,
                   ready, since, fileVars, userVars, sent, out, lost>>

\* The heap's root: a cached front with the smallest timestamp.
SomeFront(t) == header[t]                          \* variant: not the oldest
IsRoot(t) == header[t] /\ \A u \in Threads :
                 header[u] => Head(queue[t]).stamp <= Head(queue[u]).stamp

OlderStill(t) == Head(queue[t]).stamp < tsc - 1    \* variant: cut one tick early
OldEnough(t) == Head(queue[t]).stamp < tsc

NotPopped(q) == q                                  \* variant: pop forgotten
Popped(q) == Tail(q)
StaleFront(q) == TRUE                              \* variant: front not asked again
HasFront(q) == q # <<>>

\* handleLog of the root, pop, front again.  handleLog formats the message and
\* flushes when the buffer is full or the message is urgent.
Output(t) ==
    LET m == Head(queue[t])
        buf == Append(membuf, m)
    IN  /\ ppc = "output" /\ IsRoot(t) /\ OldEnough(t)
        /\ out' = Append(out, m)
        /\ \/ flushLogFile(buf)
           \/ Len(buf) < FlushBufSize /\ membuf' = buf /\ KeepFile
        /\ queue' = [queue EXCEPT ![t] = Popped(@)]
        /\ header' = [header EXCEPT ![t] = HasFront(queue'[t])]
        /\ UNCHANGED <<threadVars, buffer, shouldDeallocate, clock, ppc, forceFlush, tsc,
                       unscanned, node, ready, since, manageFp, outputFp, userVars, sent, lost>>

OutputDone ==
    /\ ppc = "output"
    /\ ~\E t \in Threads : IsRoot(t) /\ OldEnough(t)
    /\ ppc' = IF membuf = <<>> THEN "return" ELSE "flush"
    /\ UNCHANGED <<threadVars, queueVars, clock, forceFlush, tsc, unscanned, node, header,
                   ready, since, fileVars, userVars, sent, out, lost>>

MustFlush == ~manageFp \/ forceFlush
NotArmed == "max"                                  \* variant: delay never armed
DelayArmed == "armed"

\* The end of poll: flush if forced, not buffering, or the delay has passed;
\* arm the delay if it was not.
FlushNow ==
    /\ ppc = "flush"
    /\ MustFlush \/ nextFlushTime = "armed"
    /\ flushLogFile(membuf)
    /\ ppc' = "return"
    /\ UNCHANGED <<threadVars, queueVars, clock, forceFlush, tsc, unscanned, node, header,
                   ready, since, manageFp, outputFp, userVars, sent, out, lost>>

FlushLater ==
    /\ ppc = "flush" /\ ~MustFlush
    /\ nextFlushTime' = DelayArmed
    /\ ppc' = "return"
    /\ UNCHANGED <<threadVars, queueVars, clock, forceFlush, tsc, unscanned, node, header,
                   ready, since, membuf, manageFp, outputFp, written, discarded,
                   userVars, sent, out, lost>>

PollStep == \/ Collect \/ CheckDeallocate \/ ScanDone \/ OutputDone \/ FlushNow \/ FlushLater
            \/ \E t \in Threads : FrontOf(t) \/ Output(t)

\* poll's locals go out of scope; the cached fronts stay in bgThreadBuffers.
Return == /\ ppc = "return" /\ ppc' = "none"
          /\ forceFlush' = FALSE /\ tsc' = 0 /\ ready' = {} /\ since' = 0
          /\ UNCHANGED <<unscanned, node, header>>

-----------------------------------------------------------------------------
(* The user's thread, and the polling thread.                              *)

PollEnv == UNCHANGED <<threadVars, queueVars, clock, fileVars, sent, out, lost>>
NoFile == UNCHANGED <<threadVars, queueVars, clock, pollVars, userVars, sent, out, lost>>

\* poll(force) called by the user.
poll(force) ==
    /\ mpc = "free" /\ thr = "none"
    /\ Begin(force) /\ mpc' = "polling"
    /\ UNCHANGED <<threadRunning, thr>> /\ PollEnv

pollReturns ==
    /\ mpc = "polling" /\ thr = "none"
    /\ Return /\ mpc' = "free"
    /\ UNCHANGED <<threadRunning, thr>> /\ PollEnv

\* startPollingThread stops a running one first; then = what the user does next.
Stop(then) ==
    /\ threadRunning' = FALSE /\ mpc' = then
    /\ UNCHANGED <<thr, pollVars>> /\ PollEnv

Spawn == threadRunning' = TRUE /\ thr' = "run" /\ mpc' = "free"
         /\ UNCHANGED pollVars /\ PollEnv

startPollingThread ==
    /\ mpc = "free"
    /\ IF threadRunning THEN Stop("join_start") ELSE Spawn

stopPollingThread == mpc = "free" /\ threadRunning /\ Stop("join")

\* ~Logger at the end of the program: stop, poll(true), closeLogFile.  The
\* logging threads are done by then.
Exit ==
    /\ mpc = "free" /\ \A t \in Threads : tpc[t] \in {"idle", "exited"}
    /\ IF threadRunning THEN Stop("join_exit")
       ELSE /\ Begin(TRUE) /\ mpc' = "exit"
            /\ UNCHANGED <<threadRunning, thr>> /\ PollEnv

\* thr.join() returns once the thread has ended.
Joined ==
    /\ thr = "none"
    /\ \/ mpc = "join" /\ mpc' = "free" /\ UNCHANGED <<threadRunning, thr, pollVars>>
          /\ PollEnv
       \/ mpc = "join_start" /\ Spawn
       \/ mpc = "join_exit" /\ Begin(TRUE) /\ mpc' = "exit"
          /\ UNCHANGED <<threadRunning, thr>> /\ PollEnv

\* The polling thread: poll(false) while threadRunning, then poll(true).
LoopsForever(running) == "run"                     \* variant: threadRunning not read
LoopWhile(running) == IF running THEN "run" ELSE "last"

threadPolls ==
    /\ thr = "run"
    /\ Begin(~threadRunning)
    /\ thr' = LoopWhile(threadRunning)
    /\ UNCHANGED <<mpc, threadRunning>> /\ PollEnv

threadReturns ==
    /\ thr \in {"run", "last"}
    /\ Return
    /\ thr' = IF thr = "last" THEN "none" ELSE "run"
    /\ UNCHANGED <<mpc, threadRunning>> /\ PollEnv

\* closeLogFile: flushes what is buffered, then lets go of the file.
closeUnflushed ==                                  \* variant: buffer dropped
    membuf' = <<>> /\ UNCHANGED <<nextFlushTime, written, discarded>>
closeBuffered == IF membuf # <<>> THEN flushLogFile(membuf)
                 ELSE UNCHANGED <<membuf, nextFlushTime, written, discarded>>

closeLogFile ==
    /\ closeBuffered
    /\ outputFp' = FALSE /\ manageFp' = FALSE

\* The file operations are not for use while the logger polls.
MayChangeFile == mpc = "free" /\ thr = "none"

close_log_file == MayChangeFile /\ closeLogFile /\ NoFile

\* set_log_file(filename): the old file is closed once the new one is open.  When its
\* directory or the file cannot be made, report_error throws before anything changes.
set_log_file_name ==
    /\ MayChangeFile /\ NoFile
    /\ \/ UNCHANGED fileVars
       \/ closeBuffered /\ outputFp' = TRUE /\ manageFp' = TRUE

\* set_log_file(FILE*, manage): the old file is closed first.
set_log_file_fp(manage) ==
    /\ MayChangeFile /\ closeBuffered
    /\ outputFp' = TRUE /\ manageFp' = manage
    /\ NoFile

\* The end of ~Logger.
exitReturns ==
    /\ mpc = "exit" /\ Return /\ closeLogFile
    /\ mpc' = "down"
    /\ UNCHANGED <<threadVars, queueVars, clock, threadRunning, thr, sent, out, lost>>

UserStep ==
    \/ \E force \in BOOLEAN : poll(force)
    \/ pollReturns \/ startPollingThread \/ stopPollingThread \/ Exit \/ Joined
    \/ exitReturns \/ close_log_file \/ set_log_file_name
    \/ \E manage \in BOOLEAN : set_log_file_fp(manage)

Next == \/ \E t \in Threads : preallocate(t) \/ LogStep(t) \/ threadExit(t)
        \/ PollStep \/ threadPolls \/ threadReturns
        \/ UserStep

Spec == Init /\ [][Next]_vars

\* Threads run, and an armed flush delay passes at some poll.
ThreadsRun ==
    /\ \A t \in Threads : WF_vars(LogStep(t))
    /\ WF_vars(PollStep) /\ SF_vars(FlushNow)
    /\ WF_vars(pollReturns \/ exitReturns \/ threadReturns)
    /\ WF_vars(threadPolls) /\ WF_vars(Joined)

\* The user polls again and again unless a polling thread does (log.hpp:124).
UserPolls == \E force \in BOOLEAN : poll(force)

FairSpec == Spec /\ ThreadsRun /\ SF_vars(UserPolls)

-----------------------------------------------------------------------------
(* Properties.                                                             *)

Queued == UNION {ToSet(queue[t]) : t \in Threads}

TypeInv ==
    /\ tpc \in [Threads -> {"idle", "alloc", "push", "exited"}]
    /\ buffer \in [Threads -> {"none", "new", "bg", "deleted"}]
    /\ ppc \in {"none", "collect", "scan", "dead", "output", "flush", "return"}
    /\ \A t \in Threads : header[t] => buffer[t] = "bg" /\ queue[t] # <<>>
    /\ thr = "none" => ~threadRunning
    /\ mpc \in {"polling", "exit"} => thr = "none" /\ ppc # "none"
    /\ ppc # "none" => mpc \in {"polling", "exit"} \/ thr # "none"

\* Every message is in one place: still queued, lost with its buffer, or output,
\* and an output one is buffered, written or, with no file open, discarded.
NothingVanishes ==
    /\ sent = Queued \cup lost \cup ToSet(out)
    /\ Queued \cap lost = {} /\ (Queued \cup lost) \cap ToSet(out) = {}
    /\ \A i, j \in DOMAIN out : i # j => out[i] # out[j]
    /\ ToSet(out) = ToSet(membuf) \cup written \cup discarded

\* The messages of one thread come out once each, in the order it logged them.
ThreadOrder ==
    /\ \A i, j \in DOMAIN out : i < j /\ out[i].by = out[j].by => out[i].stamp < out[j].stamp
    /\ \A t \in Threads : \A j \in DOMAIN queue[t] :
          /\ \A i \in DOMAIN queue[t] : i < j => queue[t][i].stamp < queue[t][j].stamp
          /\ \A m \in ToSet(out) : m.by = t => m.stamp < queue[t][j].stamp

\* One poll outputs by timestamp, across all threads, and never a message before
\* an older one that was already pushed when the poll began.
OldestFirst ==
    [][out' # out => /\ Len(out) > since => Last(out).stamp < Last(out').stamp
                     /\ \A m \in ready : m.stamp < Last(out').stamp => m \in ToSet(out)]_vars

\* The poller never deletes a buffer its thread may still use.
BufferOutlivesThread == \A t \in Threads : buffer[t] = "deleted" => tpc[t] = "exited"

\* Whatever the threads and the poller are at, each message is in one place, in
\* its thread's order, and no buffer is deleted under its thread.
EachOnceInOrder == TypeInv /\ NothingVanishes /\ ThreadOrder /\ BufferOutlivesThread

\* When the logger is gone all that was logged has left it.
ExitWritesAll == mpc = "down" => sent = written \cup discarded \cup lost

\* A message leaves memory in the end: it is written (discarded when no file is open),
\* or it was lost with its buffer.  Only when no thread has a buffer any more may its
\* text stay in membuf, because poll returns before it flushes.
NoBuffer == \A t \in Threads : buffer[t] \in {"none", "deleted"}
LoggedIsWritten ==
    \A s \in 0 .. FoldFunction(+, 0, MaxCalls) - 1 :
        (\E m \in sent : m.stamp = s) ~>
            \/ \E m \in written \cup discarded \cup lost : m.stamp = s
            \/ [](NoBuffer /\ \E m \in ToSet(membuf) \cup written \cup discarded : m.stamp = s)

\* stop_polling_thread comes back.
StopReturns == (mpc \in {"join", "join_start", "join_exit"}) ~> (mpc \in {"free", "down"})

\* "Collect log msgs from all threads": no message is deleted unread.
NoLoss == lost = {}

\* "If true, internal file buffer is flushed" (log.hpp:121): a forced poll returns
\* with nothing left in membuf.
ForcedPollFlushes == ppc = "return" /\ forceFlush => membuf = <<>>
=============================================================================
