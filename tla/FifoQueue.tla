------------------------------ MODULE FifoQueue ------------------------------
(***************************************************************************)
(* What one thread's log queue promises to its two users: the logging      *)
(* thread publishes messages, the polling thread looks at the oldest one   *)
(* and then removes it.  Nothing is said of blocks, headers or wrap marks. *)
(***************************************************************************)
EXTENDS Sequences

CONSTANTS Msgs,   \* the messages that may be published
          NoMsg   \* not a message: the reader holds nothing

VARIABLES queue,  \* published and not yet removed, oldest first
          held    \* the message the reader was handed, or NoMsg

fifoVars == <<queue, held>>

FifoInit == queue = <<>> /\ held = NoMsg

Publish(m) == queue' = Append(queue, m) /\ UNCHANGED held

\* The reader is only ever handed the oldest published message.
Hand == /\ held = NoMsg
        /\ queue # <<>>
        /\ held' = Head(queue)
        /\ UNCHANGED queue

Remove == /\ held # NoMsg
          /\ queue' = Tail(queue)
          /\ held' = NoMsg

FifoNext == (\E m \in Msgs : Publish(m)) \/ Hand \/ Remove

FifoSpec == FifoInit /\ [][FifoNext]_fifoVars /\ WF_fifoVars(Hand) /\ WF_fifoVars(Remove)
=============================================================================
