----------------------------- MODULE MCLogSystem -----------------------------
(* How often each thread logs, in the runs of LogSystem.                    *)
EXTENDS LogSystem

CONSTANT busy    \* the thread that logs twice, the others log once

MCCalls == [t \in Threads |-> IF t = busy THEN 2 ELSE 1]
=============================================================================
