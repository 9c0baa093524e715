----------------------------- MODULE MCProgress ------------------------------
(***************************************************************************)
(* The components whose threads wait for one another: the shared mutex,    *)
(* and the logger as a whole.  An initial state picks one of Parts, and    *)
(* only that one moves, under its own fairness; the other stays where it   *)
(* starts, where nobody waits.                                             *)
(***************************************************************************)
EXTENDS SharedAtomicMutex, MCLogSystem

CONSTANT Parts

VARIABLE part

mcvars == <<part, mutexVars, vars>>

MCInit ==
    /\ part \in Parts
    /\ MutexInit
    /\ Init

MCNext ==
    /\ UNCHANGED part
    /\ \/ part = "mutex" /\ MutexNext /\ UNCHANGED vars
       \/ part = "log"   /\ Next      /\ UNCHANGED mutexVars

\* The fairness of both modules; where nothing began, it asks for polls only.
MCFairSpec ==
    /\ MCInit /\ [][MCNext]_mcvars
    /\ \A t \in Lockers : Fairness(t)
    /\ ThreadsRun /\ SF_vars(part = "log" /\ UserPolls)
=============================================================================
