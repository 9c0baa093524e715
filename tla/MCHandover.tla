----------------------------- MODULE MCHandover ------------------------------
(***************************************************************************)
(* The components whose threads hand things over to one another: messages  *)
(* through the logger, objects through the handles that count them.  An    *)
(* initial state picks one of Parts, and only that one moves.              *)
(***************************************************************************)
EXTENDS MCLogSystem, MCRefCount

CONSTANT Parts

VARIABLE part

mcvars == <<part, vars, rcVars>>

MCInit ==
    /\ part \in Parts
    /\ Init
    /\ RCInit /\ (part # "rc" => \A h \in Handles : ptr[h] = Null)

MCNext ==
    /\ UNCHANGED part
    /\ \/ part = "log" /\ Next   /\ UNCHANGED rcVars
       \/ part = "rc"  /\ RCNext /\ UNCHANGED vars

MCSpec == MCInit /\ [][MCNext]_mcvars
=============================================================================
