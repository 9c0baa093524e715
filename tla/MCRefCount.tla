----------------------------- MODULE MCRefCount ------------------------------
(* Handles of two threads and what they refer to, for the runs of RefCount. *)
EXTENDS RefCount

CONSTANTS t1, t2,
          plain,    \* objects that derive from RCInterface
          weak      \* objects that derive from RCWeakInterface

\* Handles named r, u, w belong to the first thread, s, v, x to the second.
MCOwner == [h \in Handles |-> IF h \in {"r1", "r2", "u1", "w1", "w2"} THEN t1 ELSE t2]

\* The plain objects are shared by the threads.  The others, with their weak
\* handles, stay with the first thread, and no RCUnique owns them.
MCConfined == [h \in Handles |-> IF h \in Weaks THEN weak
                                 ELSE IF h \in Uniques \/ MCOwner[h] = t2 THEN plain
                                 ELSE plain \cup weak]

\* So the programs of the passing run are those that the theorems are about.
ASSUME MCConfinedIsConfined ==
    (\A w \in Weaks : Owner[w] = t1) /\ Use = MCConfined /\ ~SelfAssign => Confined

\* Any handle may refer to any object.
MCAny == [h \in Handles |-> Objs]
=============================================================================
