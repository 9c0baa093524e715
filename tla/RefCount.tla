------------------------------ MODULE RefCount -------------------------------
(***************************************************************************)
(* The intrusive smart pointers: RC, RCUnique and RCWeak handles over      *)
(* objects that carry a strong and (RCWeakInterface) a weak counter.  A    *)
(* handle is used by one thread; the objects, with their counters, are     *)
(* shared.  A handle operation exchanges the pointer and then performs a   *)
(* list of atomic accesses to the counters, one step each: the list is     *)
(* todo[t], and a step may put the next access in front of it.             *)
(***************************************************************************)
EXTENDS Integers, Sequences, FiniteSets

CONSTANTS Owners, Objs,
          RCs, Uniques, Weaks,  \* the handles, by class
          Owner,                \* the thread each handle belongs to
          Use,                  \* the objects each handle may refer to
          CounterMod,           \* 2^32: the counters are uint32_t
          SelfAssign            \* may a program assign a handle to itself?

Handles == RCs \cup Uniques \cup Weaks
Null == "nullptr"

\* Only RCWeakInterface objects have weak handles; RCInterface answers 0.
HasWeak(o) == \E w \in Weaks : o \in Use[w]

\* A program under which the handles keep their promise: no handle is assigned to
\* itself, an object that weak handles may refer to is used by one thread, and no
\* RCUnique owns it.
Confined ==
    /\ ~SelfAssign
    /\ \A o \in Objs : HasWeak(o) =>
          /\ \A u \in Uniques : o \notin Use[u]
          /\ \A h, g \in Handles : o \in Use[h] \cap Use[g] => Owner[h] = Owner[g]

ASSUME HandlesAssumption ==
    /\ IsFiniteSet(Handles)
    /\ RCs \cap Uniques = {} /\ RCs \cap Weaks = {} /\ Uniques \cap Weaks = {}
    /\ Owner \in [Handles -> Owners] /\ Use \in [Handles -> SUBSET Objs]
    /\ Null \notin Objs
    /\ SelfAssign \in BOOLEAN
ASSUME CounterAssumption == CounterMod \in Nat /\ CounterMod > Cardinality(Handles) + 1

VARIABLES ptr,           \* ptr_ of every handle
          counter, weak_counter,
          status,        \* of an object: not yet created, alive, or deleted
          todo,          \* what the thread's current operation still has to do
          faults         \* history: accesses that had no object to go to

rcVars == <<ptr, counter, weak_counter, status, todo, faults>>

Idle(t) == todo[t] = <<>>
Add(n, d) == (n + d + CounterMod) % CounterMod

Counted(f, hs) == [o \in Objs |-> Cardinality({h \in hs : f[h] = o})]

\* Some objects exist already and were handed to the threads, for instance by
\* copies made before the threads started; the others are still to be created.
RCInit ==
    /\ ptr \in [Handles -> Objs \cup {Null}]
    /\ \A h \in Handles : ptr[h] \in Use[h] \cup {Null}
    /\ \A h \in Uniques, g \in Uniques \cup RCs : g # h /\ ptr[h] # Null => ptr[g] # ptr[h]
    /\ counter = Counted(ptr, RCs \cup Uniques)
    /\ weak_counter = Counted(ptr, Weaks)
    /\ \A o \in Objs : weak_counter[o] > 0 => counter[o] > 0
    /\ status = [o \in Objs |-> IF counter[o] > 0 THEN "alive" ELSE "none"]
    /\ todo = [t \in Owners |-> <<>>]
    /\ faults = {}

-----------------------------------------------------------------------------
(* The accesses.                                                           *)

\* An access to object o that handle h asks for; what is then decided about an
\* object is no handle's.
DoFor(h, op, o) == <<[op |-> op, obj |-> o, h |-> h]>>
DoIf(h, op, o) == IF o = Null THEN <<>> ELSE DoFor(h, op, o)
Do(op, o) == DoFor(Null, op, o)

\* Thread t's next access is op; after it, first come the accesses in then.
Step(t, op, then) ==
    /\ todo[t] # <<>> /\ Head(todo[t]).op = op
    /\ todo' = [todo EXCEPT ![t] = then \o Tail(@)]

Obj(t) == Head(todo[t]).obj
Touch(t) == faults' = IF status[Obj(t)] = "deleted"
                      THEN faults \cup {"use after free"} ELSE faults

AddRef(t) ==
    /\ Step(t, "add_ref", <<>>) /\ Touch(t)
    /\ counter' = [counter EXCEPT ![Obj(t)] = Add(@, 1)]
    /\ UNCHANGED <<ptr, weak_counter, status>>

WeakAddRef(t) ==
    /\ Step(t, "weak_add_ref", <<>>) /\ Touch(t)
    /\ weak_counter' = [weak_counter EXCEPT ![Obj(t)] = Add(@, 1)]
    /\ UNCHANGED <<ptr, counter, status>>

SetUnique(t) ==
    /\ Step(t, "set_unique", <<>>) /\ Touch(t)
    /\ counter' = [counter EXCEPT ![Obj(t)] = 1]
    /\ UNCHANGED <<ptr, weak_counter, status>>

\* rc_release as the owner's reset uses it: fetch_sub, and when that was the
\* last one rc_weak_count() decides about the delete.
LastAfter(n) == n = 0                              \* variant: tests the new value
LastStrong(n) == n = 1
ForgetWeak(o) == Do("delete", o)                   \* variant: weak handles ignored
AfterLast(o) == IF HasWeak(o) THEN Do("weak_count", o) ELSE Do("delete", o)

Release(t) ==
    /\ Step(t, "release", IF LastStrong(counter[Obj(t)]) THEN AfterLast(Obj(t)) ELSE <<>>)
    /\ Touch(t)
    /\ counter' = [counter EXCEPT ![Obj(t)] = Add(@, -1)]
    /\ UNCHANGED <<ptr, weak_counter, status>>

\* RCUnique::release ignores the answer: the pointer leaves with the caller.
Detach(t) ==
    /\ Step(t, "detach", <<>>) /\ Touch(t)
    /\ counter' = [counter EXCEPT ![Obj(t)] = Add(@, -1)]
    /\ UNCHANGED <<ptr, weak_counter, status>>

WeakCount(t) ==
    /\ Step(t, "weak_count", IF weak_counter[Obj(t)] = 0 THEN Do("delete", Obj(t)) ELSE <<>>)
    /\ Touch(t)
    /\ UNCHANGED <<ptr, counter, weak_counter, status>>

\* rc_weak_release: the same with the roles exchanged.
NeverDeletes(n) == FALSE                           \* variant: a weak handle never deletes
LastWeak(n) == n = 1

WeakRelease(t) ==
    /\ Step(t, "weak_release",
            IF LastWeak(weak_counter[Obj(t)]) THEN Do("count", Obj(t)) ELSE <<>>)
    /\ Touch(t)
    /\ weak_counter' = [weak_counter EXCEPT ![Obj(t)] = Add(@, -1)]
    /\ UNCHANGED <<ptr, counter, status>>

Count(t) ==
    /\ Step(t, "count", IF counter[Obj(t)] = 0 THEN Do("delete", Obj(t)) ELSE <<>>)
    /\ Touch(t)
    /\ UNCHANGED <<ptr, counter, weak_counter, status>>

Delete(t) ==
    /\ Step(t, "delete", <<>>)
    /\ status' = [status EXCEPT ![Obj(t)] = "deleted"]
    /\ faults' = IF status[Obj(t)] = "deleted" THEN faults \cup {"double delete"} ELSE faults
    /\ UNCHANGED <<ptr, counter, weak_counter>>

\* lock: reads the count; when it is not 0 an RC is made of the pointer.
LockCount(t) ==
    LET h == Head(todo[t]).h
        ok == counter[Obj(t)] # 0
    IN  /\ Step(t, "lock", IF ok THEN DoFor(h, "add_ref", Obj(t)) ELSE <<>>)
        /\ Touch(t)
        /\ ptr' = IF ok THEN [ptr EXCEPT ![h] = Obj(t)] ELSE ptr
        /\ UNCHANGED <<counter, weak_counter, status>>

-----------------------------------------------------------------------------
(* The handle operations.  Each starts in an idle thread.                  *)

ReleaseOp(h) == IF h \in Weaks THEN "weak_release" ELSE "release"
AcquireOp(h) == CASE h \in RCs     -> "add_ref"
                  [] h \in Uniques -> "set_unique"
                  [] h \in Weaks   -> "weak_add_ref"

\* reset(p): the old object is released first, then the new one acquired.
ResetTodo(h, p) == DoIf(h, ReleaseOp(h), ptr[h]) \o DoIf(h, AcquireOp(h), p)

Free(t, h) == Idle(t) /\ Owner[h] = t

\* h.reset(), h = nullptr, ~h.
Clear(t, h) ==
    /\ Free(t, h) /\ ptr[h] # Null
    /\ ptr' = [ptr EXCEPT ![h] = Null]
    /\ todo' = [todo EXCEPT ![t] = ResetTodo(h, Null)]
    /\ UNCHANGED <<counter, weak_counter, status, faults>>

\* h.reset(new T): RC and RCUnique.
Create(t, h, o) ==
    /\ Free(t, h) /\ h \notin Weaks /\ o \in Use[h] /\ status[o] = "none"
    /\ status' = [status EXCEPT ![o] = "alive"]
    /\ ptr' = [ptr EXCEPT ![h] = o]
    /\ todo' = [todo EXCEPT ![t] = ResetTodo(h, o)]
    /\ UNCHANGED <<counter, weak_counter, faults>>

\* h = g: RC from RC, RCWeak from any handle; a constructor when h was empty.
Copy(t, h, g) ==
    /\ Free(t, h) /\ Owner[g] = t /\ (h # g \/ SelfAssign)
    /\ \/ h \in RCs /\ g \in RCs
       \/ h \in Weaks
    /\ ptr[g] \in Use[h]
    /\ ptr' = [ptr EXCEPT ![h] = ptr[g]]
    /\ todo' = [todo EXCEPT ![t] = ResetTodo(h, ptr[g])]
    /\ UNCHANGED <<counter, weak_counter, status, faults>>

\* h = std::move(g) within a class of counted handles: reset(g.ptr_), g.reset().
MoveAssign(t, h, g) ==
    /\ Free(t, h) /\ Owner[g] = t /\ (h # g \/ SelfAssign)
    /\ \/ h \in RCs /\ g \in RCs
       \/ h \in Weaks /\ g \in Weaks
    /\ ptr[g] \in Use[h]
    /\ ptr' = [ptr EXCEPT ![h] = ptr[g]]
    /\ todo' = [todo EXCEPT ![t] = ResetTodo(h, ptr[g]) \o DoFor(g, "clear", Null)]
    /\ UNCHANGED <<counter, weak_counter, status, faults>>

\* The g.reset() at the end of a move assignment.
ClearMoved(t) ==
    LET g == Head(todo[t]).h
    IN  /\ Step(t, "clear", DoIf(g, ReleaseOp(g), ptr[g]))
        /\ ptr' = [ptr EXCEPT ![g] = Null]
        /\ UNCHANGED <<counter, weak_counter, status, faults>>

MovedNotCleared(h, g) == [ptr EXCEPT ![h] = ptr[g]]    \* variant: source kept
Moved(h, g) == [ptr EXCEPT ![h] = ptr[g], ![g] = Null]

\* Move construction takes the pointer and no count changes.
MoveConstruct(t, h, g) ==
    /\ Free(t, h) /\ Owner[g] = t /\ ptr[h] = Null /\ ptr[g] \in Use[h]
    /\ \/ h \in RCs /\ g \in RCs
       \/ h \in Weaks /\ g \in Weaks
    /\ ptr' = Moved(h, g)
    /\ UNCHANGED <<counter, weak_counter, status, todo, faults>>

\* h = std::move(u): u.release() detaches, then h is reset to the pointer.
MoveUnique(t, h, u) ==
    /\ Free(t, h) /\ Owner[u] = t /\ u \in Uniques /\ h \notin Weaks
    /\ (h # u \/ SelfAssign) /\ ptr[u] \in Use[h]
    /\ LET old == IF h = u THEN Null ELSE ptr[h]
       IN  todo' = [todo EXCEPT ![t] = DoFor(u, "detach", ptr[u]) \o DoIf(h, ReleaseOp(h), old)
                                         \o DoFor(h, AcquireOp(h), ptr[u])]
    /\ ptr' = IF h = u THEN ptr ELSE Moved(h, u)
    /\ UNCHANGED <<counter, weak_counter, status, faults>>

\* h.swap(g), within a class.
Swap(t, h, g) ==
    /\ Free(t, h) /\ Owner[g] = t /\ ptr[h] # ptr[g]
    /\ \E class \in {RCs, Uniques, Weaks} : {h, g} \subseteq class
    /\ ptr[g] \in Use[h] \cup {Null} /\ ptr[h] \in Use[g] \cup {Null}
    /\ ptr' = [ptr EXCEPT ![h] = ptr[g], ![g] = ptr[h]]
    /\ UNCHANGED <<counter, weak_counter, status, todo, faults>>

\* h is made by w.lock().
Lock(t, h, w) ==
    /\ Free(t, h) /\ Owner[w] = t /\ w \in Weaks /\ h \in RCs
    /\ ptr[h] = Null /\ ptr[w] \in Use[h]
    /\ todo' = [todo EXCEPT ![t] = DoFor(h, "lock", ptr[w])]
    /\ UNCHANGED <<ptr, counter, weak_counter, status, faults>>

Access(t) ==
    \/ AddRef(t) \/ WeakAddRef(t) \/ SetUnique(t) \/ Release(t) \/ Detach(t)
    \/ WeakCount(t) \/ WeakRelease(t) \/ Count(t) \/ Delete(t) \/ LockCount(t)
    \/ ClearMoved(t)

Operation(t) ==
    \E h \in Handles :
        \/ Clear(t, h)
        \/ \E o \in Objs : Create(t, h, o)
        \/ \E g \in Handles :
             \/ Copy(t, h, g) \/ MoveAssign(t, h, g) \/ MoveConstruct(t, h, g)
             \/ MoveUnique(t, h, g) \/ Swap(t, h, g) \/ Lock(t, h, g)

RCNext == \E t \in Owners : Access(t) \/ Operation(t)

RCSpec == RCInit /\ [][RCNext]_rcVars

-----------------------------------------------------------------------------
(* Properties.                                                             *)

RCTypeInv ==
    /\ ptr \in [Handles -> Objs \cup {Null}]
    /\ \A h \in Handles : ptr[h] \in Use[h] \cup {Null}
    /\ counter \in [Objs -> 0 .. Cardinality(Handles)]
    /\ weak_counter \in [Objs -> 0 .. Cardinality(Handles)]
    /\ status \in [Objs -> {"none", "alive", "deleted"}]

\* No operation of a handle reads, counts on or deletes an object that was
\* deleted before.
NoFaults == faults = {}

\* A handle of a thread that is between operations refers to a live object.
NoDangling ==
    \A h \in Handles : ptr[h] # Null /\ Idle(Owner[h]) => status[ptr[h]] = "alive"

AllIdle == \A t \in Owners : Idle(t)

\* Between operations the counters are the numbers of handles, and an object is
\* alive exactly as long as a strong or a weak handle refers to it.
CountersAreHandles ==
    AllIdle => /\ counter = Counted(ptr, RCs \cup Uniques)
               /\ weak_counter = Counted(ptr, Weaks)
DestroyedAtZero ==
    AllIdle => \A o \in Objs :
                 status[o] = "alive" <=> \E h \in Handles : ptr[h] = o

\* An object owned by an RCUnique has no other strong handle.
UniqueIsUnique ==
    AllIdle => \A u \in Uniques, h \in RCs \cup Uniques :
                 u # h /\ ptr[u] # Null => ptr[h] # ptr[u]

\* Between operations counters, lifetimes and owners say what the handles say.
LifetimeIsHandles == RCTypeInv /\ CountersAreHandles /\ DestroyedAtZero /\ UniqueIsUnique

\* The statement of README.md: the resources are destroyed when both counters
\* reach 0, hence once, and never while a handle still refers to the object.
DestroyedOnce == NoFaults /\ NoDangling
=============================================================================
