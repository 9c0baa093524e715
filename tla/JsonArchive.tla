---------------------------- MODULE JsonArchive ----------------------------
(***************************************************************************)
(* JsonWriter and JsonReader: calls that open and close scopes and write,  *)
(* or read, one value at a time.  The writer holds a document and the      *)
(* scopes that are open in it; dump makes a text of it at any time, which  *)
(* the reader walks with scopes of its own.                                *)
(*                                                                         *)
(* A node is [t, v] or, if it holds others, [t, kids], a sequence of       *)
(* [key, node]; a scope of the writer is [t, path], its type and the kids  *)
(* to go through to its node, or None if the document does not hold it.    *)
(***************************************************************************)
EXTENDS SequencesExt, Integers

CONSTANTS Keys,      \* of fields; Empty is none
          Empty,
          Scalars,   \* nodes that hold nothing
          Arrays,    \* sequences of them
          MaxCalls,  \* bound: successful calls of the writer
          MaxLost,   \* bound: open scopes that the document does not hold
          None

VARIABLES document,  \* of the writer
          stack,     \* its scopes, the last one is open
          script,    \* ghost: its successful calls
          reader,    \* None or [document, stack], each scope with the index of its next element
          mirror,    \* ghost: how many calls of the script the reader made as they were made, or None
          got        \* result of the last call, with what it read

vars == <<document, stack, script, reader, mirror, got>>

Node(t) == [t |-> t, kids |-> <<>>]
RECURSIVE At(_, _)
At(node, path) == IF path = <<>> THEN node ELSE At(node.kids[path[1]].node, Tail(path))
RECURSIVE Added(_, _, _, _)
Added(node, path, key, new) ==
    IF path = <<>> THEN [node EXCEPT !.kids = Append(@, [key |-> key, node |-> new])]
    ELSE [node EXCEPT !.kids[path[1]].node = Added(@, Tail(path), key, new)]

Code(c) == [code |-> c, v |-> None]
\* The checks that writer and reader make alike of the scope and the key.
Misuse(open, t, key) ==
    CASE open = 0 -> "NO_OPEN_SCOPE"
      [] open > 0 /\ t = "arr" /\ key # Empty -> "ARRAY_ELEMENT_WITH_KEY"
      [] open > 0 /\ t = "obj" /\ key = Empty -> "EMPTY_OBJECT_FIELD_KEY"
      [] OTHER -> "OK"
EndOf(open, t, type) == CASE open = 0 -> "NO_OPEN_SCOPE"
                          [] open > 0 /\ t # type -> "SCOPE_TYPE_MISMATCH"
                          [] OTHER -> "OK"

-----------------------------------------------------------------------------
(* JsonWriter                                                              *)

Open == Last(stack).path
Type == IF stack = <<>> THEN None ELSE Last(stack).t
IsLost == stack # <<>> /\ Open = None
MayLose == Len(SelectSeq(stack, LAMBDA level : level.path = None)) < MaxLost
\* What is called in a scope that the document does not hold is not part of it.
Log(calls) == script' = IF IsLost THEN script ELSE script \o calls
Room == Len(script) < MaxCalls /\ reader = None
Refuse(code) == got' = Code(code) /\ UNCHANGED <<document, stack, script>>

Written(key, node) == document' = IF IsLost THEN document ELSE Added(document, Open, key, node)
Opened(node) ==
    /\ IsLost => MayLose
    /\ stack' = Append(stack, [t |-> node.t, path |-> IF IsLost THEN None
                                                    ELSE Append(Open, Len(At(document, Open).kids) + 1)])
\* Variant: an array that is filled at once is not left open.
LeavesFilled(key, node, opens) ==
    /\ Written(key, node)
    /\ IF opens /\ node.kids = <<>> THEN Opened(node) ELSE UNCHANGED stack
    /\ got' = Code("OK")
\* A value with what it holds goes into the open scope; if it can hold more it is
\* the open scope from now on.
AddVal(key, node, opens) ==
    /\ Written(key, node)
    /\ IF opens THEN Opened(node) ELSE UNCHANGED stack
    /\ got' = Code("OK")

\* The allocator refuses the value or its key: nothing is put into the scope.
Refused == Refuse("UNKNOWN_ERROR")

StartObject(key) ==
    /\ Room
    /\ LET code == Misuse(Len(stack), Type, key)
       IN IF stack = <<>> /\ key # Empty THEN Refuse("ROOT_OBJECT_WITH_KEY")
          ELSE IF stack = <<>>                              \* what was written before is dropped
          THEN /\ got' = Code("OK")
               /\ \/ /\ document' = Node("obj") /\ stack' = <<[t |-> "obj", path |-> <<>>]>>
                     /\ script' = <<[op |-> "obj", key |-> key, v |-> None]>>
                  \/ \* the root could not be allocated, and is set to nothing
                     document' = None /\ stack' = <<[t |-> "obj", path |-> None]>> /\ script' = <<>>
          ELSE IF code # "OK" THEN Refuse(code)
          ELSE \/ AddVal(key, Node("obj"), TRUE) /\ Log(<<[op |-> "obj", key |-> key, v |-> None]>>)
               \/ Refused
    /\ UNCHANGED <<reader, mirror>>

StartArray(key) ==
    /\ Room
    /\ LET code == Misuse(Len(stack), Type, key)
       IN IF code # "OK" THEN Refuse(code)
          ELSE \/ AddVal(key, Node("arr"), TRUE) /\ Log(<<[op |-> "arr", key |-> key, v |-> None]>>)
               \/ \* an array that could not be put into the scope is opened all the same
                  /\ MayLose /\ stack' = Append(stack, [t |-> "arr", path |-> None])
                  /\ got' = Code("UNKNOWN_ERROR") /\ UNCHANGED <<document, script>>
    /\ UNCHANGED <<reader, mirror>>

End(type) ==
    /\ Room
    /\ LET code == EndOf(Len(stack), Type, type)
       IN IF code # "OK" THEN Refuse(code)
          ELSE /\ stack' = Front(stack) /\ got' = Code("OK") /\ UNCHANGED document
               /\ Log(<<[op |-> "end", key |-> Empty, v |-> type]>>)
    /\ UNCHANGED <<reader, mirror>>

json_write(key, v) ==
    /\ Room
    /\ LET code == Misuse(Len(stack), Type, key)
       IN IF code # "OK" THEN Refuse(code)
          ELSE \/ AddVal(key, v, FALSE) /\ Log(<<[op |-> "val", key |-> key, v |-> v]>>)
               \/ Refused
    /\ UNCHANGED <<reader, mirror>>

\* An array and its elements in one call, which leaves it open.
write_array(key, vs) ==
    /\ Room
    /\ LET code == Misuse(Len(stack), Type, key)
           elements == [i \in DOMAIN vs |-> [key |-> Empty, node |-> vs[i]]]
       IN IF code # "OK" THEN Refuse(code)
          ELSE \/ /\ AddVal(key, [t |-> "arr", kids |-> elements], TRUE)
                  /\ Log(<<[op |-> "arr", key |-> key, v |-> None]>>
                         \o [i \in DOMAIN vs |-> [op |-> "val", key |-> Empty, v |-> vs[i]]])
               \/ Refused
    /\ UNCHANGED <<reader, mirror>>

-----------------------------------------------------------------------------
(* JsonReader                                                              *)

\* What was dumped is read again: a number that is not negative as an unsigned one.
Reread(v) == IF v.t = "sint" /\ v.v >= 0 THEN [v EXCEPT !.t = "uint"] ELSE v
RECURSIVE Dumped(_)
Dumped(node) == IF node.t \in {"obj", "arr"}
                THEN [node EXCEPT !.kids = [i \in DOMAIN @ |-> [@[i] EXCEPT !.node = Dumped(@)]]]
                ELSE Reread(node)
\* A writer without a document dumps nothing, and the reader stays without one.
Create == /\ reader = None
          /\ reader' = [document |-> IF document = None THEN None ELSE Dumped(document), stack |-> <<>>]
          /\ mirror' = 0 /\ got' = Code("OK")
          /\ UNCHANGED <<document, stack, script>>

Scope == Last(reader.stack)
Parent == IF reader.stack = <<>> THEN Node("none") ELSE At(reader.document, Scope.path)
\* The kid that is meant: the next element, or the first field with that key.
Found(kids, key) ==
    IF Parent.t = "arr" THEN Scope.index
    ELSE CHOOSE i \in 1 .. Len(kids) + 1 : /\ i > Len(kids) \/ kids[i].key = key
                                           /\ \A j \in 1 .. i - 1 : kids[j].key # key
\* Variant: only a scope moves the index on.
StaysPut == reader.stack
\* The index goes on with every element that is asked for, found or not; all that
\* are behind the last element are one.
Passed == IF Parent.t # "arr" \/ Scope.index > Len(Parent.kids) THEN reader.stack
          ELSE [reader.stack EXCEPT ![Len(reader.stack)].index = @ + 1]
Missed(code, passed) == got' = Code(code) /\ reader' = [reader EXCEPT !.stack = passed]

\* yyjson_get_bool, _sint, _uint, _real, _str: 0 or nothing for another type; the
\* integers are words of 3 bits here.
Converted(node, as) ==
    IF node.t \in {"uint", "sint"} /\ as \in {"uint", "sint"}
    THEN IF as = "uint" THEN node.v % 8 ELSE IF node.v >= 4 THEN node.v - 8 ELSE node.v
    ELSE IF node.t = as THEN node.v ELSE IF as = "str" THEN None ELSE 0

Enter(t, key) ==
    LET code == IF reader.stack = <<>> /\ t = "obj" THEN IF key # Empty THEN "ROOT_OBJECT_WITH_KEY" ELSE "OK"
                ELSE Misuse(Len(reader.stack), Parent.t, key)
        i == Found(Parent.kids, key)
    IN IF code # "OK" THEN Missed(code, reader.stack)
       ELSE IF reader.stack = <<>>
       THEN IF reader.document = None THEN Missed("SCOPE_TYPE_MISMATCH", <<>>)
            ELSE got' = Code("OK") /\ reader' = [reader EXCEPT !.stack = <<[path |-> <<>>, index |-> 1]>>]
       ELSE IF i > Len(Parent.kids) THEN Missed("KEY_NOT_FOUND", Passed)
       ELSE IF Parent.kids[i].node.t # t THEN Missed("SCOPE_TYPE_MISMATCH", Passed)
       ELSE /\ reader' = [reader EXCEPT !.stack = Append(Passed, [path |-> Append(Scope.path, i), index |-> 1])]
            /\ got' = [code |-> "OK", v |-> IF t = "arr" THEN Len(Parent.kids[i].node.kids) ELSE None]

Leave(type) == LET code == EndOf(Len(reader.stack), Parent.t, type)
               IN IF code # "OK" THEN Missed(code, reader.stack)
                  ELSE got' = Code("OK") /\ reader' = [reader EXCEPT !.stack = Front(@)]

json_read(key, as) ==
    LET code == Misuse(Len(reader.stack), Parent.t, key)
        i == Found(Parent.kids, key)
    IN IF code # "OK" THEN Missed(code, reader.stack)
       ELSE IF i > Len(Parent.kids) THEN Missed("KEY_NOT_FOUND", Passed)
       ELSE got' = [code |-> "OK", v |-> Converted(Parent.kids[i].node, as)] /\ reader' = [reader EXCEPT !.stack = Passed]

\* The reader makes the call that reads what the next call of the script wrote; one
\* that does not move it may come between.
Mirrors(op, key, t) ==
    LET next == script[mirror + 1]
    IN mirror' = IF mirror = None THEN None
                 ELSE IF mirror < Len(script) /\ next.op = op /\ next.key = key /\ (IF op = "val" THEN next.v.t ELSE next.v) = t
                 THEN mirror + 1
                 ELSE IF reader' = reader THEN mirror ELSE None
Reading == reader # None /\ UNCHANGED <<document, stack, script>>

Types == {"bool", "sint", "uint", "real", "str"}
ReadObject(key) == Reading /\ Enter("obj", key) /\ Mirrors("obj", key, None)
ReadArray(key) == Reading /\ Enter("arr", key) /\ Mirrors("arr", key, None)
ReadEnd(type) == Reading /\ Leave(type) /\ Mirrors("end", Empty, type)
ReadValue(key, as) == Reading /\ json_read(key, as) /\ Mirrors("val", key, as)
check_scope == /\ Reading
               /\ got' = Code(EndOf(Len(reader.stack), Parent.t, "arr"))
               /\ UNCHANGED <<reader, mirror>>

Init == /\ document = None /\ stack = <<>> /\ script = <<>>
        /\ reader = None /\ mirror = None /\ got = Code("OK")

Next == \/ \E key \in Keys : \/ StartObject(key) \/ StartArray(key)
                             \/ ReadObject(key) \/ ReadArray(key)
                             \/ \E v \in Scalars : json_write(key, v)
                             \/ \E vs \in Arrays : write_array(key, vs)
                             \/ \E as \in Types : ReadValue(key, as)
        \/ \E type \in {"obj", "arr"} : End(type) \/ ReadEnd(type)
        \/ Create \/ check_scope

-----------------------------------------------------------------------------
(* Properties.                                                             *)

\* The kids that the calls from i on write into a scope, and the call behind it.
RECURSIVE Kids(_)
Kids(i) ==
    IF i > Len(script) \/ script[i].op = "end" THEN [kids |-> <<>>, next |-> i + 1]
    ELSE LET call == script[i]
             in == Kids(i + 1)
             rest == Kids(in.next)
             kid(node) == <<[key |-> call.key, node |-> node]>>
         IN IF call.op = "val" THEN [kids |-> kid(call.v) \o in.kids, next |-> in.next]
            ELSE [kids |-> kid([t |-> call.op, kids |-> in.kids]) \o rest.kids, next |-> rest.next]

\* The document is what the calls that succeeded say, in their order and nesting,
\* whatever calls failed between them and whatever scopes are open still; but for
\* the calls between a StartArray that could not put its array into the document, and
\* opens it all the same, and the end of that array: they succeed and go nowhere.
DocumentIsScript == document # None => document = Kids(1).kids[1].node

RECURSIVE Twins(_)
Twins(node) == /\ node.t \in {"obj", "arr"}
               /\ \/ node.t = "obj" /\ \E i, j \in DOMAIN node.kids : i # j /\ node.kids[i].key = node.kids[j].key
                  \/ \E i \in DOMAIN node.kids : Twins(node.kids[i].node)
\* Read in the order it was written in, by calls that ask for the types it was
\* written with, a document whose keys differ gives every value back and says of each
\* array how many it wrote, whatever calls that the reader refuses come between.  Of two
\* fields with one key only the first is found.
MirrorStep ==
    mirror # None /\ mirror' # None /\ mirror' # mirror /\ ~Twins(document) =>
        /\ got'.code = "OK"
        /\ script[mirror'].op = "val" => got'.v = script[mirror'].v.v
        /\ script[mirror'].op = "arr" => got'.v = Len(Kids(mirror').kids[1].node.kids)
=============================================================================
