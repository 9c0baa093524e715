------------------------------- MODULE MCViews -------------------------------
(* The texts that cursors walk over: views into a store, with the end of     *)
(* another text or an ASCII byte in front; and the views that HStringView    *)
(* trims and splits, over whole characters and over bytes of them.           *)
EXTENDS Integers, Sequences, FiniteSets, FiniteSetsExt, SequencesExt

CONSTANT None

\* Every class of byte that the algorithms tell apart, at its ends.
Bytes == {65, 128, 143, 144, 159, 160, 191, 193, 195, 224, 237, 240, 244}
Few   == {65, 128, 191, 195, 226, 240}
Wide  == {65, 2048, 55296, 56319, 56320, 57343, 65535}
Whole == {65, 127, 128, 2047, 2048, 55295, 57344, 65535, 65536, 1114111}

View(k, before, s) == [kind |-> k, store |-> before \o s, from |-> Len(before), size |-> Len(s)]

SeqsTo(S, n) == UNION {[1 .. k -> S] : k \in 1 .. n}

\* In front of the text: whole characters, cut ones, and bytes that are none.
InFront == {<<65, 195, 169>>, <<65, 240, 144, 128, 128>>, <<65, 226, 130>>, <<65, 240>>, <<65, 128>>,
            <<195, 169, 128>>}

Texts == {View(8, <<65>>, s) : s \in SeqsTo(Bytes, 3) \cup SeqsTo(Few, 4)}
           \cup {View(16, <<65>>, s) : s \in SeqsTo(Wide, 3)}
           \cup {View(32, <<65>>, s) : s \in SeqsTo(Whole, 2)}
           \cup {View(8, b, s) : b \in InFront, s \in SeqsTo(Few, 2) \cup {<<>>}}
           \cup {View(16, b, s) : b \in {<<65, 56319, 56320>>, <<65, 56320>>, <<65, 56319>>}, s \in SeqsTo(Wide, 1) \cup {<<>>}}

Characters == {<<65>>, <<32>>, <<195, 169>>}
\* The second character ends in the first of these, and alone they are bad.
Pieces == {<<32>>, <<169>>, <<195>>}
Stores == {View(8, <<66>>, FlattenSeq(s)) : s \in SeqsTo(Characters, 4) \cup SeqsTo(Pieces, 3)}
Marks  == {<<32>>, <<195, 169>>, <<32, 32>>, <<32, 195, 169>>}
Limits == {None, 1, 2}
=============================================================================
