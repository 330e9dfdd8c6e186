------------------------------- MODULE MCBTree -------------------------------
(***************************************************************************)
(* Instances of BTree for TLC.  A page of 3 cells has room for one record, *)
(* one of 5 for two, one of 7 for three; pages of 4 and 6 cells end right  *)
(* before the second address of a record that would otherwise fit.         *)
(***************************************************************************)
EXTENDS BTree

\* The keys 1 to n in any order, some of them inserted again.
AnyOrder(n) == UNION {[1 .. m -> 1 .. n] : m \in 1 .. n + 1}

\* The keys 1 to n, each once, as in tree.rs:301-312.
Shuffled(n) == {order \in [1 .. n -> 1 .. n] :
                  \A i, j \in 1 .. n : order[i] = order[j] => i = j}

\* The two orders of the tests in tree.rs:267-297.
Linear(n) == { [i \in 1 .. n |-> i], [i \in 1 .. n |-> n + 1 - i] }

SoundTrees ==
  [size : {3}, order : AnyOrder(3)]
    \cup [size : {5}, order : AnyOrder(3) \cup Shuffled(4) \cup Linear(5)]
    \cup [size : {7}, order : Shuffled(4) \cup Linear(5)]
    \cup [size : {4, 6}, order : AnyOrder(2) \cup Shuffled(3)]

TwoRecordTrees == [size : {5}, order : Shuffled(4)]

OverhangTrees == [size : {4}, order : Shuffled(2)]

=============================================================================
