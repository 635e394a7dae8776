------------------------------ MODULE MCKernel ------------------------------
(* Instances of Kernel for TLC. *)
EXTENDS KernelInvariant

CONSTANTS e1, e2, m1, o1, a1, i1

AllObjects == Event \cup Mutex \cup Timer \cup Address \cup Thread

MinusOne == -1
Forever == -1
ForeverOnly == {Forever}
ForeverOrOne == {Forever, 1}

NoLists == {}
MixedLists == {<<o1, m1>>, <<m1, e1>>}
PairLists == {<<e1, e2>>, <<e1, m1>>, <<m1, e1>>}

NoOrder == <<>>
OneTimer == <<o1>>
NoArgs == {}
ZeroAndOne == {<<0, 0>>, <<0, 1>>}
=============================================================================
