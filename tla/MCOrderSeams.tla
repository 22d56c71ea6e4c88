---------------------------- MODULE MCOrderSeams ----------------------------
(***************************************************************************)
(* Small instances of OrderSeams for TLC.                                  *)
(***************************************************************************)
EXTENDS OrderSeams, TLC

CONSTANTS c1, c2, a, b

Ask(i, q) == [item |-> i, qty |-> q]

\* Events that name both items in either order (the second allocation of such
\* an event waits while it holds the first item), and events of one item.
PairRequests == {<<Ask(a, 1), Ask(b, 1)>>, <<Ask(b, 1), Ask(a, 1)>>}
MixedRequests == {<<Ask(a, 1)>>, <<Ask(a, 2)>>} \cup PairRequests

NoLines == {}
Line1 == {1}
Line12 == {1, 2}
Line2 == {2}
TwoLines == {1, 2}
ThreeLines == {1, 2, 3}
NoneOrTwo == {0, 2}
OneOrTwo == {1, 2}
OnlyTwo == {2}

\* The pair requests name the items alike, so the items can be exchanged, too.
CallerAndItemSymmetry == Permutations(Callers) \cup Permutations(Items)
=============================================================================
