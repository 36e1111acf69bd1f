----------------------------- MODULE MCFairness -----------------------------
(***************************************************************************)
(* Small instances of Fairness for TLC.                                    *)
(***************************************************************************)
EXTENDS Fairness

CONSTANTS hi, lo, wide  \* two exclusive work items and one with two replicas

Urgent == [i \in Item |-> IF i = hi THEN 2 ELSE 0]
Widths == [i \in Item |-> IF i = wide THEN 2 ELSE 1]

\* Every item in one class, which the policy does not list.
OneClass == [i \in Item |-> "default"]
NoWeights == [c \in {} |-> 1]

\* All items are offered, or all but the widest.
AllOrNarrow == {Item, Item \ {wide}}

=============================================================================
