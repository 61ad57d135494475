---------------------------- MODULE MCOrderFunds ----------------------------
(***************************************************************************)
(* OrderFunds with two workers and two refunds.  An amount of 2 lets the   *)
(* refunds be in full or in part; the float lets the account cover a       *)
(* second debit, so that what stops one is the code and not the balance.   *)
(***************************************************************************)
EXTENDS OrderFunds, TLC

Symmetry == Permutations(Workers) \cup Permutations(Refunds)

\* Bounds.  An order whose collection found no account has one refund; an order
\* debited twice is not followed further; one refund at most is in full, and
\* one is requested at a time (MCOverRefund has two).
OneRefundUnbooked ==
    unbooked => Cardinality({f \in Refunds : refund[f].status # "NONE"}) <= 1

FewDebits == entries.settlement <= 1

FewRefunds ==
    /\ \E f \in Refunds : refund[f].amount < Amount
    /\ Cardinality({w \in Workers : job[w].at = "create"}) <= 1
=============================================================================
