---------------------------- MODULE MCSettlement ----------------------------
(***************************************************************************)
(* Settlement with an order of each of two books, two runs of the job and  *)
(* one operator.                                                           *)
(***************************************************************************)
EXTENDS Settlement, TLC

CONSTANTS o1, o2, x, y

MCOrders == {o1, o2}
MCBooks == {x, y}
MCBookOf == (o1 :> x) @@ (o2 :> y)

\* Runs are alike, and so are the two orders when their books change with them.
Swap == (o1 :> o2) @@ (o2 :> o1) @@ (x :> y) @@ (y :> x)
Symmetry == Permutations(Runs) \cup {Swap}

\* A bound: refunds are asked for one of the orders, with one run of the job.
OneInRefund ==
    /\ Cardinality(refunds) <= 1
    /\ refunds # {} => \E j \in Runs : job[j].at = "new"
=============================================================================
