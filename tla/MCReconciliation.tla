-------------------------- MODULE MCReconciliation --------------------------
(***************************************************************************)
(* Reconciliation of statements and days of at most two items each, and    *)
(* the resolution of lists of up to two differences by two workers, with   *)
(* one application, one account, and a write-off of a merchant that has    *)
(* the account or of one that has none.                                    *)
(***************************************************************************)
EXTENDS Reconciliation, TLC

CONSTANTS pool, a1, x1, x2, d1, d2, d3, d4

MCAccounts == {pool}
MCVas == {}
MCMaster == << >>
MCOpening == pool :> 1
MCDifferences == <<d1, d2, d3, d4>>
MCSubjects == {d1, d2, d3, d4, a1, x1, x2}
MCWriteOffAccount == x1 :> pool @@ x2 :> "none"
MCWriteOffSums == {-1, 1}

\* The lists that operators take up: one difference of the smallest amounts,
\* or one line the bank alone has and one order the platform alone has.
Interesting ==
    \/ /\ Len(diff) = 1
       /\ \/ diff[1].bank + diff[1].platform <= 2
          \/ diff[1].bank = 2 /\ diff[1].platform = 1
    \/ /\ Len(diff) = 2
       /\ {<<diff[k].bank, diff[k].platform>> : k \in 1 .. 2} = {<<1, 0>>, <<0, 1>>}

\* The applications and the write-off that are not contested are handled side
\* by side; what becomes of a contested row, and the write-off of a merchant
\* without an account, are tried on their own.
Rows == {a \in Applications : app[a].status # "none"}
        \cup {x \in WriteOffs : writeOff[x].status # "none"}
Alone == contested \cup (Rows \cap {x2}) # {} => Cardinality(Rows) = 1

\* Nothing but the task runs until it ends; the write-off and applications made
\* by hand are of a day on which everything matched, and applications are
\* decided when one difference at most is listed.
MCNext ==
    \/ Task
    \/ /\ run = "done" /\ batch = "MATCHED"
       /\ \/ FileByHand
          \/ AdjustHandlers /\ UNCHANGED <<taskVars, diffVars>>
       /\ Alone'
    \/ Interesting /\ DiffHandlers
    \/ /\ Interesting /\ Len(diff) = 1
       /\ \/ AppHandlers /\ UNCHANGED <<taskVars, diffVars>>
          \/ \E w \in Workers : AbandonAdjustment(w) /\ UNCHANGED <<taskVars, diffVars>>

MCSpec == Init /\ [][MCNext]_vars

Symmetry == Permutations(Workers) \cup Permutations(Txns)
=============================================================================
