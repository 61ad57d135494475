----------------------------- MODULE MCTreasury -----------------------------
(***************************************************************************)
(* Treasury with two workers: a customer and an agent, each with a nostro  *)
(* account and a virtual account under it, a transfer from the agent's to  *)
(* the other and one of a negative sum the other way, which takes as much, *)
(* a deposit by each, and a disbursement of all the agent has at first.    *)
(***************************************************************************)
EXTENDS Treasury, TLC

CONSTANTS pool, agency, customerVa, agentVa, t1, t2, dCustomer, dAgent, b1

MCAccounts == {pool, agency}
MCVas == {customerVa, agentVa}
MCMaster == customerVa :> pool @@ agentVa :> agency
MCSubjects == {t1, t2, dCustomer, dAgent, b1}
MCOpening == pool :> 0 @@ agency :> 1 @@ customerVa :> 0 @@ agentVa :> 1
MCFormBalances == {-1}
MCFrom == t1 :> agency @@ t2 :> pool
MCTo == t1 :> pool @@ t2 :> agency
MCTransferSum == t1 :> 1 @@ t2 :> -1
MCDepositVa == dCustomer :> customerVa @@ dAgent :> agentVa
MCDepositSum == dCustomer :> 1 @@ dAgent :> 1
MCPayoutSum == b1 :> 1

\* Two of the five requests are still open, the negative transfer not with a
\* deposit; the others were rejected.
OpenPairs ==
    /\ BooksInit
    /\ \E open \in SUBSET Subjects :
           /\ Cardinality(open) = 2
           /\ t2 \in open => open \cap Deposits = {}
           /\ transfer = [x \in Transfers |-> IF x \in open THEN "PENDING" ELSE "FAILED"]
           /\ deposit = [d \in Deposits |-> IF d \in open THEN "PENDING" ELSE "REJECTED"]
           /\ disb = [x \in Disbursements |->
                         IF x \in open THEN "PENDING_FIRST_APPROVAL" ELSE "REJECTED"]
    /\ moved = [x \in Transfers |-> 0]
    /\ shifted = [x \in Transfers |-> 0]
    /\ credits = [d \in Deposits |-> 0]
    /\ approvals = [x \in Disbursements |-> NoApprovals]
    /\ paid = [x \in Disbursements |-> 0]
    /\ debits = [x \in Disbursements |-> 0]
    /\ disturbed = {}

\* While a disbursement or the negative transfer is open, operators do one thing
\* at most, and nothing while a disbursement and a transfer both are.
Disbursing == \E x \in Disbursements : disb[x] # "REJECTED"
Transferring == \E x \in Transfers : transfer[x] # "FAILED"

MCNext ==
    /\ Next
    /\ (Disbursing \/ transfer[t2] # "FAILED")' => admin' <= 1
    /\ (Disbursing /\ Transferring)' => admin' = 0

MCSpec == OpenPairs /\ [][MCNext]_vars

Symmetry == Permutations(Workers) \cup Permutations(Principals)
=============================================================================
