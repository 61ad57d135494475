------------------------------ MODULE Deposits ------------------------------
(***************************************************************************)
(* The review of deposit requests, by customers and by agents for          *)
(* themselves.  Both decisions lock the request and read it again.         *)
(***************************************************************************)
EXTENDS Books

CONSTANTS Deposits,        \* DepositRequest rows
          AgentDeposits,   \* those with source AGENT_SELF
          DepositVa,       \* [Deposits -> Vas]: the depositor's virtual account
          DepositSum       \* [Deposits -> amount]

ASSUME DepositParameters ==
    /\ AgentDeposits \subseteq Deposits
    /\ DepositVa \in [Deposits -> Vas]
    /\ DepositSum \in [Deposits -> Nat \ {0}]

VARIABLES deposit,    \* [Deposits -> status]
          credits     \* [Deposits -> CREDIT entries with source DEPOSIT]

depositVars == <<deposit, credits>>

DepositStatuses == {"PENDING", "APPROVED", "REJECTED"}
DepositSteps == {"credit"}

DepositsTypeOK ==
    /\ deposit \in [Deposits -> DepositStatuses]
    /\ credits \in [Deposits -> Nat]

DepositsInit ==
    /\ deposit = [d \in Deposits |-> "PENDING"]
    /\ credits = [d \in Deposits |-> 0]

-----------------------------------------------------------------------------
\* A variant with a bug: the review takes no lock.
NeverLocked(d) == FALSE

ReviewLocked(d) == Locked(d, {"credit"})

\* approve_deposit locks the request, chooses the account to credit and looks
\* for an entry, without a lock on the account.  An agent without a usable
\* account is approved and gets nothing; for a customer it is an error, and the
\* request stays PENDING.
StartApproval(w, d) ==
    /\ ~ ReviewLocked(d)
    /\ deposit[d] = "PENDING"
    /\ CustomerVa(DepositVa[d])
    /\ d \in AgentDeposits => AgentVa(DepositVa[d])
    /\ Enter(w, "credit", d, credits[d])
    /\ UNCHANGED <<nostro, va, recharged, overlapped, admin, depositVars>>

ApproveUncredited(d) ==
    /\ ~ ReviewLocked(d)
    /\ deposit[d] = "PENDING"
    /\ d \in AgentDeposits
    /\ ~ AgentVa(DepositVa[d])
    /\ deposit' = [deposit EXCEPT ![d] = "APPROVED"]
    /\ UNCHANGED <<bookVars, credits>>

\* post_va_entry, CREDIT, source DEPOSIT, unless an entry was found.  What the
\* virtual account has become since it was chosen is not asked.
Credit(d, found) ==
    IF found > 0 THEN UNCHANGED <<nostro, va, credits>>
    ELSE /\ PostVa(DepositVa[d], DepositSum[d])
         /\ credits' = [credits EXCEPT ![d] = @ + 1]

FinishApproval(w) ==
    LET d == job[w].on
    IN  /\ job[w].at = "credit"
        /\ Credit(d, job[w].seen)
        /\ deposit' = [deposit EXCEPT ![d] = "APPROVED"]
        /\ Return(w)
        /\ UNCHANGED <<recharged, overlapped, admin>>

RejectDeposit(d) ==
    /\ ~ ReviewLocked(d)
    /\ deposit[d] = "PENDING"
    /\ deposit' = [deposit EXCEPT ![d] = "REJECTED"]
    /\ UNCHANGED <<bookVars, credits>>

DepositHandlers ==
    \/ \E w \in Workers, d \in Deposits : StartApproval(w, d)
    \/ \E d \in Deposits : ApproveUncredited(d) \/ RejectDeposit(d)
    \/ \E w \in Workers : FinishApproval(w)
=============================================================================
