------------------------ MODULE CustomerOnboarding ------------------------
(***************************************************************************)
(* Customers from their first submission to an active merchant, and what   *)
(* becomes of the merchant afterwards.  Submissions and reviews lock the   *)
(* user and the submission, so each of them is one step; the approval runs *)
(* review_kyc in its own transaction.                                      *)
(***************************************************************************)
EXTENDS MerchantLifecycle

CONSTANTS Users,            \* EndUser rows with the role of a customer
          MaxSubmissions    \* bound: submissions of all users

ASSUME OnboardingParameters == MaxSubmissions \in Nat

VARIABLES user,          \* [Users -> onboarding status, the agent's review and
                         \*  the default merchant]
          opened,        \* [Users -> merchants created for the user]
          endorsed,      \* users whose last submission needs no agent, or has
                         \* been approved by one
          submissions    \* number of submissions so far

userVars == <<user, opened, endorsed, submissions>>
vars == <<merchantVars, userVars>>

OnboardingStatuses == {"none", "pending", "under_review", "approved", "rejected"}
AgentReviews == {"NONE", "PENDING", "APPROVED", "REJECTED"}
UserRow == [status : OnboardingStatuses, agentReview : AgentReviews,
            merchant : Merchants \cup {"none"}]

Init ==
    /\ MerchantInit
    /\ user = [u \in Users |-> [status |-> "none", agentReview |-> "NONE", merchant |-> "none"]]
    /\ opened = [u \in Users |-> 0]
    /\ endorsed = {}
    /\ submissions = 0

-----------------------------------------------------------------------------
\* A variant with a bug: the review is emptied.
AgentReviewEmpty(u, withCode) == IF withCode THEN "PENDING" ELSE ""

\* What a submission makes of the agent's review.
AgentReviewOf(u, withCode) == IF withCode THEN "PENDING" ELSE "NONE"

\* submit_onboarding asks nothing of the status the user has.
Submit(u, withCode) ==
    /\ submissions < MaxSubmissions
    /\ submissions' = submissions + 1
    /\ user' = [user EXCEPT ![u].status = "pending",
                            ![u].agentReview = AgentReviewOf(u, withCode)]
    /\ endorsed' = IF withCode THEN endorsed \ {u} ELSE endorsed \cup {u}
    /\ UNCHANGED <<merchantVars, opened>>

\* _require_ops_reviewable.
AwaitsAgent(u) == user[u].agentReview = "PENDING"

StartReview(u) ==
    /\ ~ AwaitsAgent(u)
    /\ user[u].status = "pending"
    /\ user' = [user EXCEPT ![u].status = "under_review"]
    /\ UNCHANGED <<merchantVars, opened, endorsed, submissions>>

\* review_agent_kyc.
ReviewByAgent(u) ==
    /\ AwaitsAgent(u)
    /\ \/ /\ user' = [user EXCEPT ![u].agentReview = "APPROVED"]
          /\ endorsed' = endorsed \cup {u}
       \/ /\ user' = [user EXCEPT ![u].agentReview = "REJECTED", ![u].status = "rejected"]
          /\ UNCHANGED endorsed
    /\ UNCHANGED <<merchantVars, opened, submissions>>

-----------------------------------------------------------------------------
ReviewableUser(u) == user[u].status \in {"pending", "under_review"} /\ ~ AwaitsAgent(u)

RejectUser(u) ==
    /\ ReviewableUser(u)
    /\ user' = [user EXCEPT ![u].status = "rejected"]
    /\ UNCHANGED <<merchantVars, opened, endorsed, submissions>>

\* A variant with a bug: a user who has a merchant gets another.
NeverBound(u) == TRUE

Unbound(u) == user[u].merchant = "none"

\* _create_merchant_from_onboarding, and review_kyc of the new merchant: the
\* licence of the submission must be valid, or the approval is rolled back.
\* The transaction's two writes to the merchant tell two statuses.
ApproveNew(u) ==
    /\ ReviewableUser(u)
    /\ Unbound(u)
    /\ \E m \in Merchants :
          /\ merchant[m].status = "none"
          /\ merchant' = [merchant EXCEPT ![m].status = "ACTIVE", ![m].licence = "valid"]
          /\ told' = [told EXCEPT ![m] = "ACTIVE"]
          /\ kyc' = [kyc EXCEPT ![m] = "APPROVED"]
          /\ product' = [product EXCEPT ![m] = TRUE]
          /\ user' = [user EXCEPT ![u].status = "approved", ![u].merchant = m]
    /\ opened' = [opened EXCEPT ![u] = @ + 1]
    /\ UNCHANGED <<gaps, overlapped, unguarded, job, overdue, ops, endorsed, submissions>>

\* A user who has a merchant: its KYC is approved in the same transaction if it
\* is PENDING, with the risk level MEDIUM, and left alone if not.
ApproveBound(u) ==
    LET m == user[u].merchant
    IN  /\ ReviewableUser(u)
        /\ ~ Unbound(u)
        /\ \/ /\ kyc[m] = "PENDING"
              /\ ApproveKyc(m, FALSE)
              /\ Touch(m)
           \/ kyc[m] # "PENDING" /\ UNCHANGED <<merchant, told, gaps, kyc, product, unguarded>>
        /\ user' = [user EXCEPT ![u].status = "approved"]
        /\ UNCHANGED <<overlapped, job, overdue, ops, opened, endorsed, submissions>>

Onboarding ==
    \E u \in Users :
        \/ \E withCode \in BOOLEAN : Submit(u, withCode)
        \/ StartReview(u) \/ ReviewByAgent(u) \/ RejectUser(u)
        \/ ApproveNew(u) \/ ApproveBound(u)

Next ==
    \/ Onboarding
    \/ MerchantHandlers /\ UNCHANGED userVars

\* The scheduler starts the licence job again and again, the job goes on, and
\* no transaction stays open for ever.
Fairness ==
    /\ WF_vars(LicenceJob /\ UNCHANGED userVars)
    /\ \A w \in Workers : WF_vars(Proceed(w) /\ UNCHANGED userVars)

Spec == Init /\ [][Next]_vars /\ Fairness

-----------------------------------------------------------------------------
\* Every variable has its type.
TypeOK ==
    /\ MerchantTypeOK
    /\ user \in [Users -> UserRow]
    /\ opened \in [Users -> Nat]
    /\ endorsed \subseteq Users
    /\ submissions \in Nat

\* The status events of a merchant are a chain that ends in its status, unless
\* a profile save wrote back a status that had changed between the guard in
\* save and the update.
EventsExplainStatus ==
    \A m \in Merchants \ overlapped : m \notin gaps /\ told[m] = merchant[m].status

\* A merchant that is ACTIVE has an approved KYC and is neither blocked nor
\* sanctioned, unless two handlers were at it, one was left half done, or the
\* profile form restricted it: whatever restricts a merchant suspends it, and
\* nothing restores it before its KYC is approved again.
ActiveCleared ==
    \A m \in Merchants \ unguarded :
        merchant[m].status = "ACTIVE" /\ ~ Busy(m)
            => kyc[m] = "APPROVED" /\ ~ merchant[m].blocked /\ ~ merchant[m].sanctioned

\* However often a user submits again, and operations approve again, the user
\* has one merchant; and nobody is approved whose last submission names an
\* agent who has not approved it.
ApprovedOnce ==
    \A u \in Users :
        /\ opened[u] = IF user[u].merchant = "none" THEN 0 ELSE 1
        /\ user[u].status = "approved" => user[u].merchant # "none" /\ u \in endorsed

\* A CLOSED merchant stays CLOSED, unless a profile save overlapped its closing.
ClosedForGood ==
    [][\A m \in Merchants \ overlapped' :
           merchant[m].status = "CLOSED" => merchant'[m].status = "CLOSED"]_vars

\* An ACTIVE merchant whose licence has expired does not stay so: it is
\* suspended, closed, or its licence renewed, though a run of the licence job
\* ends at the first merchant that was closed since it was listed.
OverdueSuspended == \A m \in Merchants : IsOverdue(m) ~> ~ IsOverdue(m)
=============================================================================
