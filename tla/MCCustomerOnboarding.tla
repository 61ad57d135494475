----------------------- MODULE MCCustomerOnboarding -----------------------
(***************************************************************************)
(* Customer onboarding with one user, an established merchant and a row    *)
(* for one more, and two workers.  A second new row, m3, is there for a    *)
(* user who would get a second merchant.                                   *)
(***************************************************************************)
EXTENDS CustomerOnboarding, TLC

CONSTANTS m1, m2, m3

\* Handlers of several steps are run while the user has not submitted or is
\* approved, and of the user's merchant only its KYC is submitted again; its
\* product stays.  What the user does touches no row of the established
\* merchant, and comes before all that happens to that.
Untouched ==
    /\ merchant[m1] = [NewRow EXCEPT !.status = "ACTIVE", !.licence = "valid"]
    /\ kyc[m1] = "APPROVED" /\ product[m1] /\ m1 \notin unguarded

MCNext ==
    /\ Next
    /\ merchant'[m3] # merchant[m3] => \E u \in Users : opened[u] > 0 /\ user'[u] # user[u]
    /\ product'[m2] = (product[m2] \/ kyc'[m2] = "APPROVED")
    /\ \A w \in Workers : job'[w].on = m2 => job'[w].at \in KycSteps
    /\ job' # job => \A u \in Users : user[u].status \in {"none", "approved"}
    /\ user' # user => Untouched /\ \A w \in Workers : job[w] = Idle

MCSpec == Init /\ [][MCNext]_vars /\ Fairness
=============================================================================
