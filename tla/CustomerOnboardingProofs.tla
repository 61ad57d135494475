---------------------- MODULE CustomerOnboardingProofs ----------------------
(***************************************************************************)
(* CustomerOnboarding, for any customers, merchants and workers: types,    *)
(* one merchant per customer, the chain of events of a merchant, closed    *)
(* merchants, and what an active merchant has.                             *)
(***************************************************************************)
EXTENDS CustomerOnboarding, TLAPS

\* A row that is not there has no restrictions.  A job names a merchant that is
\* there, and was when it was read; whoever activates holds one alone that may
\* be activated.
RowsInv ==
    \A m \in Merchants :
        merchant[m].status = "none" => ~ merchant[m].blocked /\ ~ merchant[m].sanctioned

JobsInv ==
    \A w \in Workers :
        /\ job[w].at = "idle" => job[w].on = "none"
        /\ job[w].at # "idle" =>
              /\ job[w].on \in Merchants
              /\ job[w].seen.status # "none"
              /\ merchant[job[w].on].status # "none"

LocksInv ==
    /\ \A w \in Workers :
          job[w].at = "activate" => merchant[job[w].on].status \in {"PENDING", "SUSPENDED"}
    /\ \A u, w \in Workers :
          job[u].at = "activate" /\ job[w].at = "activate" /\ job[u].on = job[w].on => u = w

BaseInv == TypeOK /\ RowsInv /\ JobsInv /\ LocksInv

\* What a step does to a merchant: it does not vanish, a status that an
\* activation relies on stays, the events go on telling the status, and what is
\* closed stays closed.
RowStep(m) ==
    /\ merchant[m].status # "none" => merchant'[m].status # "none"
    /\ merchant'[m].status = "none" =>
          /\ merchant'[m].blocked = merchant[m].blocked
          /\ merchant'[m].sanctioned = merchant[m].sanctioned
    /\ Holding(m) /\ Holding(m)' => merchant'[m].status = merchant[m].status
    /\ m \in overlapped => m \in overlapped'
    /\ m \notin overlapped' /\ m \notin gaps /\ told[m] = merchant[m].status
          => m \notin gaps' /\ told'[m] = merchant'[m].status
    /\ m \notin overlapped' /\ merchant[m].status = "CLOSED" => merchant'[m].status = "CLOSED"

\* What a step does to the job of the one worker it is a step of.
JobStep(w) ==
    /\ \A u \in Workers : u # w => job'[u] = job[u]
    /\ \/ job'[w].at = "idle" /\ job'[w].on = "none"
       \/ /\ job[w].at # "idle" /\ job'[w].at \notin {"idle", "activate"}
          /\ job'[w].on = job[w].on /\ job'[w].seen = job[w].seen
       \/ /\ job[w].at = "idle" /\ job'[w].at # "idle"
          /\ job'[w].on \in Merchants /\ job'[w].seen = merchant[job'[w].on]
          /\ merchant[job'[w].on].status # "none"
          /\ job'[w].at = "activate" =>
                /\ ~ Holding(job'[w].on)
                /\ merchant'[job'[w].on].status \in {"PENDING", "SUSPENDED"}

JobsStep == job' = job \/ \E w \in Workers : JobStep(w)

Effect == TypeOK' /\ JobsStep /\ \A m \in Merchants : RowStep(m)

-----------------------------------------------------------------------------
LEMMA Entering ==
    ASSUME BaseInv, NEW w \in Workers, NEW s \in MerchantSteps, NEW m \in Merchants,
           Enter(w, s, m)
    PROVE  /\ job' \in [Workers -> Job] /\ job[w].at = "idle"
           /\ job'[w].at = s /\ job'[w].on = m /\ job'[w].seen = merchant[m]
           /\ \A u \in Workers : u # w => job'[u] = job[u]
  <1>1. job \in [Workers -> Job] /\ merchant[m] \in MerchantRow
    BY DEF BaseInv, TypeOK, MerchantTypeOK
  <1>2. [at |-> s, on |-> m, seen |-> merchant[m]] \in Job
    BY <1>1 DEF Job
  <1>3. job' = [job EXCEPT ![w] = [at |-> s, on |-> m, seen |-> merchant[m]]]
        /\ job[w].at = "idle"
    BY DEF Enter
  <1>. QED
    BY <1>1, <1>2, <1>3

LEMMA Going ==
    ASSUME BaseInv, NEW w \in Workers, NEW s \in MerchantSteps, Go(w, s)
    PROVE  /\ job' \in [Workers -> Job]
           /\ job'[w].at = s /\ job'[w].on = job[w].on /\ job'[w].seen = job[w].seen
           /\ \A u \in Workers : u # w => job'[u] = job[u]
  <1>1. job \in [Workers -> Job] /\ job[w] \in Job
    BY DEF BaseInv, TypeOK, MerchantTypeOK
  <1>2. [job[w] EXCEPT !.at = s] \in Job
    BY <1>1 DEF Job
  <1>3. job' = [job EXCEPT ![w] = [job[w] EXCEPT !.at = s]]
    BY <1>1 DEF Go
  <1>4. job'[w] = [job[w] EXCEPT !.at = s]
    BY <1>1, <1>3
  <1>5. job'[w].at = s /\ job'[w].on = job[w].on /\ job'[w].seen = job[w].seen
    BY <1>1, <1>4 DEF Job
  <1>. QED
    BY <1>1, <1>2, <1>3, <1>5

LEMMA Returning ==
    ASSUME BaseInv, NEW w \in Workers, Return(w)
    PROVE  /\ job' \in [Workers -> Job]
           /\ job'[w].at = "idle" /\ job'[w].on = "none"
           /\ \A u \in Workers : u # w => job'[u] = job[u]
  <1>1. job \in [Workers -> Job]
    BY DEF BaseInv, TypeOK, MerchantTypeOK
  <1>2. NewRow \in MerchantRow
    BY DEF NewRow, MerchantRow, Licences
  <1>3. Idle \in Job /\ Idle.at = "idle" /\ Idle.on = "none"
    BY <1>2 DEF Idle, Job, MerchantSteps
  <1>. QED
    BY <1>1, <1>3 DEF Return

LEMMA Entered ==
    ASSUME BaseInv, NEW w \in Workers, NEW s \in MerchantSteps \ {"idle"}, NEW m \in Merchants,
           Enter(w, s, m), merchant[m].status # "none",
           s = "activate" => ~ Holding(m) /\ merchant'[m].status \in {"PENDING", "SUSPENDED"}
    PROVE  JobsStep /\ job' \in [Workers -> Job]
  BY Entering DEF JobsStep, JobStep

LEMMA Gone ==
    ASSUME BaseInv, NEW w \in Workers, NEW s \in MerchantSteps \ {"idle", "activate"}, Go(w, s),
           job[w].at # "idle"
    PROVE  JobsStep /\ job' \in [Workers -> Job]
  BY Going DEF JobsStep, JobStep

LEMMA Returned ==
    ASSUME BaseInv, NEW w \in Workers, Return(w)
    PROVE  JobsStep /\ job' \in [Workers -> Job]
  BY Returning DEF JobsStep, JobStep

\* The merchant a job is about.
LEMMA OnMerchant ==
    ASSUME BaseInv, NEW w \in Workers, job[w].at # "idle"
    PROVE  /\ job[w].on \in Merchants /\ merchant[job[w].on] \in MerchantRow
           /\ merchant[job[w].on].status # "none"
           /\ job[w].seen \in MerchantRow /\ job[w].seen.status # "none"
  <1>1. job[w] \in Job /\ merchant \in [Merchants -> MerchantRow]
    BY DEF BaseInv, TypeOK, MerchantTypeOK
  <1>. QED
    BY <1>1 DEF BaseInv, JobsInv, Job

\* What transition writes.
LEMMA Writing ==
    ASSUME BaseInv, NEW m \in Merchants, NEW row \in MerchantRow, Write(m, row),
           row.status # "none",
           Holding(m) /\ Holding(m)' => row.status = merchant[m].status,
           merchant[m].status = "CLOSED" => row.status = "CLOSED",
           overlapped' = overlapped
    PROVE  /\ merchant' \in [Merchants -> MerchantRow]
           /\ told' \in [Merchants -> Statuses \cup {"none"}]
           /\ gaps' \subseteq Merchants
           /\ merchant'[m] = row
           /\ \A x \in Merchants : x # m => merchant'[x] = merchant[x]
           /\ \A x \in Merchants : RowStep(x)
  <1>1. /\ merchant \in [Merchants -> MerchantRow]
        /\ told \in [Merchants -> Statuses \cup {"none"}] /\ gaps \subseteq Merchants
    BY DEF BaseInv, TypeOK, MerchantTypeOK
  <1>2. merchant' = [merchant EXCEPT ![m] = row]
    BY DEF Write
  <1>3. /\ merchant' \in [Merchants -> MerchantRow] /\ merchant'[m] = row
        /\ \A x \in Merchants : x # m => merchant'[x] = merchant[x]
    BY <1>1, <1>2
  <1>4. row.status \in Statuses \cup {"none"}
    BY DEF MerchantRow
  <1>5. /\ told' \in [Merchants -> Statuses \cup {"none"}] /\ gaps' \subseteq Merchants
        /\ told'[m] = IF row.status = merchant[m].status THEN told[m] ELSE row.status
        /\ told[m] = merchant[m].status => gaps' = gaps
        /\ \A x \in Merchants : x # m => told'[x] = told[x] /\ (x \in gaps' => x \in gaps)
    <2>1. CASE row.status = merchant[m].status
      BY <1>1, <2>1 DEF Write
    <2>2. CASE row.status # merchant[m].status
      <3>1. told' = [told EXCEPT ![m] = row.status]
            /\ gaps' = IF told[m] = merchant[m].status THEN gaps ELSE gaps \cup {m}
        BY <2>2 DEF Write
      <3>. QED
        BY <1>1, <1>4, <2>2, <3>1
    <2>. QED
      BY <2>1, <2>2
  <1>6. RowStep(m)
    BY <1>3, <1>5 DEF RowStep
  <1>7. \A x \in Merchants : x # m => RowStep(x)
    BY <1>3, <1>5 DEF RowStep
  <1>. QED
    BY <1>3, <1>5, <1>6, <1>7

LEMMA Changing ==
    ASSUME BaseInv, NEW m \in Merchants, NEW s \in Statuses, Change(m, s),
           Holding(m) /\ Holding(m)' => s = merchant[m].status,
           merchant[m].status = "CLOSED" => s = "CLOSED",
           overlapped' = overlapped
    PROVE  /\ merchant' \in [Merchants -> MerchantRow]
           /\ told' \in [Merchants -> Statuses \cup {"none"}]
           /\ gaps' \subseteq Merchants
           /\ merchant'[m].status = s
           /\ merchant'[m].blocked = merchant[m].blocked
           /\ merchant'[m].sanctioned = merchant[m].sanctioned
           /\ \A x \in Merchants : x # m => merchant'[x] = merchant[x]
           /\ \A x \in Merchants : RowStep(x)
  <1>. DEFINE row == [merchant[m] EXCEPT !.status = s]
  <1>1. merchant[m] \in MerchantRow
    BY DEF BaseInv, TypeOK, MerchantTypeOK
  <1>2. /\ row \in MerchantRow /\ row.status = s
        /\ row.blocked = merchant[m].blocked /\ row.sanctioned = merchant[m].sanctioned
    BY <1>1 DEF MerchantRow
  <1>3. Write(m, row) /\ s # "none"
    BY DEF Change, Statuses
  <1>4. /\ merchant' \in [Merchants -> MerchantRow]
        /\ told' \in [Merchants -> Statuses \cup {"none"}]
        /\ gaps' \subseteq Merchants
        /\ merchant'[m] = row
        /\ \A x \in Merchants : x # m => merchant'[x] = merchant[x]
        /\ \A x \in Merchants : RowStep(x)
    BY <1>2, <1>3, Writing
  <1>. QED
    BY <1>2, <1>4

\* A step that writes no status.
LEMMA Quiet ==
    ASSUME UNCHANGED <<told, gaps, overlapped>>,
           \A x \in Merchants :
               /\ merchant'[x].status = merchant[x].status
               /\ merchant[x].status = "none" =>
                     /\ merchant'[x].blocked = merchant[x].blocked
                     /\ merchant'[x].sanctioned = merchant[x].sanctioned
    PROVE  \A x \in Merchants : RowStep(x)
  BY DEF RowStep

LEMMA Typed ==
    ASSUME BaseInv
    PROVE  /\ merchant \in [Merchants -> MerchantRow] /\ product \in [Merchants -> BOOLEAN]
           /\ kyc \in [Merchants -> KycStatuses]
           /\ told \in [Merchants -> Statuses \cup {"none"}]
           /\ gaps \subseteq Merchants /\ overlapped \subseteq Merchants
           /\ unguarded \subseteq Merchants /\ job \in [Workers -> Job]
           /\ overdue \subseteq Merchants /\ ops \in Nat
           /\ user \in [Users -> UserRow] /\ opened \in [Users -> Nat]
           /\ endorsed \subseteq Users /\ submissions \in Nat
  BY DEF BaseInv, TypeOK, MerchantTypeOK

LEMMA Rows ==
    ASSUME BaseInv
    PROVE  /\ \A m \in Merchants : merchant[m] \in MerchantRow
           /\ \A u \in Users : user[u] \in UserRow
  BY Typed

LEMMA Touching ==
    ASSUME BaseInv, NEW m \in Merchants, Touch(m)
    PROVE  unguarded' \subseteq Merchants
  BY Typed DEF Touch

LEMMA Operating ==
    ASSUME BaseInv, Operate
    PROVE  ops' \in Nat
  BY Typed DEF Operate

\* A handler of a merchant leaves the users as they are.
LEMMA Assembled ==
    ASSUME BaseInv, UNCHANGED userVars, JobsStep, \A m \in Merchants : RowStep(m),
           merchant' \in [Merchants -> MerchantRow], product' \in [Merchants -> BOOLEAN],
           kyc' \in [Merchants -> KycStatuses],
           told' \in [Merchants -> Statuses \cup {"none"}],
           gaps' \subseteq Merchants, overlapped' \subseteq Merchants,
           unguarded' \subseteq Merchants, job' \in [Workers -> Job],
           overdue' \subseteq Merchants, ops' \in Nat
    PROVE  Effect
  BY Typed DEF Effect, TypeOK, MerchantTypeOK, userVars

LEMMA JobsStay ==
    ASSUME BaseInv, UNCHANGED job
    PROVE  JobsStep /\ job' \in [Workers -> Job]
  BY Typed DEF JobsStep

LEMMA StaysClosed ==
    ASSUME NEW m \in Merchants, NEW to, Allowed(m, to)
    PROVE  merchant[m].status # "CLOSED"
  BY DEF Allowed, AllowedTransitions

LEMMA InitBase ==
    Init => BaseInv /\ EventsExplainStatus
  <1>. SUFFICES ASSUME Init PROVE BaseInv /\ EventsExplainStatus
    OBVIOUS
  <1>. USE MerchantParameters DEF Init, MerchantInit
  <1>1. NewRow \in MerchantRow /\ NewRow.status = "none" /\ ~ NewRow.blocked /\ ~ NewRow.sanctioned
    BY DEF NewRow, MerchantRow, Licences
  <1>2. [NewRow EXCEPT !.status = "ACTIVE", !.licence = "valid"] \in MerchantRow
    BY DEF NewRow, MerchantRow, Licences, Statuses
  <1>3. merchant \in [Merchants -> MerchantRow]
    BY <1>1, <1>2
  <1>4. \A m \in Merchants : merchant[m].status \in Statuses \cup {"none"}
    BY <1>3 DEF MerchantRow
  <1>5. Idle \in Job /\ Idle.at = "idle" /\ Idle.on = "none"
    BY <1>1 DEF Idle, Job, MerchantSteps
  <1>6. job \in [Workers -> Job] /\ \A w \in Workers : job[w].at = "idle" /\ job[w].on = "none"
    BY <1>5
  <1>7. told \in [Merchants -> Statuses \cup {"none"}]
    BY <1>4
  <1>8. MerchantTypeOK
    BY <1>3, <1>6, <1>7 DEF MerchantTypeOK, KycStatuses
  <1>9. TypeOK
    BY <1>8 DEF TypeOK, UserRow, OnboardingStatuses, AgentReviews
  <1>10. RowsInv
    BY <1>1 DEF RowsInv, NewRow
  <1>11. JobsInv /\ LocksInv
    BY <1>6 DEF JobsInv, LocksInv
  <1>12. EventsExplainStatus
    BY DEF EventsExplainStatus
  <1>. QED
    BY <1>9, <1>10, <1>11, <1>12 DEF BaseInv

\* What Effect makes of the invariant.
LEMMA BaseStep ==
    ASSUME BaseInv, Effect
    PROVE  BaseInv' /\ (EventsExplainStatus => EventsExplainStatus')
  <1>. USE DEF Effect
  <1>1. RowsInv'
    BY DEF RowsInv, RowStep, BaseInv
  <1>2. JobsInv'
    <2>. SUFFICES ASSUME NEW u \in Workers
                  PROVE  /\ job'[u].at = "idle" => job'[u].on = "none"
                         /\ job'[u].at # "idle" =>
                               /\ job'[u].on \in Merchants
                               /\ job'[u].seen.status # "none"
                               /\ merchant'[job'[u].on].status # "none"
      BY DEF JobsInv
    <2>1. CASE job'[u] = job[u]
      BY <2>1 DEF BaseInv, JobsInv, RowStep
    <2>2. CASE JobStep(u)
      <3>1. CASE job'[u].at = "idle" /\ job'[u].on = "none"
        BY <3>1
      <3>2. CASE /\ job[u].at # "idle" /\ job'[u].at # "idle"
                 /\ job'[u].on = job[u].on /\ job'[u].seen = job[u].seen
        BY <3>2, OnMerchant DEF RowStep
      <3>3. CASE /\ job'[u].on \in Merchants /\ job'[u].seen = merchant[job'[u].on]
                 /\ merchant[job'[u].on].status # "none" /\ job'[u].at # "idle"
        BY <3>3 DEF RowStep
      <3>. QED
        BY <2>2, <3>1, <3>2, <3>3 DEF JobStep
    <2>. QED
      BY <2>1, <2>2 DEF JobsStep, JobStep
  <1>3. LocksInv'
    <2>1. ASSUME NEW u \in Workers, job'[u] = job[u], job[u].at = "activate"
          PROVE  merchant'[job'[u].on].status \in {"PENDING", "SUSPENDED"}
      <3>1. job[u].on \in Merchants /\ merchant[job[u].on].status \in {"PENDING", "SUSPENDED"}
        BY <2>1, OnMerchant DEF BaseInv, LocksInv
      <3>2. Holding(job[u].on) /\ Holding(job[u].on)'
        BY <2>1 DEF Holding
      <3>. QED
        BY <2>1, <3>1, <3>2 DEF RowStep
    <2>2. CASE job' = job
      BY <2>1, <2>2 DEF BaseInv, LocksInv
    <2>3. ASSUME NEW w \in Workers, JobStep(w)
          PROVE  LocksInv'
      <3>1. CASE job'[w].at # "activate"
        BY <2>1, <2>3, <3>1 DEF JobStep, BaseInv, LocksInv
      <3>2. CASE job'[w].at = "activate"
        <4>1. ~ Holding(job'[w].on) /\ merchant'[job'[w].on].status \in {"PENDING", "SUSPENDED"}
          BY <2>3, <3>2 DEF JobStep
        <4>2. ASSUME NEW u \in Workers, u # w, job'[u].at = "activate"
              PROVE  job'[u].on # job'[w].on
          BY <2>3, <4>1, <4>2 DEF JobStep, Holding
        <4>. QED
          BY <2>1, <2>3, <4>1, <4>2 DEF JobStep, BaseInv, LocksInv
      <3>. QED
        BY <3>1, <3>2
    <2>. QED
      BY <2>2, <2>3 DEF JobsStep
  <1>4. EventsExplainStatus => EventsExplainStatus'
    BY DEF EventsExplainStatus, RowStep
  <1>. QED
    BY <1>1, <1>2, <1>3, <1>4 DEF BaseInv


\* The handlers, one by one.
LEMMA StopEffect ==
    ASSUME BaseInv, UNCHANGED userVars, NEW m \in Merchants,
           NEW to \in {"SUSPENDED", "CLOSED"}, Stop(m, to)
    PROVE  Effect
  <1>1. ~ Holding(m) /\ merchant[m].status # "CLOSED" /\ Change(m, to) /\ Touch(m) /\ Operate
    BY StaysClosed DEF Stop
  <1>2. UNCHANGED <<product, kyc, overlapped, job, overdue>>
    BY DEF Stop
  <1>3. to \in Statuses
    BY DEF Statuses
  <1>. QED
    BY <1>1, <1>2, <1>3, Changing, Touching, Operating, JobsStay, Typed, Assembled

LEMMA EnterEffect ==
    ASSUME BaseInv, UNCHANGED userVars, NEW w \in Workers, NEW m \in Merchants,
           NEW s \in MerchantSteps \ {"idle"}, Operate, Exists(m), Enter(w, s, m), Touch(m),
           s = "activate" => ~ Holding(m) /\ Allowed(m, "ACTIVE"),
           UNCHANGED <<merchant, product, kyc, told, gaps, overlapped, overdue>>
    PROVE  Effect
  <1>1. merchant[m].status # "none"
    BY DEF Exists
  <1>2. s = "activate" => ~ Holding(m) /\ merchant'[m].status \in {"PENDING", "SUSPENDED"}
    <2>1. merchant[m].status \in Statuses \cup {"none"}
      BY Rows DEF MerchantRow
    <2>. QED
      BY <2>1 DEF Allowed, AllowedTransitions, Statuses
  <1>. QED
    BY <1>1, <1>2, Entered, Quiet, Touching, Operating, Typed, Assembled

LEMMA ReadActivateEffect ==
    ASSUME BaseInv, UNCHANGED userVars, NEW w \in Workers, NEW m \in Merchants,
           ReadActivate(w, m)
    PROVE  Effect
  BY EnterEffect DEF ReadActivate, MerchantSteps

LEMMA ReadKycEffect ==
    ASSUME BaseInv, UNCHANGED userVars, NEW w \in Workers, NEW m \in Merchants, ReadKyc(w, m)
    PROVE  Effect
  <1>. DEFINE s == IF kyc[m] = "APPROVED" THEN "replaceKyc" ELSE "submitKyc"
  <1>1. s \in MerchantSteps \ {"idle"} /\ s # "activate"
    BY DEF MerchantSteps, KycSteps
  <1>2. /\ Operate /\ Exists(m) /\ Enter(w, s, m) /\ Touch(m)
        /\ UNCHANGED <<merchant, product, kyc, told, gaps, overlapped, overdue>>
    BY DEF ReadKyc
  <1>. HIDE DEF s
  <1>. QED
    BY <1>1, <1>2, EnterEffect

LEMMA ReadProfileEffect ==
    ASSUME BaseInv, UNCHANGED userVars, NEW w \in Workers, NEW m \in Merchants,
           ReadProfile(w, m)
    PROVE  Effect
  BY EnterEffect DEF ReadProfile, MerchantSteps

LEMMA ReadRestrictEffect ==
    ASSUME BaseInv, UNCHANGED userVars, NEW w \in Workers, NEW m \in Merchants,
           NEW s \in {"block", "sanction", "restrict"}, ReadRestrict(w, m, s)
    PROVE  Effect
  BY EnterEffect DEF ReadRestrict, MerchantSteps

LEMMA DestroyEffect ==
    ASSUME BaseInv, UNCHANGED userVars, NEW w \in Workers, NEW m \in Merchants, Destroy(w, m)
    PROVE  Effect
  <1>1. /\ Operate /\ merchant[m].status # "none" /\ ~ Holding(m) /\ Change(m, "CLOSED")
        /\ Enter(w, "delete", m) /\ Touch(m)
        /\ UNCHANGED <<product, kyc, overlapped, overdue>>
    BY DEF Destroy, Exists
  <1>2. "CLOSED" \in Statuses /\ "delete" \in MerchantSteps \ {"idle"} /\ "delete" # "activate"
    BY DEF Statuses, MerchantSteps
  <1>3. JobsStep /\ job' \in [Workers -> Job]
    BY <1>1, <1>2, Entered
  <1>. QED
    BY <1>1, <1>2, <1>3, Changing, Touching, Operating, Typed, Assembled

LEMMA CommitActivateEffect ==
    ASSUME BaseInv, UNCHANGED userVars, NEW w \in Workers, CommitActivate(w)
    PROVE  Effect
  <1>1. job[w].at = "activate"
    BY DEF CommitActivate
  <1>2. PICK m \in Merchants : m = job[w].on
    BY <1>1, OnMerchant
  <1>3. /\ Change(m, "ACTIVE") /\ Return(w)
        /\ UNCHANGED <<product, kyc, overlapped, unguarded, overdue, ops>>
    BY <1>2 DEF CommitActivate
  <1>4. merchant[m].status # "CLOSED"
    <2>1. merchant[job[w].on].status \in {"PENDING", "SUSPENDED"}
      BY <1>1 DEF BaseInv, LocksInv
    <2>. QED
      BY <1>2, <2>1
  <1>5. ~ Holding(m)'
    <2>1. \A u \in Workers : job[u].at = "activate" /\ job[u].on = m => u = w
      BY <1>1, <1>2 DEF BaseInv, LocksInv
    <2>. QED
      BY <1>3, <2>1, Returning DEF Holding
  <1>6. "ACTIVE" \in Statuses
    BY DEF Statuses
  <1>. QED
    BY <1>3, <1>4, <1>5, <1>6, Returned, Changing, Typed, Assembled

LEMMA LockKycEffect ==
    ASSUME BaseInv, UNCHANGED userVars, NEW w \in Workers, LockKyc(w)
    PROVE  Effect
  <1>. DEFINE s == IF job[w].at = "replaceKyc" /\ merchant[job[w].on].status = "ACTIVE"
                   THEN "commitKycSuspend" ELSE "commitKyc"
  <1>1. s \in MerchantSteps \ {"idle", "activate"}
    BY DEF MerchantSteps, KycSteps
  <1>2. /\ job[w].at # "idle" /\ Go(w, s)
        /\ UNCHANGED <<merchant, product, kyc, told, gaps, overlapped, unguarded, overdue, ops>>
    BY DEF LockKyc
  <1>. HIDE DEF s
  <1>3. JobsStep /\ job' \in [Workers -> Job]
    BY <1>1, <1>2, Gone
  <1>. QED
    BY <1>2, <1>3, Quiet, Typed, Assembled

LEMMA Unwritten ==
    ASSUME BaseInv, UNCHANGED overlapped, StayAsIs
    PROVE  /\ merchant' \in [Merchants -> MerchantRow]
           /\ told' \in [Merchants -> Statuses \cup {"none"}]
           /\ gaps' \subseteq Merchants
           /\ \A x \in Merchants : RowStep(x)
  BY Quiet, Typed DEF StayAsIs

LEMMA SuspendWrites ==
    ASSUME BaseInv, UNCHANGED overlapped, NEW m \in Merchants, ~ Holding(m),
           IF Suspendable(m) THEN Change(m, "SUSPENDED") ELSE StayAsIs
    PROVE  /\ merchant' \in [Merchants -> MerchantRow]
           /\ told' \in [Merchants -> Statuses \cup {"none"}]
           /\ gaps' \subseteq Merchants
           /\ \A x \in Merchants : RowStep(x)
  <1>1. "SUSPENDED" \in Statuses
    BY DEF Statuses
  <1>2. CASE Suspendable(m)
    <2>1. merchant[m].status # "CLOSED"
      BY <1>2, StaysClosed DEF Suspendable
    <2>. QED
      BY <1>1, <1>2, <2>1, Changing
  <1>3. CASE ~ Suspendable(m)
    BY <1>3, Unwritten
  <1>. QED
    BY <1>2, <1>3

LEMMA CommitKycEffect ==
    ASSUME BaseInv, UNCHANGED userVars, NEW w \in Workers, CommitKyc(w)
    PROVE  Effect
  <1>1. /\ job[w].at # "idle" /\ Return(w)
        /\ UNCHANGED <<product, overlapped, unguarded, overdue, ops>>
    BY DEF CommitKyc
  <1>2. PICK m \in Merchants : m = job[w].on
    BY <1>1, OnMerchant
  <1>3. \/ kyc' = [kyc EXCEPT ![m] = "PENDING"]
        \/ UNCHANGED kyc
    BY <1>2 DEF CommitKyc
  <1>4. kyc' \in [Merchants -> KycStatuses]
    BY <1>3, Typed DEF KycStatuses
  <1>5. \/ StayAsIs
        \/ /\ ~ Holding(m)
           /\ IF Suspendable(m) THEN Change(m, "SUSPENDED") ELSE StayAsIs
    BY <1>2 DEF CommitKyc
  <1>6. /\ merchant' \in [Merchants -> MerchantRow]
        /\ told' \in [Merchants -> Statuses \cup {"none"}]
        /\ gaps' \subseteq Merchants
        /\ \A x \in Merchants : RowStep(x)
    BY <1>1, <1>5, Unwritten, SuspendWrites
  <1>. QED
    BY <1>1, <1>4, <1>6, Returned, Typed, Assembled

LEMMA ApproveKycWrites ==
    ASSUME BaseInv, UNCHANGED overlapped, NEW m \in Merchants, NEW block \in BOOLEAN,
           ApproveKyc(m, block)
    PROVE  /\ merchant' \in [Merchants -> MerchantRow]
           /\ told' \in [Merchants -> Statuses \cup {"none"}]
           /\ gaps' \subseteq Merchants
           /\ kyc' \in [Merchants -> KycStatuses] /\ product' \in [Merchants -> BOOLEAN]
           /\ \A x \in Merchants : RowStep(x)
  <1>. DEFINE row == [merchant[m] EXCEPT !.blocked = block, !.status = "ACTIVE"]
  <1>1. /\ ~ Holding(m) /\ Write(m, row)
        /\ merchant[m].status = "ACTIVE" \/ Allowed(m, "ACTIVE")
        /\ kyc' = [kyc EXCEPT ![m] = "APPROVED"]
        /\ product' = [product EXCEPT ![m] = TRUE]
    BY DEF ApproveKyc, Reviewable
  <1>2. row \in MerchantRow /\ row.status = "ACTIVE"
    BY Rows DEF MerchantRow, Statuses
  <1>3. merchant[m].status # "CLOSED"
    BY <1>1, StaysClosed
  <1>4. kyc' \in [Merchants -> KycStatuses] /\ product' \in [Merchants -> BOOLEAN]
    BY <1>1, Typed DEF KycStatuses
  <1>. HIDE DEF row
  <1>. QED
    BY <1>1, <1>2, <1>3, <1>4, Writing

LEMMA ReviewKycEffect ==
    ASSUME BaseInv, UNCHANGED userVars, NEW m \in Merchants, ReviewKyc(m)
    PROVE  Effect
  <1>1. Operate /\ Touch(m) /\ UNCHANGED <<overlapped, job, overdue>>
    BY DEF ReviewKyc
  <1>2. /\ merchant' \in [Merchants -> MerchantRow]
        /\ told' \in [Merchants -> Statuses \cup {"none"}]
        /\ gaps' \subseteq Merchants
        /\ kyc' \in [Merchants -> KycStatuses] /\ product' \in [Merchants -> BOOLEAN]
        /\ \A x \in Merchants : RowStep(x)
    <2>1. CASE RejectKyc(m)
      <3>1. /\ ~ Holding(m) /\ UNCHANGED product /\ kyc' = [kyc EXCEPT ![m] = "REJECTED"]
            /\ IF merchant[m].status = "ACTIVE" THEN Change(m, "SUSPENDED") ELSE StayAsIs
        BY <2>1 DEF RejectKyc, Reviewable
      <3>2. kyc' \in [Merchants -> KycStatuses] /\ product' \in [Merchants -> BOOLEAN]
        BY <3>1, Typed DEF KycStatuses
      <3>3. "SUSPENDED" \in Statuses
        BY DEF Statuses
      <3>. QED
        BY <1>1, <3>1, <3>2, <3>3, Changing, Unwritten
    <2>2. CASE \E block \in BOOLEAN : ApproveKyc(m, block)
      BY <1>1, <2>2, ApproveKycWrites
    <2>. QED
      BY <2>1, <2>2 DEF ReviewKyc
  <1>. QED
    BY <1>1, <1>2, Touching, Operating, JobsStay, Typed, Assembled


\* A field other than the status is written.
LEMMA FieldWrites ==
    ASSUME BaseInv, NEW m \in Merchants, NEW row \in MerchantRow,
           row.status = merchant[m].status, merchant[m].status # "none",
           merchant' = [merchant EXCEPT ![m] = row], UNCHANGED <<told, gaps, overlapped>>
    PROVE  merchant' \in [Merchants -> MerchantRow] /\ \A x \in Merchants : RowStep(x)
  BY Quiet, Typed

LEMMA FieldRows ==
    ASSUME BaseInv, NEW m \in Merchants, NEW flag \in BOOLEAN, NEW row,
           \/ row = [merchant[m] EXCEPT !.blocked = flag]
           \/ row = [merchant[m] EXCEPT !.sanctioned = flag]
           \/ row = [merchant[m] EXCEPT !.deleted = flag]
           \/ row = [merchant[m] EXCEPT !.licence = "expired"]
    PROVE  row \in MerchantRow /\ row.status = merchant[m].status
  BY Rows DEF MerchantRow, Licences

LEMMA SaveRestrictionEffect ==
    ASSUME BaseInv, UNCHANGED userVars, NEW w \in Workers, SaveRestriction(w)
    PROVE  Effect
  <1>1. /\ job[w].at # "idle"
        /\ UNCHANGED <<product, kyc, told, gaps, overlapped, unguarded, overdue, ops>>
        /\ IF SeenActive(w) THEN Go(w, "restrict") ELSE Return(w)
    BY DEF SaveRestriction
  <1>2. PICK m \in Merchants : m = job[w].on
    BY <1>1, OnMerchant
  <1>3. merchant[m].status # "none"
    BY <1>1, <1>2, OnMerchant
  <1>4. PICK row \in {[merchant[m] EXCEPT !.blocked = TRUE],
                      [merchant[m] EXCEPT !.sanctioned = TRUE]} :
           merchant' = [merchant EXCEPT ![m] = row]
    <2>1. \/ merchant' = [merchant EXCEPT ![m].blocked = TRUE]
          \/ merchant' = [merchant EXCEPT ![m].sanctioned = TRUE]
      BY <1>2 DEF SaveRestriction
    <2>. QED
      BY <2>1
  <1>5. row \in MerchantRow /\ row.status = merchant[m].status
    BY FieldRows
  <1>6. JobsStep /\ job' \in [Workers -> Job]
    BY <1>1, Gone, Returned DEF MerchantSteps
  <1>. QED
    BY <1>1, <1>3, <1>4, <1>5, <1>6, FieldWrites, Typed, Assembled

LEMMA SuspendRestrictedEffect ==
    ASSUME BaseInv, UNCHANGED userVars, NEW w \in Workers, SuspendRestricted(w)
    PROVE  Effect
  <1>1. /\ job[w].at # "idle" /\ Return(w)
        /\ UNCHANGED <<product, kyc, overlapped, unguarded, overdue, ops>>
    BY DEF SuspendRestricted
  <1>2. PICK m \in Merchants : m = job[w].on
    BY <1>1, OnMerchant
  <1>3. ~ Holding(m) /\ IF Suspendable(m) THEN Change(m, "SUSPENDED") ELSE StayAsIs
    BY <1>2 DEF SuspendRestricted
  <1>. QED
    BY <1>1, <1>3, SuspendWrites, Returned, Typed, Assembled

LEMMA LiftEffect ==
    ASSUME BaseInv, UNCHANGED userVars, NEW m \in Merchants, Lift(m)
    PROVE  Effect
  <1>1. /\ Operate /\ Touch(m) /\ merchant[m].status # "none"
        /\ UNCHANGED <<product, kyc, told, gaps, overlapped, job, overdue>>
    BY DEF Lift, Exists
  <1>2. PICK row \in {[merchant[m] EXCEPT !.blocked = FALSE],
                      [merchant[m] EXCEPT !.sanctioned = FALSE]} :
           merchant' = [merchant EXCEPT ![m] = row]
    <2>1. \/ merchant' = [merchant EXCEPT ![m].blocked = FALSE]
          \/ merchant' = [merchant EXCEPT ![m].sanctioned = FALSE]
      BY DEF Lift
    <2>. QED
      BY <2>1
  <1>3. row \in MerchantRow /\ row.status = merchant[m].status
    BY FieldRows
  <1>. QED
    BY <1>1, <1>2, <1>3, FieldWrites, Touching, Operating, JobsStay, Typed, Assembled

LEMMA SwitchProductEffect ==
    ASSUME BaseInv, UNCHANGED userVars, NEW m \in Merchants, SwitchProduct(m)
    PROVE  Effect
  <1>1. /\ Operate /\ Touch(m) /\ product' = [product EXCEPT ![m] = ~ @]
        /\ UNCHANGED <<merchant, kyc, told, gaps, overlapped, job, overdue>>
    BY DEF SwitchProduct
  <1>2. product' \in [Merchants -> BOOLEAN]
    BY <1>1, Typed
  <1>. QED
    BY <1>1, <1>2, Quiet, Touching, Operating, JobsStay, Typed, Assembled

LEMMA GuardProfileEffect ==
    ASSUME BaseInv, UNCHANGED userVars, NEW w \in Workers, GuardProfile(w)
    PROVE  Effect
  <1>1. /\ job[w].at # "idle"
        /\ UNCHANGED <<merchant, product, kyc, told, gaps, overlapped, unguarded, overdue, ops>>
        /\ Go(w, "saveProfile") \/ Return(w)
    BY DEF GuardProfile
  <1>2. JobsStep /\ job' \in [Workers -> Job]
    BY <1>1, Gone, Returned DEF MerchantSteps
  <1>. QED
    BY <1>1, <1>2, Quiet, Typed, Assembled

\* A profile save over another status says so in overlapped.
LEMMA SaveProfileEffect ==
    ASSUME BaseInv, UNCHANGED userVars, NEW w \in Workers, SaveProfile(w)
    PROVE  Effect
  <1>1. /\ job[w].at = "saveProfile" /\ Return(w)
        /\ UNCHANGED <<product, kyc, told, gaps, overdue, ops>>
    BY DEF SaveProfile
  <1>2. PICK m \in Merchants : m = job[w].on
    BY <1>1, OnMerchant
  <1>3. ~ Holding(m)
    BY <1>2 DEF SaveProfile
  <1>4. PICK row \in Forms(job[w].seen) :
            /\ merchant' = [merchant EXCEPT ![m] = row]
            /\ overlapped' = IF row.status = merchant[m].status THEN overlapped
                                                                ELSE overlapped \cup {m}
            /\ unguarded' = IF row.blocked \/ row.sanctioned THEN unguarded \cup {m}
                                                            ELSE unguarded
    BY <1>2 DEF SaveProfile
  <1>5. row \in MerchantRow /\ row.status # "none"
    <2>1. job[w].seen \in MerchantRow /\ job[w].seen.status # "none"
      BY <1>1, OnMerchant
    <2>. QED
      BY <2>1 DEF Forms, MerchantRow
  <1>6. overlapped' \subseteq Merchants /\ unguarded' \subseteq Merchants
    BY <1>4, Typed
  <1>7. merchant' \in [Merchants -> MerchantRow] /\ merchant'[m] = row
        /\ \A x \in Merchants : x # m => merchant'[x] = merchant[x]
    BY <1>4, <1>5, Typed
  <1>8. RowStep(m)
    BY <1>1, <1>3, <1>4, <1>5, <1>7 DEF RowStep
  <1>9. \A x \in Merchants : x # m => RowStep(x)
    BY <1>1, <1>4, <1>7 DEF RowStep
  <1>. QED
    BY <1>1, <1>6, <1>7, <1>8, <1>9, Returned, Typed, Assembled

LEMMA SaveDeletedEffect ==
    ASSUME BaseInv, UNCHANGED userVars, NEW w \in Workers, SaveDeleted(w)
    PROVE  Effect
  <1>1. /\ job[w].at # "idle" /\ Return(w)
        /\ UNCHANGED <<product, kyc, told, gaps, overlapped, unguarded, overdue, ops>>
    BY DEF SaveDeleted
  <1>2. PICK m \in Merchants : m = job[w].on
    BY <1>1, OnMerchant
  <1>. DEFINE row == [merchant[m] EXCEPT !.deleted = TRUE]
  <1>3. merchant[m].status # "none" /\ merchant' = [merchant EXCEPT ![m] = row]
    BY <1>1, <1>2, OnMerchant DEF SaveDeleted
  <1>4. row \in MerchantRow /\ row.status = merchant[m].status
    BY FieldRows
  <1>. HIDE DEF row
  <1>. QED
    BY <1>1, <1>3, <1>4, FieldWrites, Returned, Typed, Assembled

LEMMA ExpireEffect ==
    ASSUME BaseInv, UNCHANGED userVars, NEW m \in Merchants, Expire(m)
    PROVE  Effect
  <1>. DEFINE row == [merchant[m] EXCEPT !.licence = "expired"]
  <1>1. /\ Operate /\ merchant' = [merchant EXCEPT ![m] = row]
        /\ UNCHANGED <<product, kyc, told, gaps, overlapped, unguarded, job, overdue>>
    BY DEF Expire
  <1>2. /\ row \in MerchantRow /\ row.status = merchant[m].status
        /\ row.blocked = merchant[m].blocked /\ row.sanctioned = merchant[m].sanctioned
    BY Rows DEF MerchantRow, Licences
  <1>. HIDE DEF row
  <1>3. merchant' \in [Merchants -> MerchantRow] /\ \A x \in Merchants : RowStep(x)
    BY <1>1, <1>2, Quiet, Typed
  <1>. QED
    BY <1>1, <1>3, Operating, JobsStay, Typed, Assembled

LEMMA CreateByHandEffect ==
    ASSUME BaseInv, UNCHANGED userVars, NEW m \in Merchants, NEW licence \in Licences,
           CreateByHand(m, licence)
    PROVE  Effect
  <1>. DEFINE row == [merchant[m] EXCEPT !.status = "PENDING", !.licence = licence]
  <1>1. /\ Operate /\ merchant[m].status = "none" /\ merchant' = [merchant EXCEPT ![m] = row]
        /\ told' = [told EXCEPT ![m] = "PENDING"]
        /\ UNCHANGED <<product, kyc, gaps, overlapped, unguarded, job, overdue>>
    BY DEF CreateByHand
  <1>2. row \in MerchantRow /\ row.status = "PENDING"
    BY Rows DEF MerchantRow, Statuses
  <1>. HIDE DEF row
  <1>3. /\ merchant' \in [Merchants -> MerchantRow] /\ merchant'[m].status = "PENDING"
        /\ told' \in [Merchants -> Statuses \cup {"none"}] /\ told'[m] = "PENDING"
        /\ \A x \in Merchants : x # m => merchant'[x] = merchant[x] /\ told'[x] = told[x]
    BY <1>1, <1>2, Typed DEF Statuses
  <1>4. ~ Holding(m)
    BY <1>1, OnMerchant DEF Holding
  <1>5. \A x \in Merchants : RowStep(x)
    BY <1>1, <1>3, <1>4 DEF RowStep
  <1>. QED
    BY <1>1, <1>3, <1>5, Operating, JobsStay, Typed, Assembled

LEMMA StartLicenceJobEffect ==
    ASSUME BaseInv, UNCHANGED userVars, StartLicenceJob
    PROVE  Effect
  <1>1. /\ UNCHANGED <<merchant, product, kyc, told, gaps, overlapped, unguarded, job, ops>>
        /\ overdue' \subseteq Merchants
    BY DEF StartLicenceJob, Listed
  <1>. QED
    BY <1>1, Quiet, JobsStay, Typed, Assembled

LEMMA SuspendOverdueEffect ==
    ASSUME BaseInv, UNCHANGED userVars, NEW m \in Merchants, SuspendOverdue(m)
    PROVE  Effect
  <1>1. /\ ~ Holding(m) /\ IF Suspendable(m) THEN Change(m, "SUSPENDED") ELSE StayAsIs
        /\ overdue' = overdue \ {m} \/ overdue' = {}
        /\ UNCHANGED <<product, kyc, overlapped, unguarded, job, ops>>
    BY DEF SuspendOverdue
  <1>2. overdue' \subseteq Merchants
    BY <1>1, Typed
  <1>. QED
    BY <1>1, <1>2, SuspendWrites, JobsStay, Typed, Assembled

LEMMA CrashEffect ==
    ASSUME BaseInv, UNCHANGED userVars, NEW w \in Workers, Crash(w)
    PROVE  Effect
  <1>1. /\ job[w].at # "idle" /\ Return(w) /\ unguarded' = unguarded \cup {job[w].on}
        /\ UNCHANGED <<merchant, product, kyc, told, gaps, overlapped, overdue, ops>>
    BY DEF Crash
  <1>2. unguarded' \subseteq Merchants
    BY <1>1, OnMerchant, Typed
  <1>. QED
    BY <1>1, <1>2, Quiet, Returned, Typed, Assembled

LEMMA KillLicenceJobEffect ==
    ASSUME BaseInv, UNCHANGED userVars, KillLicenceJob
    PROVE  Effect
  <1>1. /\ Operate /\ overdue' \subseteq Merchants
        /\ UNCHANGED <<merchant, product, kyc, told, gaps, overlapped, unguarded, job>>
    BY DEF KillLicenceJob
  <1>. QED
    BY <1>1, Quiet, Operating, JobsStay, Typed, Assembled

LEMMA HandlersEffect ==
    ASSUME BaseInv, MerchantHandlers, UNCHANGED userVars
    PROVE  Effect
  <1>1. ASSUME NEW m \in Merchants, NEW to \in {"SUSPENDED", "CLOSED"}, Stop(m, to)
        PROVE  Effect
    BY <1>1, StopEffect
  <1>2. ASSUME NEW w \in Workers, NEW m \in Merchants,
               \/ ReadActivate(w, m) \/ ReadKyc(w, m) \/ ReadProfile(w, m) \/ Destroy(w, m)
               \/ \E s \in {"block", "sanction", "restrict"} : ReadRestrict(w, m, s)
        PROVE  Effect
    BY <1>2, ReadActivateEffect, ReadKycEffect, ReadProfileEffect, DestroyEffect,
       ReadRestrictEffect
  <1>3. ASSUME NEW m \in Merchants, ReviewKyc(m) \/ Lift(m) \/ SwitchProduct(m) \/ Expire(m)
        PROVE  Effect
    BY <1>3, ReviewKycEffect, LiftEffect, SwitchProductEffect, ExpireEffect
  <1>4. ASSUME NEW m \in Merchants, NEW licence \in Licences, CreateByHand(m, licence)
        PROVE  Effect
    BY <1>4, CreateByHandEffect
  <1>5. ASSUME NEW w \in Workers, Proceed(w) \/ Crash(w)
        PROVE  Effect
    BY <1>5, CommitActivateEffect, LockKycEffect, CommitKycEffect, SaveRestrictionEffect,
       SuspendRestrictedEffect, GuardProfileEffect, SaveProfileEffect, SaveDeletedEffect,
       CrashEffect DEF Proceed
  <1>6. CASE LicenceJob
    BY <1>6, StartLicenceJobEffect, SuspendOverdueEffect DEF LicenceJob
  <1>7. CASE KillLicenceJob
    BY <1>7, KillLicenceJobEffect
  <1>. QED
    BY <1>1, <1>2, <1>3, <1>4, <1>5, <1>6, <1>7 DEF MerchantHandlers


-----------------------------------------------------------------------------
\* Whoever operations may approve has an agent's word, or needs none.
UsersInv ==
    /\ ApprovedOnce
    /\ \A u \in Users :
          user[u].status \in {"pending", "under_review"} /\ ~ AwaitsAgent(u) => u \in endorsed

\* A step that is about a user changes the row of that user alone.
LEMMA UserWrites ==
    ASSUME BaseInv, UsersInv, NEW u \in Users, NEW row \in UserRow,
           user' = [user EXCEPT ![u] = row],
           opened' \in [Users -> Nat],
           \A x \in Users : x # u => opened'[x] = opened[x] /\ (x \in endorsed => x \in endorsed'),
           opened'[u] = IF row.merchant = "none" THEN 0 ELSE 1,
           row.status = "approved" => row.merchant # "none" /\ u \in endorsed',
           row.status \in {"pending", "under_review"} /\ row.agentReview # "PENDING"
               => u \in endorsed'
    PROVE  user' \in [Users -> UserRow] /\ UsersInv'
  <1>1. /\ user' \in [Users -> UserRow] /\ user'[u] = row
        /\ \A x \in Users : x # u => user'[x] = user[x]
    BY Typed
  <1>2. ApprovedOnce'
    BY <1>1 DEF UsersInv, ApprovedOnce
  <1>3. \A x \in Users :
            user'[x].status \in {"pending", "under_review"} /\ user'[x].agentReview # "PENDING"
                => x \in endorsed'
    BY <1>1 DEF UsersInv, AwaitsAgent
  <1>. QED
    BY <1>1, <1>2, <1>3 DEF UsersInv, AwaitsAgent

\* One that leaves the merchants alone.
LEMMA UsersOnly ==
    ASSUME BaseInv, UNCHANGED merchantVars, user' \in [Users -> UserRow], UNCHANGED opened,
           endorsed' \subseteq Users, submissions' \in Nat
    PROVE  Effect
  <1>1. \A x \in Merchants : RowStep(x)
    BY Quiet DEF merchantVars
  <1>. QED
    BY <1>1, Typed DEF Effect, JobsStep, TypeOK, MerchantTypeOK, merchantVars

LEMMA SubmitEffect ==
    ASSUME BaseInv, UsersInv, NEW u \in Users, NEW withCode \in BOOLEAN, Submit(u, withCode)
    PROVE  Effect /\ UsersInv'
  <1>. DEFINE row == [user[u] EXCEPT !.status = "pending",
                                     !.agentReview = AgentReviewOf(u, withCode)]
  <1>1. /\ user' = [user EXCEPT ![u] = row] /\ submissions' = submissions + 1
        /\ endorsed' = IF withCode THEN endorsed \ {u} ELSE endorsed \cup {u}
        /\ UNCHANGED merchantVars /\ UNCHANGED opened
    BY DEF Submit
  <1>2. /\ row \in UserRow /\ row.status = "pending" /\ row.merchant = user[u].merchant
        /\ row.agentReview = IF withCode THEN "PENDING" ELSE "NONE"
    BY Rows DEF UserRow, OnboardingStatuses, AgentReviews, AgentReviewOf
  <1>. HIDE DEF row
  <1>3. /\ opened' \in [Users -> Nat] /\ opened'[u] = IF row.merchant = "none" THEN 0 ELSE 1
        /\ \A x \in Users : x # u => opened'[x] = opened[x] /\ (x \in endorsed => x \in endorsed')
        /\ ~ withCode => u \in endorsed'
        /\ endorsed' \subseteq Users /\ submissions' \in Nat
    BY <1>1, <1>2, Typed DEF UsersInv, ApprovedOnce
  <1>4. user' \in [Users -> UserRow] /\ UsersInv'
    BY <1>1, <1>2, <1>3, UserWrites
  <1>. QED
    BY <1>1, <1>3, <1>4, UsersOnly

\* A review that writes the user's row: the merchant of the user stays, and
\* what is approved or awaits operations is endorsed.
LEMMA ReviewWrites ==
    ASSUME BaseInv, UsersInv, NEW u \in Users, NEW row \in UserRow,
           user' = [user EXCEPT ![u] = row], row.merchant = user[u].merchant,
           UNCHANGED opened, endorsed' = endorsed \/ endorsed' = endorsed \cup {u},
           row.status = "approved" => row.merchant # "none" /\ u \in endorsed',
           row.status \in {"pending", "under_review"} /\ row.agentReview # "PENDING"
               => u \in endorsed'
    PROVE  user' \in [Users -> UserRow] /\ UsersInv' /\ endorsed' \subseteq Users
  <1>1. /\ opened' \in [Users -> Nat] /\ opened'[u] = IF row.merchant = "none" THEN 0 ELSE 1
        /\ \A x \in Users : x # u => opened'[x] = opened[x] /\ (x \in endorsed => x \in endorsed')
        /\ endorsed' \subseteq Users
    BY Typed DEF UsersInv, ApprovedOnce
  <1>. QED
    BY <1>1, UserWrites

LEMMA StartReviewEffect ==
    ASSUME BaseInv, UsersInv, NEW u \in Users, StartReview(u)
    PROVE  Effect /\ UsersInv'
  <1>. DEFINE row == [user[u] EXCEPT !.status = "under_review"]
  <1>1. /\ user' = [user EXCEPT ![u] = row] /\ user[u].status = "pending" /\ ~ AwaitsAgent(u)
        /\ UNCHANGED merchantVars /\ UNCHANGED <<opened, endorsed, submissions>>
    BY DEF StartReview
  <1>2. /\ row \in UserRow /\ row.status = "under_review" /\ row.merchant = user[u].merchant
    BY Rows DEF UserRow, OnboardingStatuses
  <1>3. u \in endorsed
    BY <1>1 DEF UsersInv
  <1>. HIDE DEF row
  <1>4. user' \in [Users -> UserRow] /\ UsersInv' /\ endorsed' \subseteq Users
    BY <1>1, <1>2, <1>3, ReviewWrites
  <1>. QED
    BY <1>1, <1>4, Typed, UsersOnly

LEMMA ReviewByAgentEffect ==
    ASSUME BaseInv, UsersInv, NEW u \in Users, ReviewByAgent(u)
    PROVE  Effect /\ UsersInv'
  <1>1. AwaitsAgent(u) /\ UNCHANGED merchantVars /\ UNCHANGED <<opened, submissions>>
    BY DEF ReviewByAgent
  <1>2. user[u] \in UserRow
    BY Typed
  <1>3. user' \in [Users -> UserRow] /\ UsersInv' /\ endorsed' \subseteq Users
    <2>1. ASSUME user' = [user EXCEPT ![u].agentReview = "APPROVED"],
                 endorsed' = endorsed \cup {u}
          PROVE  user' \in [Users -> UserRow] /\ UsersInv' /\ endorsed' \subseteq Users
      <3>. DEFINE row == [user[u] EXCEPT !.agentReview = "APPROVED"]
      <3>1. user' = [user EXCEPT ![u] = row]
        BY <2>1
      <3>2. /\ row \in UserRow /\ row.status = user[u].status
            /\ row.merchant = user[u].merchant
        BY <1>2 DEF UserRow, AgentReviews
      <3>3. row.status = "approved" => row.merchant # "none"
        BY <3>2 DEF UsersInv, ApprovedOnce
      <3>. HIDE DEF row
      <3>. QED
        BY <1>1, <2>1, <3>1, <3>2, <3>3, ReviewWrites
    <2>2. ASSUME user' = [user EXCEPT ![u].agentReview = "REJECTED", ![u].status = "rejected"],
                 UNCHANGED endorsed
          PROVE  user' \in [Users -> UserRow] /\ UsersInv' /\ endorsed' \subseteq Users
      <3>. DEFINE row == [user[u] EXCEPT !.agentReview = "REJECTED", !.status = "rejected"]
      <3>1. user' = [user EXCEPT ![u] = row]
        BY <2>2
      <3>2. /\ row \in UserRow /\ row.status = "rejected"
            /\ row.merchant = user[u].merchant
        BY <1>2 DEF UserRow, AgentReviews, OnboardingStatuses
      <3>. HIDE DEF row
      <3>. QED
        BY <1>1, <2>2, <3>1, <3>2, ReviewWrites
    <2>. QED
      BY <2>1, <2>2 DEF ReviewByAgent
  <1>. QED
    BY <1>1, <1>3, Typed, UsersOnly

LEMMA RejectUserEffect ==
    ASSUME BaseInv, UsersInv, NEW u \in Users, RejectUser(u)
    PROVE  Effect /\ UsersInv'
  <1>. DEFINE row == [user[u] EXCEPT !.status = "rejected"]
  <1>1. /\ user' = [user EXCEPT ![u] = row]
        /\ UNCHANGED merchantVars /\ UNCHANGED <<opened, endorsed, submissions>>
    BY DEF RejectUser
  <1>2. row \in UserRow /\ row.status = "rejected" /\ row.merchant = user[u].merchant
    BY Rows DEF UserRow, OnboardingStatuses
  <1>. HIDE DEF row
  <1>3. user' \in [Users -> UserRow] /\ UsersInv' /\ endorsed' \subseteq Users
    BY <1>1, <1>2, ReviewWrites
  <1>. QED
    BY <1>1, <1>3, Typed, UsersOnly


LEMMA ApproveNewEffect ==
    ASSUME BaseInv, UsersInv, NEW u \in Users, ApproveNew(u)
    PROVE  Effect /\ UsersInv'
  <1>1. PICK m \in Merchants :
          /\ merchant[m].status = "none"
          /\ merchant' = [merchant EXCEPT ![m].status = "ACTIVE", ![m].licence = "valid"]
          /\ told' = [told EXCEPT ![m] = "ACTIVE"]
          /\ kyc' = [kyc EXCEPT ![m] = "APPROVED"]
          /\ product' = [product EXCEPT ![m] = TRUE]
          /\ user' = [user EXCEPT ![u].status = "approved", ![u].merchant = m]
    BY DEF ApproveNew
  <1>2. /\ ReviewableUser(u) /\ Unbound(u) /\ opened' = [opened EXCEPT ![u] = @ + 1]
        /\ UNCHANGED <<gaps, overlapped, unguarded, job, overdue, ops, endorsed, submissions>>
    BY DEF ApproveNew
  <1>. DEFINE new == [merchant[m] EXCEPT !.status = "ACTIVE", !.licence = "valid"]
              row == [user[u] EXCEPT !.status = "approved", !.merchant = m]
  <1>3. merchant' = [merchant EXCEPT ![m] = new] /\ user' = [user EXCEPT ![u] = row]
    BY <1>1
  <1>4. new \in MerchantRow /\ new.status = "ACTIVE"
    BY Rows DEF MerchantRow, Statuses, Licences
  <1>5. row \in UserRow /\ row.status = "approved" /\ row.merchant = m /\ m # "none"
    BY Rows, MerchantParameters DEF UserRow, OnboardingStatuses
  <1>. HIDE DEF new, row
  <1>6. /\ merchant' \in [Merchants -> MerchantRow] /\ merchant'[m].status = "ACTIVE"
        /\ told' \in [Merchants -> Statuses \cup {"none"}] /\ told'[m] = "ACTIVE"
        /\ \A x \in Merchants : x # m => merchant'[x] = merchant[x] /\ told'[x] = told[x]
    <2>1. /\ merchant' \in [Merchants -> MerchantRow] /\ merchant'[m] = new
          /\ \A x \in Merchants : x # m => merchant'[x] = merchant[x]
      BY <1>3, <1>4, Typed
    <2>2. told' = [told EXCEPT ![m] = "ACTIVE"]
      BY <1>1
    <2>3. /\ told' \in [Merchants -> Statuses \cup {"none"}] /\ told'[m] = "ACTIVE"
          /\ \A x \in Merchants : x # m => told'[x] = told[x]
      BY <2>2, Typed DEF Statuses
    <2>. QED
      BY <1>4, <2>1, <2>3
  <1>7. kyc' \in [Merchants -> KycStatuses] /\ product' \in [Merchants -> BOOLEAN]
    BY <1>1, Typed DEF KycStatuses
  <1>8. ~ Holding(m)
    BY <1>1, OnMerchant DEF Holding
  <1>9. \A x \in Merchants : RowStep(x)
    BY <1>1, <1>2, <1>6, <1>8 DEF RowStep
  <1>10. opened[u] = 0
    BY <1>2 DEF UsersInv, ApprovedOnce, Unbound
  <1>11. /\ opened' \in [Users -> Nat] /\ opened'[u] = 1
         /\ \A x \in Users : x # u => opened'[x] = opened[x]
    BY <1>2, <1>10, Typed
  <1>12. u \in endorsed /\ endorsed' = endorsed
    BY <1>2 DEF UsersInv, ReviewableUser
  <1>13. user' \in [Users -> UserRow] /\ UsersInv'
    BY <1>3, <1>5, <1>11, <1>12, UserWrites
  <1>14. JobsStep /\ job' \in [Workers -> Job]
    BY <1>2, JobsStay
  <1>. QED
    BY <1>2, <1>6, <1>7, <1>9, <1>11, <1>13, <1>14, Typed DEF Effect, TypeOK, MerchantTypeOK

LEMMA ApproveBoundEffect ==
    ASSUME BaseInv, UsersInv, NEW u \in Users, ApproveBound(u)
    PROVE  Effect /\ UsersInv'
  <1>1. /\ ReviewableUser(u) /\ user[u].merchant # "none"
        /\ user' = [user EXCEPT ![u].status = "approved"]
        /\ UNCHANGED <<overlapped, job, overdue, ops, opened, endorsed, submissions>>
    BY DEF ApproveBound, Unbound
  <1>2. user[u] \in UserRow /\ user[u].merchant \in Merchants \cup {"none"}
    BY Rows DEF UserRow
  <1>3. PICK m \in Merchants : m = user[u].merchant
    BY <1>1, <1>2
  <1>4. \/ ApproveKyc(m, FALSE) /\ Touch(m)
        \/ UNCHANGED <<merchant, told, gaps, kyc, product, unguarded>>
    BY <1>3 DEF ApproveBound
  <1>5. /\ merchant' \in [Merchants -> MerchantRow]
        /\ told' \in [Merchants -> Statuses \cup {"none"}]
        /\ gaps' \subseteq Merchants
        /\ kyc' \in [Merchants -> KycStatuses] /\ product' \in [Merchants -> BOOLEAN]
        /\ unguarded' \subseteq Merchants
        /\ \A x \in Merchants : RowStep(x)
    <2>1. CASE ApproveKyc(m, FALSE) /\ Touch(m)
      BY <1>1, <2>1, ApproveKycWrites, Touching
    <2>2. CASE UNCHANGED <<merchant, told, gaps, kyc, product, unguarded>>
      BY <1>1, <2>2, Quiet, Typed
    <2>. QED
      BY <1>4, <2>1, <2>2
  <1>. DEFINE row == [user[u] EXCEPT !.status = "approved"]
  <1>6. user' = [user EXCEPT ![u] = row]
    BY <1>1
  <1>7. row \in UserRow /\ row.status = "approved" /\ row.merchant = user[u].merchant
    BY <1>2 DEF UserRow, OnboardingStatuses
  <1>8. u \in endorsed
    BY <1>1 DEF UsersInv, ReviewableUser
  <1>. HIDE DEF row
  <1>9. user' \in [Users -> UserRow] /\ UsersInv'
    BY <1>1, <1>6, <1>7, <1>8, ReviewWrites
  <1>10. JobsStep /\ job' \in [Workers -> Job]
    BY <1>1, JobsStay
  <1>. QED
    BY <1>1, <1>5, <1>9, <1>10, Typed DEF Effect, TypeOK, MerchantTypeOK

LEMMA NextEffect ==
    ASSUME BaseInv, UsersInv, [Next]_vars
    PROVE  Effect /\ UsersInv'
  <1>1. CASE Onboarding
    BY <1>1, SubmitEffect, StartReviewEffect, ReviewByAgentEffect, RejectUserEffect,
       ApproveNewEffect, ApproveBoundEffect DEF Onboarding
  <1>2. ASSUME UNCHANGED userVars PROVE UsersInv'
    BY <1>2 DEF userVars, UsersInv, ApprovedOnce, AwaitsAgent
  <1>3. CASE MerchantHandlers /\ UNCHANGED userVars
    BY <1>2, <1>3, HandlersEffect
  <1>4. CASE UNCHANGED vars
    <2>1. UNCHANGED merchantVars /\ UNCHANGED userVars
      BY <1>4 DEF vars
    <2>. QED
      BY <1>2, <2>1, UsersOnly, Typed DEF userVars
  <1>. QED
    BY <1>1, <1>3, <1>4 DEF Next

-----------------------------------------------------------------------------
\* What an active merchant has, while one handler at most is at it: what each
\* handler goes by is still so when it writes.
Fit(m) == kyc[m] = "APPROVED" /\ ~ merchant[m].blocked /\ ~ merchant[m].sanctioned

Clear(m) == merchant[m].status = "ACTIVE" => Fit(m)

Sound(j, m) ==
    /\ j.at = "activate" => Fit(m)
    /\ j.at \in {"submitKyc", "commitKyc"} => merchant[m].status # "ACTIVE"
    /\ j.at \in {"block", "sanction"} /\ j.seen.status # "ACTIVE"
          => merchant[m].status # "ACTIVE"
    /\ j.at \in {"guardProfile", "delete"} => Clear(m)
    /\ j.at \in {"guardProfile", "saveProfile"} /\ j.seen.status = "ACTIVE"
          => kyc[m] = "APPROVED"

ClearedAt(m) ==
    m \notin unguarded =>
        /\ \A u, w \in Workers : job[u].on = m /\ job[w].on = m => u = w
        /\ ~ Busy(m) => Clear(m)
        /\ \A w \in Workers : job[w].on = m => Sound(job[w], m)

ClearInv == \A m \in Merchants : ClearedAt(m)

\* A step that takes nothing from m, and no part in the handlers at m.
LEMMA StaysCleared ==
    ASSUME NEW m \in Merchants, ClearedAt(m), m \in unguarded => m \in unguarded',
           kyc'[m] = kyc[m],
           merchant'[m].status \in {merchant[m].status, "PENDING", "SUSPENDED", "CLOSED"},
           merchant'[m].blocked => merchant[m].blocked,
           merchant'[m].sanctioned => merchant[m].sanctioned,
           \A w \in Workers : job[w].on = m \/ job'[w].on = m => job'[w] = job[w]
    PROVE  ClearedAt(m)'
  <1>. SUFFICES ASSUME m \notin unguarded'
                PROVE  /\ \A u, w \in Workers : job'[u].on = m /\ job'[w].on = m => u = w
                       /\ ~ Busy(m)' => Clear(m)'
                       /\ \A w \in Workers : job'[w].on = m => Sound(job[w], m)'
    BY DEF ClearedAt
  <1>1. \A u, w \in Workers : job'[u].on = m /\ job'[w].on = m => u = w
    BY DEF ClearedAt
  <1>2. Clear(m) => Clear(m)'
    BY DEF Clear, Fit
  <1>3. ~ Busy(m)' => Clear(m)'
    BY <1>2 DEF ClearedAt, Busy
  <1>4. ASSUME NEW w \in Workers, job'[w].on = m PROVE Sound(job[w], m)'
    <2>1. Sound(job[w], m) /\ job'[w] = job[w]
      BY <1>4 DEF ClearedAt
    <2>2. Fit(m) => Fit(m)'
      BY DEF Fit
    <2>. QED
      BY <1>2, <2>1, <2>2 DEF Sound
  <1>. QED
    BY <1>1, <1>3, <1>4

\* The merchants a step is not about.
LEMMA Elsewhere ==
    ASSUME BaseInv, ClearInv, NEW m \in Merchants,
           \A x \in Merchants : x # m =>
               merchant'[x] = merchant[x] /\ kyc'[x] = kyc[x] /\ (x \in unguarded => x \in unguarded'),
           \A u \in Workers :
               \/ job'[u] = job[u]
               \/ job[u].on \in {m, "none"} /\ job'[u].on \in {m, "none"}
    PROVE  \A x \in Merchants : x # m => ClearedAt(x)'
  <1>. SUFFICES ASSUME NEW x \in Merchants, x # m PROVE ClearedAt(x)'
    OBVIOUS
  <1>1. \A w \in Workers : job[w].on = x \/ job'[w].on = x => job'[w] = job[w]
    BY MerchantParameters
  <1>2. ClearedAt(x)
    BY DEF ClearInv
  <1>. QED
    BY <1>1, <1>2, StaysCleared

\* Entering, going on and returning.
LEMMA EntersCleared ==
    ASSUME BaseInv, ClearInv, NEW w \in Workers, NEW m \in Merchants,
           NEW s \in MerchantSteps, Enter(w, s, m), Touch(m),
           Clear(m) => Sound(job[w], m)'
    PROVE  ClearedAt(m)'
  <1>1. job'[w].on = m /\ \A u \in Workers : u # w => job'[u] = job[u]
    BY Entering
  <1>2. CASE Busy(m)
    BY <1>2 DEF Touch, ClearedAt
  <1>3. CASE ~ Busy(m)
    <2>1. unguarded' = unguarded /\ \A u \in Workers : job[u].on # m
      BY <1>3 DEF Touch, Busy
    <2>2. \A u \in Workers : job'[u].on = m => u = w
      BY <1>1, <2>1
    <2>3. Busy(m)'
      BY <1>1 DEF Busy
    <2>4. m \notin unguarded => Clear(m)
      BY <1>3 DEF ClearInv, ClearedAt
    <2>5. m \notin unguarded' => \A u \in Workers : job'[u].on = m => Sound(job[u], m)'
      BY <2>1, <2>2, <2>4 DEF Sound
    <2>. QED
      BY <2>2, <2>3, <2>5 DEF ClearedAt
  <1>. QED
    BY <1>2, <1>3

LEMMA GoesCleared ==
    ASSUME BaseInv, ClearInv, NEW w \in Workers, NEW m \in Merchants, job[w].on = m,
           NEW s \in MerchantSteps, Go(w, s), unguarded' = unguarded,
           Sound(job[w], m) => Sound(job[w], m)'
    PROVE  ClearedAt(m)'
  <1>1. job'[w].on = m /\ \A u \in Workers : u # w => job'[u] = job[u]
    BY Going
  <1>2. Busy(m)'
    BY <1>1 DEF Busy
  <1>3. ASSUME m \notin unguarded
        PROVE  /\ \A u \in Workers : job'[u].on = m => u = w
               /\ Sound(job[w], m)'
    BY <1>1, <1>3 DEF ClearInv, ClearedAt
  <1>4. m \notin unguarded' => \A u \in Workers : job'[u].on = m => Sound(job[u], m)'
    BY <1>3 DEF Sound
  <1>. QED
    BY <1>2, <1>3, <1>4 DEF ClearedAt

LEMMA ReturnsCleared ==
    ASSUME BaseInv, ClearInv, NEW w \in Workers, NEW m \in Merchants, job[w].on = m, Return(w),
           m \notin unguarded' => m \notin unguarded /\ (Sound(job[w], m) => Clear(m)')
    PROVE  ClearedAt(m)'
  <1>. SUFFICES ASSUME m \notin unguarded'
                PROVE  ClearedAt(m)'
    BY DEF ClearedAt
  <1>1. job'[w].on # m /\ \A u \in Workers : u # w => job'[u] = job[u]
    BY Returning, MerchantParameters
  <1>2. \A u \in Workers : job'[u].on # m
    BY <1>1 DEF ClearInv, ClearedAt
  <1>3. Clear(m)'
    BY DEF ClearInv, ClearedAt
  <1>. QED
    BY <1>2, <1>3 DEF ClearedAt

\* Handlers that are one step.
LEMMA TouchedCleared ==
    ASSUME BaseInv, ClearInv, NEW m \in Merchants, Touch(m), UNCHANGED job,
           Clear(m) => Clear(m)'
    PROVE  ClearedAt(m)'
  <1>1. CASE Busy(m)
    BY <1>1 DEF Touch, ClearedAt
  <1>2. CASE ~ Busy(m)
    <2>1. unguarded' = unguarded /\ \A u \in Workers : job'[u].on # m
      BY <1>2 DEF Touch, Busy
    <2>2. m \notin unguarded' => Clear(m)'
      BY <1>2, <2>1 DEF ClearInv, ClearedAt
    <2>. QED
      BY <2>1, <2>2 DEF ClearedAt
  <1>. QED
    BY <1>1, <1>2


LEMMA Replaced ==
    ASSUME BaseInv, NEW m \in Merchants, NEW row, merchant' = [merchant EXCEPT ![m] = row]
    PROVE  merchant'[m] = row /\ \A x \in Merchants : x # m => merchant'[x] = merchant[x]
  BY Typed

LEMMA Changed ==
    ASSUME BaseInv, NEW m \in Merchants, NEW s, Change(m, s)
    PROVE  /\ merchant'[m].status = s
           /\ merchant'[m].blocked = merchant[m].blocked
           /\ merchant'[m].sanctioned = merchant[m].sanctioned
           /\ \A x \in Merchants : x # m => merchant'[x] = merchant[x]
  <1>. DEFINE row == [merchant[m] EXCEPT !.status = s]
  <1>1. merchant' = [merchant EXCEPT ![m] = row]
    BY DEF Change, Write
  <1>2. /\ row.status = s /\ row.blocked = merchant[m].blocked
        /\ row.sanctioned = merchant[m].sanctioned
    BY Rows DEF MerchantRow
  <1>. HIDE DEF row
  <1>. QED
    BY <1>1, <1>2, Replaced

\* What suspends a merchant, or finds that it cannot.
LEMMA Suspended ==
    ASSUME BaseInv, NEW m \in Merchants,
           IF Suspendable(m) THEN Change(m, "SUSPENDED") ELSE StayAsIs
    PROVE  /\ merchant'[m].status # "ACTIVE"
           /\ merchant'[m].status \in {merchant[m].status, "SUSPENDED"}
           /\ merchant'[m].blocked = merchant[m].blocked
           /\ merchant'[m].sanctioned = merchant[m].sanctioned
           /\ \A x \in Merchants : x # m => merchant'[x] = merchant[x]
  <1>1. CASE Suspendable(m)
    BY <1>1, Changed
  <1>2. CASE ~ Suspendable(m)
    BY <1>2 DEF StayAsIs, Suspendable, Allowed, AllowedTransitions
  <1>. QED
    BY <1>1, <1>2

LEMMA AtOne ==
    ASSUME BaseInv, ClearInv, NEW m \in Merchants, ClearedAt(m)',
           \A x \in Merchants : x # m =>
               merchant'[x] = merchant[x] /\ kyc'[x] = kyc[x] /\ (x \in unguarded => x \in unguarded'),
           \A u \in Workers :
               \/ job'[u] = job[u]
               \/ job[u].on \in {m, "none"} /\ job'[u].on \in {m, "none"}
    PROVE  ClearInv'
  BY Elsewhere DEF ClearInv

LEMMA TouchKeeps ==
    ASSUME NEW m \in Merchants, Touch(m)
    PROVE  unguarded \subseteq unguarded'
  BY DEF Touch

\* The jobs of a step of worker w at m.
LEMMA EnterJobs ==
    ASSUME BaseInv, NEW w \in Workers, NEW m \in Merchants, NEW s \in MerchantSteps, Enter(w, s, m)
    PROVE  \A u \in Workers :
               \/ job'[u] = job[u]
               \/ job[u].on \in {m, "none"} /\ job'[u].on \in {m, "none"}
  BY Entering DEF BaseInv, JobsInv

LEMMA GoJobs ==
    ASSUME BaseInv, NEW w \in Workers, NEW m \in Merchants, job[w].on = m,
           NEW s \in MerchantSteps, Go(w, s)
    PROVE  \A u \in Workers :
               \/ job'[u] = job[u]
               \/ job[u].on \in {m, "none"} /\ job'[u].on \in {m, "none"}
  BY Going

LEMMA ReturnJobs ==
    ASSUME BaseInv, NEW w \in Workers, NEW m \in Merchants, job[w].on = m, Return(w)
    PROVE  \A u \in Workers :
               \/ job'[u] = job[u]
               \/ job[u].on \in {m, "none"} /\ job'[u].on \in {m, "none"}
  BY Returning

LEMMA StopCleared ==
    ASSUME BaseInv, ClearInv, NEW m \in Merchants, NEW to \in {"SUSPENDED", "CLOSED"}, Stop(m, to)
    PROVE  ClearInv'
  <1>1. Change(m, to) /\ Touch(m) /\ UNCHANGED <<kyc, job>>
    BY DEF Stop
  <1>2. Clear(m)'
    BY <1>1, Changed DEF Clear
  <1>3. ClearedAt(m)'
    BY <1>1, <1>2, TouchedCleared
  <1>. QED
    BY <1>1, <1>3, Changed, TouchKeeps, AtOne

\* A handler that begins and writes nothing.
LEMMA BeginCleared ==
    ASSUME BaseInv, ClearInv, NEW w \in Workers, NEW m \in Merchants, NEW s \in MerchantSteps,
           Enter(w, s, m), Touch(m), UNCHANGED <<merchant, kyc>>,
           Clear(m) => Sound(job[w], m)'
    PROVE  ClearInv'
  <1>1. ClearedAt(m)'
    BY EntersCleared
  <1>. QED
    BY <1>1, EnterJobs, TouchKeeps, AtOne

LEMMA ReadActivateCleared ==
    ASSUME BaseInv, ClearInv, NEW w \in Workers, NEW m \in Merchants, ReadActivate(w, m)
    PROVE  ClearInv'
  <1>1. /\ ~ Blocked(m, merchant[m]) /\ Enter(w, "activate", m) /\ Touch(m)
        /\ UNCHANGED <<merchant, kyc>> /\ "activate" \in MerchantSteps
    BY DEF ReadActivate, MerchantSteps
  <1>2. Sound(job[w], m)'
    BY <1>1, Entering DEF Blocked, Sound, Fit
  <1>. QED
    BY <1>1, <1>2, BeginCleared

LEMMA ReadKycCleared ==
    ASSUME BaseInv, ClearInv, NEW w \in Workers, NEW m \in Merchants, ReadKyc(w, m)
    PROVE  ClearInv'
  <1>1. Touch(m) /\ UNCHANGED <<merchant, kyc>>
    BY DEF ReadKyc
  <1>2. PICK s \in {"replaceKyc", "submitKyc"} :
            Enter(w, s, m) /\ (s = "submitKyc" => kyc[m] # "APPROVED")
    BY DEF ReadKyc
  <1>3. s \in MerchantSteps
    BY DEF MerchantSteps, KycSteps
  <1>4. Clear(m) => Sound(job[w], m)'
    BY <1>1, <1>2, <1>3, Entering DEF Sound, Clear, Fit
  <1>. QED
    BY <1>1, <1>2, <1>3, <1>4, BeginCleared

LEMMA ReadProfileCleared ==
    ASSUME BaseInv, ClearInv, NEW w \in Workers, NEW m \in Merchants, ReadProfile(w, m)
    PROVE  ClearInv'
  <1>1. /\ Enter(w, "guardProfile", m) /\ Touch(m)
        /\ UNCHANGED <<merchant, kyc>> /\ "guardProfile" \in MerchantSteps
    BY DEF ReadProfile, MerchantSteps
  <1>2. Clear(m) => Sound(job[w], m)'
    BY <1>1, Entering DEF Sound, Fit, Clear
  <1>. QED
    BY <1>1, <1>2, BeginCleared

LEMMA ReadRestrictCleared ==
    ASSUME BaseInv, ClearInv, NEW w \in Workers, NEW m \in Merchants,
           NEW s \in {"block", "sanction", "restrict"}, ReadRestrict(w, m, s)
    PROVE  ClearInv'
  <1>1. /\ Enter(w, s, m) /\ Touch(m)
        /\ UNCHANGED <<merchant, kyc>> /\ s \in MerchantSteps
    BY DEF ReadRestrict, MerchantSteps
  <1>2. Sound(job[w], m)'
    BY <1>1, Entering DEF Sound
  <1>. QED
    BY <1>1, <1>2, BeginCleared

LEMMA DestroyCleared ==
    ASSUME BaseInv, ClearInv, NEW w \in Workers, NEW m \in Merchants, Destroy(w, m)
    PROVE  ClearInv'
  <1>1. /\ Change(m, "CLOSED") /\ Enter(w, "delete", m) /\ Touch(m)
        /\ UNCHANGED kyc /\ "delete" \in MerchantSteps
    BY DEF Destroy, MerchantSteps
  <1>2. Sound(job[w], m)'
    BY <1>1, Entering, Changed DEF Sound, Clear
  <1>3. ClearedAt(m)'
    BY <1>1, <1>2, EntersCleared
  <1>. QED
    BY <1>1, <1>3, EnterJobs, TouchKeeps, Changed, AtOne


\* A handler that goes on, and one that ends.
LEMMA OnwardCleared ==
    ASSUME BaseInv, ClearInv, NEW w \in Workers, NEW m \in Merchants, job[w].on = m,
           NEW s \in MerchantSteps, Go(w, s), UNCHANGED <<kyc, unguarded>>,
           \A x \in Merchants : x # m => merchant'[x] = merchant[x],
           Sound(job[w], m) => Sound(job[w], m)'
    PROVE  ClearInv'
  <1>1. ClearedAt(m)'
    BY GoesCleared
  <1>. QED
    BY <1>1, GoJobs, AtOne

LEMMA EndCleared ==
    ASSUME BaseInv, ClearInv, NEW w \in Workers, NEW m \in Merchants, job[w].on = m, Return(w),
           \A x \in Merchants : x # m => merchant'[x] = merchant[x] /\ kyc'[x] = kyc[x],
           unguarded \subseteq unguarded',
           m \notin unguarded' => (Sound(job[w], m) => Clear(m)')
    PROVE  ClearInv'
  <1>1. ClearedAt(m)'
    BY ReturnsCleared
  <1>. QED
    BY <1>1, ReturnJobs, AtOne

LEMMA CommitActivateCleared ==
    ASSUME BaseInv, ClearInv, NEW w \in Workers, CommitActivate(w)
    PROVE  ClearInv'
  <1>1. job[w].at = "activate" /\ Return(w) /\ UNCHANGED <<kyc, unguarded>>
    BY DEF CommitActivate
  <1>2. PICK m \in Merchants : m = job[w].on
    BY <1>1, OnMerchant
  <1>3. Change(m, "ACTIVE")
    BY <1>2 DEF CommitActivate
  <1>4. Sound(job[w], m) => Clear(m)'
    BY <1>1, <1>3, Changed DEF Sound, Clear, Fit
  <1>. QED
    BY <1>1, <1>2, <1>3, <1>4, Changed, EndCleared

LEMMA LockKycCleared ==
    ASSUME BaseInv, ClearInv, NEW w \in Workers, LockKyc(w)
    PROVE  ClearInv'
  <1>1. job[w].at \in {"submitKyc", "replaceKyc"} /\ UNCHANGED <<merchant, kyc, unguarded>>
    BY DEF LockKyc
  <1>2. PICK m \in Merchants : m = job[w].on
    BY <1>1, OnMerchant
  <1>3. PICK s \in {"commitKycSuspend", "commitKyc"} :
            /\ Go(w, s)
            /\ s = "commitKyc" => job[w].at = "submitKyc" \/ merchant[m].status # "ACTIVE"
    BY <1>1, <1>2 DEF LockKyc
  <1>4. s \in MerchantSteps
    BY DEF MerchantSteps, KycSteps
  <1>5. Sound(job[w], m) => Sound(job[w], m)'
    BY <1>1, <1>3, <1>4, Going DEF Sound
  <1>. QED
    BY <1>1, <1>2, <1>3, <1>4, <1>5, OnwardCleared

LEMMA CommitKycCleared ==
    ASSUME BaseInv, ClearInv, NEW w \in Workers, CommitKyc(w)
    PROVE  ClearInv'
  <1>1. job[w].at \in {"commitKyc", "commitKycSuspend"} /\ Return(w) /\ UNCHANGED unguarded
    BY DEF CommitKyc
  <1>2. PICK m \in Merchants : m = job[w].on
    BY <1>1, OnMerchant
  <1>3. kyc' = [kyc EXCEPT ![m] = "PENDING"] \/ UNCHANGED kyc
    BY <1>2 DEF CommitKyc
  <1>4. \A x \in Merchants : x # m => kyc'[x] = kyc[x]
    BY <1>3, Typed
  <1>5. /\ \A x \in Merchants : x # m => merchant'[x] = merchant[x]
        /\ Sound(job[w], m) => merchant'[m].status # "ACTIVE"
    <2>1. CASE job[w].at = "commitKyc"
      BY <2>1 DEF CommitKyc, StayAsIs, Sound
    <2>2. CASE job[w].at = "commitKycSuspend"
      <3>1. IF Suspendable(m) THEN Change(m, "SUSPENDED") ELSE StayAsIs
        BY <1>2, <2>2 DEF CommitKyc
      <3>. QED
        BY <3>1, Suspended
    <2>. QED
      BY <1>1, <2>1, <2>2
  <1>. QED
    BY <1>1, <1>2, <1>4, <1>5, EndCleared DEF Clear

LEMMA SaveRestrictionCleared ==
    ASSUME BaseInv, ClearInv, NEW w \in Workers, SaveRestriction(w)
    PROVE  ClearInv'
  <1>1. /\ job[w].at \in {"block", "sanction"} /\ UNCHANGED <<kyc, unguarded>>
        /\ IF SeenActive(w) THEN Go(w, "restrict") ELSE Return(w)
    BY DEF SaveRestriction
  <1>2. PICK m \in Merchants : m = job[w].on
    BY <1>1, OnMerchant
  <1>3. PICK row \in {[merchant[m] EXCEPT !.blocked = TRUE],
                      [merchant[m] EXCEPT !.sanctioned = TRUE]} :
           merchant' = [merchant EXCEPT ![m] = row]
    <2>1. \/ merchant' = [merchant EXCEPT ![m].blocked = TRUE]
          \/ merchant' = [merchant EXCEPT ![m].sanctioned = TRUE]
      BY <1>2 DEF SaveRestriction
    <2>. QED
      BY <2>1
  <1>4. row.status = merchant[m].status
    BY FieldRows
  <1>5. /\ merchant'[m].status = merchant[m].status
        /\ \A x \in Merchants : x # m => merchant'[x] = merchant[x]
    BY <1>3, <1>4, Replaced
  <1>6. CASE SeenActive(w)
    <2>1. "restrict" \in MerchantSteps
      BY DEF MerchantSteps
    <2>2. Sound(job[w], m)'
      BY <1>1, <1>6, <2>1, Going DEF Sound
    <2>. QED
      BY <1>1, <1>2, <1>5, <1>6, <2>1, <2>2, OnwardCleared
  <1>7. CASE ~ SeenActive(w)
    <2>1. Sound(job[w], m) => Clear(m)'
      BY <1>1, <1>5, <1>7 DEF Sound, SeenActive, Clear
    <2>. QED
      BY <1>1, <1>2, <1>5, <1>7, <2>1, EndCleared
  <1>. QED
    BY <1>6, <1>7

LEMMA SuspendRestrictedCleared ==
    ASSUME BaseInv, ClearInv, NEW w \in Workers, SuspendRestricted(w)
    PROVE  ClearInv'
  <1>1. job[w].at = "restrict" /\ Return(w) /\ UNCHANGED <<kyc, unguarded>>
    BY DEF SuspendRestricted
  <1>2. PICK m \in Merchants : m = job[w].on
    BY <1>1, OnMerchant
  <1>3. IF Suspendable(m) THEN Change(m, "SUSPENDED") ELSE StayAsIs
    BY <1>2 DEF SuspendRestricted
  <1>4. Clear(m)'
    BY <1>3, Suspended DEF Clear
  <1>. QED
    BY <1>1, <1>2, <1>3, <1>4, Suspended, EndCleared

LEMMA GuardProfileCleared ==
    ASSUME BaseInv, ClearInv, NEW w \in Workers, GuardProfile(w)
    PROVE  ClearInv'
  <1>1. /\ job[w].at = "guardProfile" /\ UNCHANGED <<merchant, kyc, unguarded>>
        /\ Go(w, "saveProfile") \/ Return(w)
    BY DEF GuardProfile
  <1>2. PICK m \in Merchants : m = job[w].on
    BY <1>1, OnMerchant
  <1>3. CASE Go(w, "saveProfile")
    <2>1. "saveProfile" \in MerchantSteps
      BY DEF MerchantSteps
    <2>2. Sound(job[w], m) => Sound(job[w], m)'
      BY <1>1, <1>3, <2>1, Going DEF Sound
    <2>. QED
      BY <1>1, <1>2, <1>3, <2>1, <2>2, OnwardCleared
  <1>4. CASE Return(w)
    <2>1. Sound(job[w], m) => Clear(m)'
      BY <1>1 DEF Sound, Clear, Fit
    <2>. QED
      BY <1>1, <1>2, <1>4, <2>1, EndCleared
  <1>. QED
    BY <1>1, <1>3, <1>4

LEMMA SaveProfileCleared ==
    ASSUME BaseInv, ClearInv, NEW w \in Workers, SaveProfile(w)
    PROVE  ClearInv'
  <1>1. job[w].at = "saveProfile" /\ Return(w) /\ UNCHANGED kyc
    BY DEF SaveProfile
  <1>2. PICK m \in Merchants : m = job[w].on
    BY <1>1, OnMerchant
  <1>3. PICK row \in Forms(job[w].seen) :
            /\ merchant' = [merchant EXCEPT ![m] = row]
            /\ unguarded' = IF row.blocked \/ row.sanctioned THEN unguarded \cup {m}
                                                            ELSE unguarded
    BY <1>2 DEF SaveProfile
  <1>4. row.status = job[w].seen.status
    <2>1. job[w].seen \in MerchantRow
      BY <1>1, OnMerchant
    <2>. QED
      BY <2>1 DEF Forms, MerchantRow
  <1>5. merchant'[m] = row /\ \A x \in Merchants : x # m => merchant'[x] = merchant[x]
    BY <1>3, Replaced
  <1>6. m \notin unguarded' => (Sound(job[w], m) => Clear(m)')
    BY <1>1, <1>3, <1>4, <1>5 DEF Sound, Clear, Fit
  <1>7. unguarded \subseteq unguarded'
    BY <1>3
  <1>. QED
    BY <1>1, <1>2, <1>5, <1>6, <1>7, EndCleared

LEMMA SaveDeletedCleared ==
    ASSUME BaseInv, ClearInv, NEW w \in Workers, SaveDeleted(w)
    PROVE  ClearInv'
  <1>1. job[w].at = "delete" /\ Return(w) /\ UNCHANGED <<kyc, unguarded>>
    BY DEF SaveDeleted
  <1>2. PICK m \in Merchants : m = job[w].on
    BY <1>1, OnMerchant
  <1>. DEFINE row == [merchant[m] EXCEPT !.deleted = TRUE]
  <1>3. merchant' = [merchant EXCEPT ![m] = row]
    BY <1>2 DEF SaveDeleted
  <1>4. /\ row.status = merchant[m].status /\ row.blocked = merchant[m].blocked
        /\ row.sanctioned = merchant[m].sanctioned
    BY Rows DEF MerchantRow
  <1>. HIDE DEF row
  <1>5. merchant'[m] = row /\ \A x \in Merchants : x # m => merchant'[x] = merchant[x]
    BY <1>3, Replaced
  <1>6. Sound(job[w], m) => Clear(m)'
    BY <1>1, <1>4, <1>5 DEF Sound, Clear, Fit
  <1>. QED
    BY <1>1, <1>2, <1>5, <1>6, EndCleared

LEMMA CrashCleared ==
    ASSUME BaseInv, ClearInv, NEW w \in Workers, Crash(w)
    PROVE  ClearInv'
  <1>1. job[w].at # "idle" /\ Return(w) /\ UNCHANGED <<merchant, kyc>>
    BY DEF Crash
  <1>2. PICK m \in Merchants : m = job[w].on
    BY <1>1, OnMerchant
  <1>3. unguarded' = unguarded \cup {m}
    BY <1>2 DEF Crash
  <1>. QED
    BY <1>1, <1>2, <1>3, EndCleared

\* A handler that is one step.
LEMMA OneStepCleared ==
    ASSUME BaseInv, ClearInv, NEW m \in Merchants, Touch(m), UNCHANGED job,
           \A x \in Merchants : x # m => merchant'[x] = merchant[x] /\ kyc'[x] = kyc[x],
           Clear(m) => Clear(m)'
    PROVE  ClearInv'
  <1>1. ClearedAt(m)'
    BY TouchedCleared
  <1>. QED
    BY <1>1, TouchKeeps, AtOne

\* An approval of a KYC that is PENDING: an active merchant has none.
LEMMA ApprovesClear ==
    ASSUME BaseInv, NEW m \in Merchants, NEW block \in BOOLEAN, ApproveKyc(m, block)
    PROVE  /\ Clear(m) => Clear(m)'
           /\ \A x \in Merchants : x # m => merchant'[x] = merchant[x] /\ kyc'[x] = kyc[x]
  <1>. DEFINE row == [merchant[m] EXCEPT !.blocked = block, !.status = "ACTIVE"]
  <1>1. /\ kyc[m] = "PENDING" /\ merchant' = [merchant EXCEPT ![m] = row]
        /\ merchant[m].status # "ACTIVE" => ~ row.blocked /\ ~ row.sanctioned
    BY DEF ApproveKyc, Reviewable, Write
  <1>2. kyc' = [kyc EXCEPT ![m] = "APPROVED"]
    BY DEF ApproveKyc
  <1>3. kyc'[m] = "APPROVED" /\ \A x \in Merchants : x # m => kyc'[x] = kyc[x]
    BY <1>2, Typed
  <1>. HIDE DEF row
  <1>4. merchant'[m] = row /\ \A x \in Merchants : x # m => merchant'[x] = merchant[x]
    BY <1>1, Replaced
  <1>5. Clear(m) => Clear(m)'
    BY <1>1, <1>3, <1>4 DEF Clear, Fit
  <1>. QED
    BY <1>3, <1>4, <1>5

LEMMA ReviewKycCleared ==
    ASSUME BaseInv, ClearInv, NEW m \in Merchants, ReviewKyc(m)
    PROVE  ClearInv'
  <1>1. Touch(m) /\ UNCHANGED job
    BY DEF ReviewKyc
  <1>2. CASE RejectKyc(m)
    <2>1. /\ kyc' = [kyc EXCEPT ![m] = "REJECTED"]
          /\ IF merchant[m].status = "ACTIVE" THEN Change(m, "SUSPENDED") ELSE StayAsIs
      BY <1>2 DEF RejectKyc
    <2>2. \A x \in Merchants : x # m => kyc'[x] = kyc[x]
      BY <2>1, Typed
    <2>3. /\ merchant'[m].status # "ACTIVE"
          /\ \A x \in Merchants : x # m => merchant'[x] = merchant[x]
      BY <2>1, Changed DEF StayAsIs
    <2>4. Clear(m)'
      BY <2>3 DEF Clear
    <2>. QED
      BY <1>1, <2>2, <2>3, <2>4, OneStepCleared
  <1>3. CASE \E block \in BOOLEAN : ApproveKyc(m, block)
    BY <1>1, <1>3, ApprovesClear, OneStepCleared
  <1>. QED
    BY <1>2, <1>3 DEF ReviewKyc

LEMMA LiftCleared ==
    ASSUME BaseInv, ClearInv, NEW m \in Merchants, Lift(m)
    PROVE  ClearInv'
  <1>1. Touch(m) /\ UNCHANGED <<kyc, job>>
    BY DEF Lift
  <1>2. PICK row \in {[merchant[m] EXCEPT !.blocked = FALSE],
                      [merchant[m] EXCEPT !.sanctioned = FALSE]} :
           merchant' = [merchant EXCEPT ![m] = row]
    <2>1. \/ merchant' = [merchant EXCEPT ![m].blocked = FALSE]
          \/ merchant' = [merchant EXCEPT ![m].sanctioned = FALSE]
      BY DEF Lift
    <2>. QED
      BY <2>1
  <1>3. /\ row.status = merchant[m].status
        /\ row.blocked => merchant[m].blocked
        /\ row.sanctioned => merchant[m].sanctioned
    BY Rows DEF MerchantRow
  <1>4. merchant'[m] = row /\ \A x \in Merchants : x # m => merchant'[x] = merchant[x]
    BY <1>2, Replaced
  <1>5. Clear(m) => Clear(m)'
    BY <1>1, <1>3, <1>4 DEF Clear, Fit
  <1>. QED
    BY <1>1, <1>4, <1>5, OneStepCleared

LEMMA SwitchProductCleared ==
    ASSUME BaseInv, ClearInv, NEW m \in Merchants, SwitchProduct(m)
    PROVE  ClearInv'
  <1>1. Touch(m) /\ UNCHANGED <<merchant, kyc, job>>
    BY DEF SwitchProduct
  <1>2. Clear(m) => Clear(m)'
    BY <1>1 DEF Clear, Fit
  <1>. QED
    BY <1>1, <1>2, OneStepCleared

\* Steps that take nothing from any merchant.
LEMMA HarmlessCleared ==
    ASSUME ClearInv, UNCHANGED <<kyc, unguarded, job>>,
           \A m \in Merchants :
               /\ merchant'[m].status \in {merchant[m].status, "PENDING", "SUSPENDED", "CLOSED"}
               /\ merchant'[m].blocked = merchant[m].blocked
               /\ merchant'[m].sanctioned = merchant[m].sanctioned
    PROVE  ClearInv'
  BY StaysCleared DEF ClearInv

LEMMA ExpireCleared ==
    ASSUME BaseInv, ClearInv, NEW m \in Merchants, Expire(m)
    PROVE  ClearInv'
  <1>. DEFINE row == [merchant[m] EXCEPT !.licence = "expired"]
  <1>1. merchant' = [merchant EXCEPT ![m] = row] /\ UNCHANGED <<kyc, unguarded, job>>
    BY DEF Expire
  <1>2. /\ row.status = merchant[m].status /\ row.blocked = merchant[m].blocked
        /\ row.sanctioned = merchant[m].sanctioned
    BY Rows DEF MerchantRow
  <1>. HIDE DEF row
  <1>. QED
    BY <1>1, <1>2, Replaced, HarmlessCleared

LEMMA CreateByHandCleared ==
    ASSUME BaseInv, ClearInv, NEW m \in Merchants, NEW licence \in Licences,
           CreateByHand(m, licence)
    PROVE  ClearInv'
  <1>. DEFINE row == [merchant[m] EXCEPT !.status = "PENDING", !.licence = licence]
  <1>1. merchant' = [merchant EXCEPT ![m] = row] /\ UNCHANGED <<kyc, unguarded, job>>
    BY DEF CreateByHand
  <1>2. /\ row.status = "PENDING" /\ row.blocked = merchant[m].blocked
        /\ row.sanctioned = merchant[m].sanctioned
    BY Rows DEF MerchantRow
  <1>. HIDE DEF row
  <1>. QED
    BY <1>1, <1>2, Replaced, HarmlessCleared

LEMMA SuspendOverdueCleared ==
    ASSUME BaseInv, ClearInv, NEW m \in Merchants, SuspendOverdue(m)
    PROVE  ClearInv'
  <1>1. /\ IF Suspendable(m) THEN Change(m, "SUSPENDED") ELSE StayAsIs
        /\ UNCHANGED <<kyc, unguarded, job>>
    BY DEF SuspendOverdue
  <1>. QED
    BY <1>1, Suspended, HarmlessCleared

LEMMA HandlersCleared ==
    ASSUME BaseInv, ClearInv, MerchantHandlers
    PROVE  ClearInv'
  <1>1. ASSUME NEW m \in Merchants, NEW to \in {"SUSPENDED", "CLOSED"}, Stop(m, to)
        PROVE  ClearInv'
    BY <1>1, StopCleared
  <1>2. ASSUME NEW w \in Workers, NEW m \in Merchants,
               \/ ReadActivate(w, m) \/ ReadKyc(w, m) \/ ReadProfile(w, m) \/ Destroy(w, m)
               \/ \E s \in {"block", "sanction", "restrict"} : ReadRestrict(w, m, s)
        PROVE  ClearInv'
    BY <1>2, ReadActivateCleared, ReadKycCleared, ReadProfileCleared, DestroyCleared,
       ReadRestrictCleared
  <1>3. ASSUME NEW m \in Merchants, ReviewKyc(m) \/ Lift(m) \/ SwitchProduct(m) \/ Expire(m)
        PROVE  ClearInv'
    BY <1>3, ReviewKycCleared, LiftCleared, SwitchProductCleared, ExpireCleared
  <1>4. ASSUME NEW m \in Merchants, NEW licence \in Licences, CreateByHand(m, licence)
        PROVE  ClearInv'
    BY <1>4, CreateByHandCleared
  <1>5. ASSUME NEW w \in Workers, Proceed(w) \/ Crash(w)
        PROVE  ClearInv'
    BY <1>5, CommitActivateCleared, LockKycCleared, CommitKycCleared, SaveRestrictionCleared,
       SuspendRestrictedCleared, GuardProfileCleared, SaveProfileCleared, SaveDeletedCleared,
       CrashCleared DEF Proceed
  <1>6. CASE StartLicenceJob \/ KillLicenceJob
    BY <1>6, HarmlessCleared DEF StartLicenceJob, KillLicenceJob
  <1>7. CASE \E m \in Merchants : SuspendOverdue(m)
    BY <1>7, SuspendOverdueCleared
  <1>. QED
    BY <1>1, <1>2, <1>3, <1>4, <1>5, <1>6, <1>7 DEF MerchantHandlers, LicenceJob

LEMMA ApproveNewCleared ==
    ASSUME BaseInv, ClearInv, NEW u \in Users, ApproveNew(u)
    PROVE  ClearInv'
  <1>1. UNCHANGED <<unguarded, job>>
    BY DEF ApproveNew
  <1>2. PICK m \in Merchants :
          /\ merchant[m].status = "none"
          /\ merchant' = [merchant EXCEPT ![m].status = "ACTIVE", ![m].licence = "valid"]
          /\ kyc' = [kyc EXCEPT ![m] = "APPROVED"]
    BY DEF ApproveNew
  <1>. DEFINE row == [merchant[m] EXCEPT !.status = "ACTIVE", !.licence = "valid"]
  <1>3. merchant' = [merchant EXCEPT ![m] = row]
    BY <1>2
  <1>4. row.blocked = merchant[m].blocked /\ row.sanctioned = merchant[m].sanctioned
    BY Rows DEF MerchantRow
  <1>. HIDE DEF row
  <1>5. merchant'[m] = row /\ \A x \in Merchants : x # m => merchant'[x] = merchant[x]
    BY <1>3, Replaced
  <1>6. kyc' = [kyc EXCEPT ![m] = "APPROVED"]
    BY <1>2
  <1>7. kyc'[m] = "APPROVED" /\ \A x \in Merchants : x # m => kyc'[x] = kyc[x]
    BY <1>6, Typed
  <1>8. Clear(m)'
    BY <1>2, <1>4, <1>5, <1>7 DEF Clear, Fit, BaseInv, RowsInv
  <1>9. \A w \in Workers : job'[w].on # m
    BY <1>1, <1>2, OnMerchant, MerchantParameters DEF BaseInv, JobsInv
  <1>10. ClearedAt(m)'
    BY <1>8, <1>9 DEF ClearedAt
  <1>. QED
    BY <1>1, <1>5, <1>7, <1>10, AtOne

LEMMA ApproveBoundCleared ==
    ASSUME BaseInv, ClearInv, NEW u \in Users, ApproveBound(u)
    PROVE  ClearInv'
  <1>1. user[u].merchant # "none" /\ UNCHANGED job
    BY DEF ApproveBound, Unbound
  <1>2. PICK m \in Merchants : m = user[u].merchant
    BY <1>1, Typed DEF UserRow
  <1>3. \/ ApproveKyc(m, FALSE) /\ Touch(m)
        \/ UNCHANGED <<merchant, kyc, unguarded>>
    BY <1>2 DEF ApproveBound
  <1>4. CASE ApproveKyc(m, FALSE) /\ Touch(m)
    BY <1>1, <1>4, ApprovesClear, OneStepCleared
  <1>5. CASE UNCHANGED <<merchant, kyc, unguarded>>
    BY <1>1, <1>5, HarmlessCleared
  <1>. QED
    BY <1>3, <1>4, <1>5

LEMMA NextCleared ==
    ASSUME BaseInv, ClearInv, [Next]_vars
    PROVE  ClearInv'
  <1>1. ASSUME UNCHANGED merchantVars PROVE ClearInv'
    BY <1>1, HarmlessCleared DEF merchantVars
  <1>2. ASSUME NEW u \in Users, NEW withCode \in BOOLEAN, Submit(u, withCode)
        PROVE  ClearInv'
    BY <1>1, <1>2 DEF Submit
  <1>3. ASSUME NEW u \in Users, StartReview(u) \/ ReviewByAgent(u) \/ RejectUser(u)
        PROVE  ClearInv'
    BY <1>1, <1>3 DEF StartReview, ReviewByAgent, RejectUser
  <1>4. CASE Onboarding
    BY <1>2, <1>3, <1>4, ApproveNewCleared, ApproveBoundCleared DEF Onboarding
  <1>5. CASE MerchantHandlers
    BY <1>5, HandlersCleared
  <1>6. CASE UNCHANGED vars
    BY <1>1, <1>6 DEF vars
  <1>. QED
    BY <1>4, <1>5, <1>6 DEF Next

LEMMA InitCleared ==
    Init => ClearInv
  <1>. SUFFICES ASSUME Init PROVE ClearInv
    OBVIOUS
  <1>1. \A w \in Workers : job[w].on = "none"
    BY DEF Init, MerchantInit, Idle
  <1>2. /\ kyc = [m \in Merchants |-> IF m \in Established THEN "APPROVED" ELSE "none"]
        /\ merchant = [m \in Merchants |->
                         IF m \in Established
                         THEN [NewRow EXCEPT !.status = "ACTIVE", !.licence = "valid"] ELSE NewRow]
    BY DEF Init, MerchantInit
  <1>3. \A m \in Merchants : Clear(m)
    BY <1>2 DEF Clear, Fit, NewRow
  <1>. QED
    BY <1>1, <1>3, MerchantParameters DEF ClearInv, ClearedAt

-----------------------------------------------------------------------------
LEMMA Invariant ==
    Spec => [](BaseInv /\ UsersInv /\ EventsExplainStatus)
  <1>1. Init => BaseInv /\ UsersInv /\ EventsExplainStatus
    <2>1. ASSUME Init PROVE UsersInv
      BY <2>1 DEF Init, UsersInv, ApprovedOnce
    <2>. QED
      BY <2>1, InitBase
  <1>2. BaseInv /\ UsersInv /\ EventsExplainStatus /\ [Next]_vars
        => (BaseInv /\ UsersInv /\ EventsExplainStatus)'
    BY NextEffect, BaseStep
  <1>. QED
    BY <1>1, <1>2, PTL DEF Spec

\* Every variable keeps its type.
THEOREM OnboardingTyped == Spec => []TypeOK
  <1>1. BaseInv => TypeOK
    BY DEF BaseInv
  <1>. QED
    BY <1>1, Invariant, PTL

\* However often a user submits and is approved, the user gets one merchant, and
\* nobody is approved without the word of the agent the submission names.
THEOREM OneMerchantPerUser == Spec => []ApprovedOnce
  <1>1. UsersInv => ApprovedOnce
    BY DEF UsersInv
  <1>. QED
    BY <1>1, Invariant, PTL

\* The events of a merchant explain its status, whatever interleaves, unless a
\* profile save wrote over a status that had changed.
THEOREM StatusExplained == Spec => []EventsExplainStatus
  BY Invariant, PTL

\* A merchant that was closed is never opened again, with the same exception.
THEOREM ClosedStaysClosed == Spec => ClosedForGood
  <1>1. BaseInv /\ UsersInv /\ [Next]_vars
        => [\A m \in Merchants \ overlapped' :
               merchant[m].status = "CLOSED" => merchant'[m].status = "CLOSED"]_vars
    <2>. SUFFICES ASSUME BaseInv, UsersInv, [Next]_vars, NEW m \in Merchants \ overlapped',
                         merchant[m].status = "CLOSED"
                  PROVE  merchant'[m].status = "CLOSED"
      OBVIOUS
    <2>. QED
      BY NextEffect DEF Effect, RowStep
  <1>. QED
    BY <1>1, Invariant, PTL DEF Spec, ClosedForGood

\* An active merchant has an approved KYC and no restriction, unless two handlers
\* were at it, one was left half done, or the profile form restricted it.
THEOREM ActiveIsCleared == Spec => []ActiveCleared
  <1>1. Init => BaseInv /\ UsersInv /\ ClearInv
    <2>1. ASSUME Init PROVE UsersInv
      BY <2>1 DEF Init, UsersInv, ApprovedOnce
    <2>. QED
      BY <2>1, InitBase, InitCleared
  <1>2. BaseInv /\ UsersInv /\ ClearInv /\ [Next]_vars => (BaseInv /\ UsersInv /\ ClearInv)'
    BY NextEffect, BaseStep, NextCleared
  <1>3. ClearInv => ActiveCleared
    BY DEF ClearInv, ClearedAt, ActiveCleared, Clear, Fit
  <1>. QED
    BY <1>1, <1>2, <1>3, PTL DEF Spec

=============================================================================
