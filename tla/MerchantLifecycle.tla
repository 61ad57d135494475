------------------------- MODULE MerchantLifecycle -------------------------
(***************************************************************************)
(* The status of merchants, their KYC, and what restricts them.  Handlers  *)
(* that the code runs in one transaction under the merchant's lock, and    *)
(* that read nothing else, are one step.  The others are the steps between *)
(* which somebody else's commit may fall; a worker in the middle of one    *)
(* has a job.  The licence job runs on its own.                            *)
(***************************************************************************)
EXTENDS Integers, FiniteSets

CONSTANTS Workers,       \* processes serving requests
          Merchants,     \* Merchant rows
          Established,   \* merchants that are active at first
          MaxOps         \* bound: operations on merchants

ASSUME MerchantParameters ==
    /\ Established \subseteq Merchants
    /\ MaxOps \in Nat
    /\ "none" \notin Merchants

VARIABLES merchant,    \* [Merchants -> MerchantRow]
          product,     \* [Merchants -> the wire-transfer product is enabled]
          kyc,         \* [Merchants -> MerchantKYC.kyc_status]
          told,        \* [Merchants -> the status the last event tells]
          gaps,        \* merchants with an event that does not start where
                       \* the event before it ended
          overlapped,  \* merchants whose status a profile save wrote back
          unguarded,   \* merchants two handlers were at, or one left half done,
                       \* or restricted by the profile form
          job,         \* [Workers -> the handler a worker is in]
          overdue,     \* what is left of the licence job's list
          ops          \* operations so far

merchantVars == <<merchant, product, kyc, told, gaps, overlapped, unguarded, job, overdue, ops>>

Statuses == {"PENDING", "ACTIVE", "SUSPENDED", "CLOSED"}
Licences == {"none", "valid", "expired"}
MerchantRow == [status : Statuses \cup {"none"}, licence : Licences, blocked : BOOLEAN,
                sanctioned : BOOLEAN, deleted : BOOLEAN]

KycStatuses == {"none", "PENDING", "APPROVED", "REJECTED"}

KycSteps == {"submitKyc", "replaceKyc", "commitKyc", "commitKycSuspend"}
MerchantSteps == {"idle", "activate", "block", "sanction", "restrict", "guardProfile",
                  "saveProfile", "delete"} \cup KycSteps

Job == [at : MerchantSteps, on : Merchants \cup {"none"}, seen : MerchantRow]

NewRow == [status |-> "none", licence |-> "none", blocked |-> FALSE, sanctioned |-> FALSE,
           deleted |-> FALSE]
Idle == [at |-> "idle", on |-> "none", seen |-> NewRow]

MerchantTypeOK ==
    /\ merchant \in [Merchants -> MerchantRow]
    /\ product \in [Merchants -> BOOLEAN]
    /\ kyc \in [Merchants -> KycStatuses]
    /\ told \in [Merchants -> Statuses \cup {"none"}]
    /\ gaps \subseteq Merchants
    /\ overlapped \subseteq Merchants
    /\ unguarded \subseteq Merchants
    /\ job \in [Workers -> Job]
    /\ overdue \subseteq Merchants
    /\ ops \in Nat

MerchantInit ==
    /\ merchant = [m \in Merchants |->
                      IF m \in Established
                      THEN [NewRow EXCEPT !.status = "ACTIVE", !.licence = "valid"] ELSE NewRow]
    /\ product = [m \in Merchants |-> m \in Established]
    /\ kyc = [m \in Merchants |-> IF m \in Established THEN "APPROVED" ELSE "none"]
    /\ told = [m \in Merchants |-> merchant[m].status]
    /\ gaps = {}
    /\ overlapped = {}
    /\ unguarded = {}
    /\ job = [w \in Workers |-> Idle]
    /\ overdue = {}
    /\ ops = 0

-----------------------------------------------------------------------------
Exists(m) == merchant[m].status # "none" /\ ~ merchant[m].deleted
Busy(m) == \E w \in Workers : job[w].on = m
Operate == ops < MaxOps /\ ops' = ops + 1

\* The rows an open transaction holds.
Holding(m) == \E w \in Workers : job[w].at = "activate" /\ job[w].on = m
HoldingKyc(m) == \E w \in Workers : /\ job[w].at \in {"commitKyc", "commitKycSuspend"}
                                    /\ job[w].on = m

Enter(w, step, m) ==
    /\ job[w].at = "idle"
    /\ job' = [job EXCEPT ![w] = [at |-> step, on |-> m, seen |-> merchant[m]]]

Go(w, step) == job' = [job EXCEPT ![w].at = step]
Return(w) == job' = [job EXCEPT ![w] = Idle]

\* A handler touches m: if another one is at it, m is unguarded from now on.
Touch(m) == unguarded' = IF Busy(m) THEN unguarded \cup {m} ELSE unguarded

-----------------------------------------------------------------------------
\* A variant with a bug: a closed merchant can be opened again.
Reopenable ==
    [PENDING |-> {"ACTIVE", "CLOSED"}, ACTIVE |-> {"SUSPENDED", "CLOSED"},
     SUSPENDED |-> {"ACTIVE", "CLOSED"}, CLOSED |-> {"ACTIVE"}, none |-> {}]

AllowedTransitions ==
    [PENDING |-> {"ACTIVE", "CLOSED"}, ACTIVE |-> {"SUSPENDED", "CLOSED"},
     SUSPENDED |-> {"ACTIVE", "CLOSED"}, CLOSED |-> {}, none |-> {}]

Allowed(m, to) == to \in AllowedTransitions[merchant[m].status]

\* The same status again changes nothing and is no error.
Suspendable(m) == merchant[m].status = "SUSPENDED" \/ Allowed(m, "SUSPENDED")

\* activation_blockers.
Blocked(m, row) ==
    \/ kyc[m] # "APPROVED"
    \/ row.licence # "valid"
    \/ row.blocked
    \/ row.sanctioned
    \/ ~ product[m]

\* What transition writes under the lock, with its event.
Write(m, row) ==
    /\ merchant' = [merchant EXCEPT ![m] = row]
    /\ IF row.status = merchant[m].status
       THEN UNCHANGED <<told, gaps>>
       ELSE /\ told' = [told EXCEPT ![m] = row.status]
            /\ gaps' = IF told[m] = merchant[m].status THEN gaps ELSE gaps \cup {m}

\* A variant with a bug: the status is set without an event.
SetStatus(m, to) ==
    merchant' = [merchant EXCEPT ![m].status = to] /\ UNCHANGED <<told, gaps>>

Change(m, to) == Write(m, [merchant[m] EXCEPT !.status = to])
StayAsIs == UNCHANGED <<merchant, told, gaps>>

\* The view's suspend and close.
Stop(m, to) ==
    /\ Operate
    /\ Exists(m)
    /\ ~ Holding(m)
    /\ to \in {"SUSPENDED", "CLOSED"} /\ Allowed(m, to)
    /\ Change(m, to)
    /\ Touch(m)
    /\ UNCHANGED <<product, kyc, overlapped, job, overdue>>

\* activate locks the merchant and reads the KYC and the product without a
\* lock; it writes later.
ReadActivate(w, m) ==
    /\ Operate
    /\ Exists(m)
    /\ ~ Holding(m)
    /\ Allowed(m, "ACTIVE")
    /\ ~ Blocked(m, merchant[m])
    /\ Enter(w, "activate", m)
    /\ Touch(m)
    /\ UNCHANGED <<merchant, product, kyc, told, gaps, overlapped, overdue>>

CommitActivate(w) ==
    /\ job[w].at = "activate"
    /\ Change(job[w].on, "ACTIVE")
    /\ Return(w)
    /\ UNCHANGED <<product, kyc, overlapped, unguarded, overdue, ops>>

-----------------------------------------------------------------------------
\* set_kyc reads what there is without a lock.
ReadKyc(w, m) ==
    /\ Operate
    /\ Exists(m)
    /\ Enter(w, IF kyc[m] = "APPROVED" THEN "replaceKyc" ELSE "submitKyc", m)
    /\ Touch(m)
    /\ UNCHANGED <<merchant, product, kyc, told, gaps, overlapped, overdue>>

\* update_or_create locks the KYC row, and the merchant's status is read.
LockKyc(w) ==
    LET m == job[w].on
        approvedBefore == job[w].at = "replaceKyc"
    IN  /\ job[w].at \in {"submitKyc", "replaceKyc"}
        /\ ~ HoldingKyc(m)
        /\ Go(w, IF approvedBefore /\ merchant[m].status = "ACTIVE"
                 THEN "commitKycSuspend" ELSE "commitKyc")
        /\ UNCHANGED <<merchant, product, kyc, told, gaps, overlapped, unguarded, overdue, ops>>

\* The suspension locks the merchant; if that is not to be suspended any more
\* all is undone.
CommitKyc(w) ==
    LET m == job[w].on
        Done == kyc' = [kyc EXCEPT ![m] = "PENDING"]
    IN  /\ \/ job[w].at = "commitKyc" /\ Done /\ StayAsIs
           \/ /\ job[w].at = "commitKycSuspend"
              /\ ~ Holding(m)
              /\ IF Suspendable(m) THEN Done /\ Change(m, "SUSPENDED")
                                   ELSE StayAsIs /\ UNCHANGED kyc
        /\ Return(w)
        /\ UNCHANGED <<product, overlapped, unguarded, overdue, ops>>

\* review_kyc, for a KYC that is PENDING, under both locks: the approval sets
\* the risk level, enables the product, and activates in the same transaction.
Reviewable(m) == ~ Holding(m) /\ ~ HoldingKyc(m) /\ kyc[m] = "PENDING"

ApproveKyc(m, block) ==
    LET row == [merchant[m] EXCEPT !.blocked = block, !.status = "ACTIVE"]
    IN  /\ Reviewable(m)
        /\ row.licence = "valid"
        /\ \/ merchant[m].status = "ACTIVE"
           \/ Allowed(m, "ACTIVE") /\ ~ row.blocked /\ ~ row.sanctioned
        /\ Write(m, row)
        /\ kyc' = [kyc EXCEPT ![m] = "APPROVED"]
        /\ product' = [product EXCEPT ![m] = TRUE]

RejectKyc(m) ==
    /\ Reviewable(m)
    /\ IF merchant[m].status = "ACTIVE" THEN Change(m, "SUSPENDED") ELSE StayAsIs
    /\ kyc' = [kyc EXCEPT ![m] = "REJECTED"]
    /\ UNCHANGED product

ReviewKyc(m) ==
    /\ Operate
    /\ Exists(m)
    /\ RejectKyc(m) \/ \E block \in BOOLEAN : ApproveKyc(m, block)
    /\ Touch(m)
    /\ UNCHANGED <<overlapped, job, overdue>>

-----------------------------------------------------------------------------
\* update_risk_level to BLOCKED, update_sanction_status to OFAC, and the audit's
\* --fix of an ACTIVE merchant that is not eligible.
ReadRestrict(w, m, step) ==
    /\ Operate
    /\ Exists(m)
    /\ step = "restrict" => merchant[m].status = "ACTIVE" /\ Blocked(m, merchant[m])
    /\ Enter(w, step, m)
    /\ Touch(m)
    /\ UNCHANGED <<merchant, product, kyc, told, gaps, overlapped, overdue>>

\* A variant with a bug: only merchants that were PENDING are suspended.
SeenPending(w) == job[w].seen.status = "PENDING"

\* The field is saved; the merchant is suspended next if it was read as ACTIVE.
SeenActive(w) == job[w].seen.status = "ACTIVE"

SaveRestriction(w) ==
    LET m == job[w].on
    IN  /\ \/ /\ job[w].at = "block"
              /\ merchant' = [merchant EXCEPT ![m].blocked = TRUE]
           \/ /\ job[w].at = "sanction"
              /\ merchant' = [merchant EXCEPT ![m].sanctioned = TRUE]
        /\ ~ Holding(m)
        /\ IF SeenActive(w) THEN Go(w, "restrict") ELSE Return(w)
        /\ UNCHANGED <<product, kyc, told, gaps, overlapped, unguarded, overdue, ops>>

SuspendRestricted(w) ==
    LET m == job[w].on
    IN  /\ job[w].at = "restrict"
        /\ ~ Holding(m)
        /\ IF Suspendable(m) THEN Change(m, "SUSPENDED") ELSE StayAsIs
        /\ Return(w)
        /\ UNCHANGED <<product, kyc, overlapped, unguarded, overdue, ops>>

\* The same handlers lift a restriction in one update; the product is switched.
Lift(m) ==
    /\ Operate
    /\ Exists(m)
    /\ ~ Holding(m)
    /\ \/ merchant[m].blocked /\ merchant' = [merchant EXCEPT ![m].blocked = FALSE]
       \/ merchant[m].sanctioned /\ merchant' = [merchant EXCEPT ![m].sanctioned = FALSE]
    /\ Touch(m)
    /\ UNCHANGED <<product, kyc, told, gaps, overlapped, job, overdue>>

SwitchProduct(m) ==
    /\ Operate
    /\ Exists(m)
    /\ product' = [product EXCEPT ![m] = ~ @]
    /\ Touch(m)
    /\ UNCHANGED <<merchant, kyc, told, gaps, overlapped, job, overdue>>

-----------------------------------------------------------------------------
\* The generic update reads the row; save compares the status it read with the
\* one in the database and then writes every column.
ReadProfile(w, m) ==
    /\ Operate
    /\ Exists(m)
    /\ Enter(w, "guardProfile", m)
    /\ Touch(m)
    /\ UNCHANGED <<merchant, product, kyc, told, gaps, overlapped, overdue>>

SameStatus(w) == job[w].seen.status = merchant[job[w].on].status

GuardProfile(w) ==
    /\ job[w].at = "guardProfile"
    /\ IF SameStatus(w) THEN Go(w, "saveProfile") ELSE Return(w)
    /\ UNCHANGED <<merchant, product, kyc, told, gaps, overlapped, unguarded, overdue, ops>>

\* The form may change the licence, the risk level and the sanction status; one
\* of them here, for several can be changed by several saves.
Forms(row) ==
    {[row EXCEPT !.licence = licence] : licence \in Licences}
    \cup {[row EXCEPT !.blocked = ~ @], [row EXCEPT !.sanctioned = ~ @]}

SaveProfile(w) ==
    LET m == job[w].on
    IN  /\ job[w].at = "saveProfile"
        /\ ~ Holding(m)
        /\ \E row \in Forms(job[w].seen) :
               /\ merchant' = [merchant EXCEPT ![m] = row]
               /\ overlapped' = IF row.status = merchant[m].status THEN overlapped
                                                                   ELSE overlapped \cup {m}
               /\ unguarded' = IF row.blocked \/ row.sanctioned THEN unguarded \cup {m}
                                                               ELSE unguarded
        /\ Return(w)
        /\ UNCHANGED <<product, kyc, told, gaps, overdue, ops>>

\* perform_destroy closes the merchant unless it read it as CLOSED, and marks
\* the row as deleted in another transaction.
Destroy(w, m) ==
    /\ Operate
    /\ Exists(m)
    /\ ~ Holding(m)
    /\ Change(m, "CLOSED")
    /\ Enter(w, "delete", m)
    /\ Touch(m)
    /\ UNCHANGED <<product, kyc, overlapped, overdue>>

SaveDeleted(w) ==
    LET m == job[w].on
    IN  /\ job[w].at = "delete"
        /\ ~ Holding(m)
        /\ merchant' = [merchant EXCEPT ![m].deleted = TRUE]
        /\ Return(w)
        /\ UNCHANGED <<product, kyc, told, gaps, overlapped, unguarded, overdue, ops>>

\* An operator creates a merchant, with any licence and without KYC.
CreateByHand(m, licence) ==
    /\ Operate
    /\ merchant[m].status = "none"
    /\ merchant' = [merchant EXCEPT ![m].status = "PENDING", ![m].licence = licence]
    /\ told' = [told EXCEPT ![m] = "PENDING"]
    /\ UNCHANGED <<product, kyc, gaps, overlapped, unguarded, job, overdue>>

-----------------------------------------------------------------------------
\* Time passes: a licence expires.
Expire(m) ==
    /\ Operate
    /\ merchant[m].licence = "valid"
    /\ merchant' = [merchant EXCEPT ![m].licence = "expired"]
    /\ UNCHANGED <<product, kyc, told, gaps, overlapped, unguarded, job, overdue>>

IsOverdue(m) == Exists(m) /\ merchant[m].status = "ACTIVE" /\ merchant[m].licence = "expired"

\* A variant with a bug: the list is of the wrong status.
ListedStopped ==
    {m \in Merchants : merchant[m].status = "SUSPENDED" /\ merchant[m].licence = "expired"}

Listed == {m \in Merchants : IsOverdue(m)}

\* The daily job lists the overdue merchants once.
StartLicenceJob ==
    /\ overdue = {}
    /\ overdue' = Listed
    /\ overdue' # {}
    /\ UNCHANGED <<merchant, product, kyc, told, gaps, overlapped, unguarded, job, ops>>

\* Each is suspended whatever its licence is by now.  One that was closed
\* meanwhile raises an exception, which ends the job for that day.
SuspendOverdue(m) ==
    /\ m \in overdue
    /\ ~ Holding(m)
    /\ IF Suspendable(m)
       THEN Change(m, "SUSPENDED") /\ overdue' = overdue \ {m}
       ELSE StayAsIs /\ overdue' = {}
    /\ UNCHANGED <<product, kyc, overlapped, unguarded, job, ops>>

\* A worker's process dies, or the database rolls its transaction back; so does
\* the job's.
Crash(w) ==
    /\ job[w].at # "idle"
    /\ unguarded' = unguarded \cup {job[w].on}
    /\ Return(w)
    /\ UNCHANGED <<merchant, product, kyc, told, gaps, overlapped, overdue, ops>>

KillLicenceJob ==
    /\ Operate
    /\ overdue # {}
    /\ overdue' = {}
    /\ UNCHANGED <<merchant, product, kyc, told, gaps, overlapped, unguarded, job>>

-----------------------------------------------------------------------------
\* A worker goes on with its handler.
Proceed(w) ==
    \/ CommitActivate(w) \/ LockKyc(w) \/ CommitKyc(w)
    \/ SaveRestriction(w) \/ SuspendRestricted(w)
    \/ GuardProfile(w) \/ SaveProfile(w) \/ SaveDeleted(w)

LicenceJob == StartLicenceJob \/ \E m \in Merchants : SuspendOverdue(m)

MerchantHandlers ==
    \/ \E m \in Merchants, to \in {"SUSPENDED", "CLOSED"} : Stop(m, to)
    \/ \E w \in Workers, m \in Merchants :
           \/ ReadActivate(w, m) \/ ReadKyc(w, m) \/ ReadProfile(w, m) \/ Destroy(w, m)
           \/ \E step \in {"block", "sanction", "restrict"} : ReadRestrict(w, m, step)
    \/ \E m \in Merchants : ReviewKyc(m) \/ Lift(m) \/ SwitchProduct(m) \/ Expire(m)
    \/ \E m \in Merchants, licence \in Licences : CreateByHand(m, licence)
    \/ \E w \in Workers : Proceed(w) \/ Crash(w)
    \/ LicenceJob
    \/ KillLicenceJob
=============================================================================
