--------------------------- MODULE Reconciliation ---------------------------
(***************************************************************************)
(* A day's reconciliation of one bank: the batch from its creation to the  *)
(* list of differences, their resolution by operators, and the adjustments *)
(* and write-offs that follow.  There is no transaction: every save is     *)
(* seen at once, and the task or a worker may die between any two.         *)
(***************************************************************************)
EXTENDS Adjustments, StatementMatching, SequencesExt

CONSTANTS Differences,   \* ReconciliationDiff rows, in the order of creation
          MaxItems,      \* bound: lines of a statement, orders of a day
          MaxDiffs       \* bound: longer lists of differences stay untouched

ASSUME ReconciliationParameters ==
    /\ MaxItems \in Nat
    /\ MaxDiffs \in Nat
    /\ Differences \in Seq(Range(Differences))
    /\ 2 * MaxItems <= Len(Differences)
    /\ "none" \notin Accounts \cup Vas \cup Subjects
    /\ Subjects = Range(Differences) \cup Applications \cup WriteOffs
    /\ Range(Differences) \cap (Applications \cup WriteOffs) = {}
    /\ Applications \cap WriteOffs = {}

VARIABLES statement,   \* the lines of the bank's statement
          collected,   \* the platform's orders of the day
          run,         \* where the task is
          batch,       \* ReconciliationBatch.status
          listed,      \* the differences the task has found
          diff,        \* [rows created -> amounts and resolution]
          asked,       \* [Range(Differences) -> adjustments the bank accepted]
          filed        \* [Range(Differences) -> applications created for it]

taskVars == <<statement, collected, run, batch, listed>>
diffVars == <<diff, asked, filed>>
vars == <<bookVars, adjustVars, taskVars, diffVars>>

Resolutions == {"PENDING", "ADJUST_BANK", "ADJUST_PLATFORM", "OTHER"}
DiffRow == [bank : Nat, platform : Nat, resolution : Resolutions]

DiffSteps == {"askBank", "saveBank", "adjustPlatform", "savePlatform", "saveOther",
              "countPending", "closeBatch"}
Steps == {"idle"} \cup AdjustSteps \cup DiffSteps

Init ==
    /\ BooksInit
    /\ AdjustInit
    /\ \E n \in 0 .. MaxItems : statement \in [1 .. n -> Item]
    /\ \E n \in 0 .. MaxItems : collected \in [1 .. n -> Item]
    /\ run = "fetch"
    /\ batch = "FETCHING"
    /\ listed = {}
    /\ diff = << >>
    /\ asked = [d \in Range(Differences) |-> 0]
    /\ filed = [d \in Range(Differences) |-> 0]

-----------------------------------------------------------------------------
Forget == statement' = << >> /\ collected' = << >>

\* The statement is fetched; if it cannot be, the batch is at DIFF for good.
Fetch ==
    /\ run = "fetch"
    /\ \/ run' = "match" /\ batch' = "MATCHING" /\ UNCHANGED <<statement, collected>>
       \/ run' = "done" /\ batch' = "DIFF" /\ Forget
    /\ UNCHANGED <<bookVars, adjustVars, listed, diffVars>>

\* What becomes a difference: the amounts of both sides, 0 for a side that has
\* none.
Difference(i, j, bank, platform) ==
    [line |-> i, order |-> j, bank |-> bank, platform |-> platform]

Differing(r) ==
    {Difference(i, 0, statement[i].amount, 0) : i \in r.bankOnly}
    \cup {Difference(0, j, 0, collected[j].amount) : j \in r.platformOnly}
    \cup {Difference(p[1], p[2], statement[p[1]].amount, collected[p[2]].amount) :
              p \in r.prnDiff \cup r.amountDiff}

Conclude(found) ==
    /\ Forget
    /\ listed' = found
    /\ batch' = IF found = {} THEN "MATCHED" ELSE "DIFF"
    /\ run' = "create"

\* The batch is saved as DIFF or MATCHED before the differences exist.
Match ==
    /\ run = "match"
    /\ Conclude(Differing(Report(statement, collected)))
    /\ UNCHANGED <<bookVars, adjustVars, diffVars>>

\* The settlement fund's reconciliation lists the settlement batches that are
\* not SETTLED, with the platform's amount on both sides.
CheckSettlements ==
    /\ run = "fetch"
    /\ \E unsettled \in SUBSET DOMAIN collected :
           Conclude({Difference(0, j, collected[j].amount, collected[j].amount) :
                        j \in unsettled})
    /\ UNCHANGED <<bookVars, adjustVars, diffVars>>

\* bulk_create; process_matches, which runs before it, finds every matched
\* order collected already and changes nothing.
CreateDiffs ==
    /\ run = "create"
    /\ LET rows == SetToSeq(listed)
       IN  diff' = [k \in DOMAIN rows |->
                       [bank |-> rows[k].bank, platform |-> rows[k].platform,
                        resolution |-> "PENDING"]]
    /\ run' = "done"
    /\ listed' = {}
    /\ UNCHANGED <<bookVars, adjustVars, statement, collected, batch, asked, filed>>

\* The task dies; nothing takes the day up again.
KillTask ==
    /\ run \in {"fetch", "match", "create"}
    /\ run' = "dead"
    /\ Forget
    /\ listed' = {}
    /\ UNCHANGED <<bookVars, adjustVars, batch, diffVars>>

-----------------------------------------------------------------------------
\* The rows of the list that exist, and the place in it a worker is at.
Listed == {Differences[k] : k \in DOMAIN diff}
Place(d) == CHOOSE k \in DOMAIN diff : Differences[k] = d

Resolve(d, resolution) == diff' = [diff EXCEPT ![Place(d)].resolution = resolution]

\* A variant with a bug: a difference the bank has adjusted may be resolved again.
PendingOrAsked(d) == diff[Place(d)].resolution \in {"PENDING", "ADJUST_BANK"}

Unresolved(d) == diff[Place(d)].resolution = "PENDING"

\* resolve_diff: the resolution is that of the row as the view read it.
ReadDiff(w, d) ==
    /\ Len(diff) <= MaxDiffs
    /\ Unresolved(d)
    /\ \E step \in {"askBank", "adjustPlatform", "saveOther"} : Begin(w, step, d)
    /\ contested' = IF Locked(d, DiffSteps) THEN contested \cup {d} ELSE contested
    /\ UNCHANGED <<nostro, va, recharged, overlapped, admin, app, granted, posted,
                   writeOffVars, taskVars, diffVars>>

\* The bank adjusts its side, or refuses and the difference stays PENDING.
AskBank(w) ==
    LET d == job[w].on
    IN  /\ job[w].at = "askBank"
        /\ \/ asked[d] < MaxRepeats /\ asked' = [asked EXCEPT ![d] = @ + 1] /\ Go(w, "saveBank")
           \/ Return(w) /\ UNCHANGED asked
        /\ UNCHANGED <<nostro, va, recharged, overlapped, admin, adjustVars, taskVars, diff,
                       filed>>

\* The sum of the application is what the platform has more than the bank; if
\* that is nothing, create_application puts the whole amount in its place.
\* _post_ledger finds the account by the bank or by the order, or finds none.
SumToAdjust(row) ==
    IF row.platform = row.bank THEN row.platform ELSE row.platform - row.bank

AdjustPlatform(w) ==
    LET d == job[w].on
    IN  /\ job[w].at = "adjustPlatform"
        /\ \E a \in Applications, account \in Accounts \cup {"none"} :
               Create(a, "pending", SumToAdjust(diff[Place(d)]), account)
        /\ filed' = [filed EXCEPT ![d] = @ + 1]
        /\ Go(w, "savePlatform")
        /\ UNCHANGED <<nostro, va, recharged, overlapped, admin, granted, posted, writeOffVars,
                       contested, taskVars, diff, asked>>

\* The resolution is saved after the side effect; MANUAL_CHECK and IGNORED,
\* which have none, are OTHER.
SaveDiff(w) ==
    LET Resolution == [saveBank |-> "ADJUST_BANK", savePlatform |-> "ADJUST_PLATFORM",
                       saveOther |-> "OTHER"]
    IN  /\ job[w].at \in DOMAIN Resolution
        /\ Resolve(job[w].on, Resolution[job[w].at])
        /\ Go(w, "countPending")
        /\ UNCHANGED <<nostro, va, recharged, overlapped, admin, adjustVars, taskVars, asked,
                       filed>>

\* A variant with a bug: the batch is closed with any of its differences.
CloseAnyway(w) ==
    /\ job[w].at = "countPending"
    /\ Go(w, "closeBatch")
    /\ UNCHANGED <<nostro, va, recharged, overlapped, admin, adjustVars, taskVars, diffVars>>

\* _check_batch_complete counts, and saves the batch in a step of its own.
CountPending(w) ==
    /\ job[w].at = "countPending"
    /\ IF \E d \in Listed : Unresolved(d) THEN Return(w) ELSE Go(w, "closeBatch")
    /\ UNCHANGED <<nostro, va, recharged, overlapped, admin, adjustVars, taskVars, diffVars>>

CloseBatch(w) ==
    /\ job[w].at = "closeBatch"
    /\ batch' = "RESOLVED"
    /\ Return(w)
    /\ UNCHANGED <<nostro, va, recharged, overlapped, admin, adjustVars, statement, collected,
                   run, listed, diffVars>>

\* The process dies half way.
AbandonDiff(w) ==
    /\ job[w].at \in DiffSteps
    /\ contested' = contested \cup {job[w].on}
    /\ Return(w)
    /\ UNCHANGED <<nostro, va, recharged, overlapped, admin, app, granted, posted,
                   writeOffVars, taskVars, diffVars>>

-----------------------------------------------------------------------------
Task == Fetch \/ Match \/ CheckSettlements \/ CreateDiffs \/ KillTask

DiffHandlers ==
    \/ \E w \in Workers, d \in Listed : ReadDiff(w, d)
    \/ \E w \in Workers : \/ AskBank(w) \/ AdjustPlatform(w) \/ SaveDiff(w)
                         \/ CountPending(w) \/ CloseBatch(w) \/ AbandonDiff(w)

\* An operator may create an application by hand, with any status.
FileByHand ==
    /\ \E a \in Applications, status \in FormStatuses,
          sum \in {0} \cup Amounts \cup {- x : x \in Amounts},
          account \in Accounts \cup {"none"} :
              /\ Create(a, status, sum, account)
              /\ contested' = IF status = "pending" THEN contested ELSE contested \cup {a}
    /\ UNCHANGED <<bookVars, granted, posted, writeOffVars, taskVars, diffVars>>

Next ==
    \/ Task
    \/ DiffHandlers
    \/ FileByHand
    \/ AdjustHandlers /\ UNCHANGED <<taskVars, diffVars>>

Spec == Init /\ [][Next]_vars

-----------------------------------------------------------------------------
\* Every variable has its type, and no account is below zero, since
\* update_balance asks the locked row of every adjustment that debits it.  The
\* exceptions are the accounts that were credited a write-off of a negative sum.
TypeOK ==
    /\ BooksTypeOK(Steps)
    /\ AdjustTypeOK
    /\ statement \in Seq(Item)
    /\ collected \in Seq(Item)
    /\ run \in {"fetch", "match", "create", "done", "dead"}
    /\ batch \in {"FETCHING", "MATCHING", "MATCHED", "DIFF", "RESOLVED"}
    /\ diff \in Seq(DiffRow)
    /\ asked \in [Range(Differences) -> Nat]
    /\ filed \in [Range(Differences) -> Nat]
    /\ \A c \in Accounts \ drawn : nostro[c].balance >= 0

\* Every order of the day is reported in one place exactly, and every line that
\* has a transaction number of its own.
EverythingReported == run = "match" => Exhaustive(statement, collected)

\* The matching pairs lines and orders one to one, and matches only what agrees.
MatchedOneToOne == run = "match" => OneToOne(statement, collected)

\* Nothing is reported as missing on both sides that could have been matched.
NothingLeftOver == run = "match" => NothingLeftToPair(statement, collected)

\* A difference settled with the bank, or by an adjustment of the platform, is
\* one the bank accepted, or an application was created for, however many
\* operators resolved it.
SideEffectFirst ==
    \A k \in DOMAIN diff :
        LET d == Differences[k]
        IN  /\ diff[k].resolution = "ADJUST_BANK" => asked[d] > 0
            /\ diff[k].resolution = "ADJUST_PLATFORM" => filed[d] > 0
            /\ diff[k].resolution # "PENDING" /\ d \notin contested => asked[d] + filed[d] <= 1

\* The batch is RESOLVED once every difference is resolved and nobody is about
\* to find that out, and not before: whoever resolves the last difference sees
\* that it is the last, whatever others resolve meanwhile.
ResolvedTogether ==
    LET Pending == {d \in Listed : Unresolved(d)}
        Finding == {w \in Workers : job[w].at \in {"countPending", "closeBatch"}}
    IN  /\ batch = "RESOLVED" => diff # << >> /\ Pending = {}
        /\ Pending = {} /\ Finding = {} /\ diff # << >> /\ Listed \cap contested = {}
              => batch = "RESOLVED"

\* An application is posted once for every approval at most.  One that no two
\* requests handled at a time, and whose status no form has set, is posted once
\* when it is COMPLETED, if it has an account and a sum, and never otherwise.
PostedAsApproved ==
    \A a \in Applications :
        /\ posted[a] <= granted[a]
        /\ a \notin contested =>
              /\ posted[a] <= 1
              /\ app[a].status = "completed" /\ ~ PostsNothing(a) => posted[a] = 1
              /\ posted[a] = 1 =>
                    \/ app[a].status = "completed"
                    \/ Locked(a, {"completeApp"})

\* A write-off that no two requests handled at a time, and whose status no form
\* has set, is credited once, if the merchant has an account, when it is
\* WRITTEN_OFF, and not before, whatever its amount is edited to, deleted or not.
WrittenOffOnce ==
    \A x \in WriteOffs \ contested :
        /\ credited[x] <= 1
        /\ writeOff[x].status = "WRITTEN_OFF" /\ WriteOffAccount[x] # "none" => credited[x] = 1
        /\ credited[x] = 1 => \/ writeOff[x].status \in {"WRITTEN_OFF", "deleted"}
                              \/ Locked(x, {"saveWriteOff"})

\* The balance of an account is what the adjustments posted to it and the
\* amounts of the write-offs at the time they were credited add up to.
AdjustmentsExplain ==
    \A c \in Accounts :
        nostro[c].balance =
            Opening[c]
            + SumFunctionOnSet([a \in Applications |-> posted[a] * app[a].sum],
                               {a \in Applications : app[a].account = c})
            + SumFunctionOnSet(written, {x \in WriteOffs : WriteOffAccount[x] = c})
=============================================================================
