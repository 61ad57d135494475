---------------------------- MODULE Adjustments ----------------------------
(***************************************************************************)
(* Adjustment applications and write-offs: both correct the balance of a   *)
(* nostro account once somebody has approved them.  Every handler reads    *)
(* the row, checks its status and saves it later; nothing is locked but    *)
(* the account, and every statement commits on its own.                    *)
(***************************************************************************)
EXTENDS Books

CONSTANTS Applications,    \* AdjustmentApplication rows that may be created
          WriteOffs,       \* DifferenceWriteOff rows that may be created
          WriteOffAccount, \* [WriteOffs -> the merchant's account, or "none"]
          WriteOffSums,    \* amounts a form may carry, of either sign
          MaxRepeats       \* bound: times one row has its effect

ASSUME AdjustmentParameters ==
    /\ IsFiniteSet(Applications)
    /\ IsFiniteSet(WriteOffs)
    /\ WriteOffAccount \in [WriteOffs -> Accounts \cup {"none"}]
    /\ WriteOffSums \subseteq Int
    /\ MaxRepeats \in Nat

VARIABLES app,         \* [Applications -> row]
          granted,     \* [Applications -> AdjustmentApproval rows, APPROVE]
          posted,      \* [Applications -> times the account was adjusted]
          writeOff,    \* [WriteOffs -> row]
          credited,    \* [WriteOffs -> times the account was credited]
          written,     \* [WriteOffs -> the sum of those credits]
          drawn,       \* accounts that were credited a negative sum
          contested    \* rows two workers handled at a time, or a worker left
                       \* half done, and those whose status a form has set

writeOffVars == <<writeOff, credited, written, drawn>>
adjustVars == <<app, granted, posted, writeOffVars, contested>>

AppStatuses == {"none", "pending", "approved", "rejected", "cancelled", "completed",
                "deleted"}
FormStatuses == AppStatuses \ {"none", "deleted"}
AppRow == [status : AppStatuses, sum : Int, account : Accounts \cup {"none"}]

WriteOffForms == {"PENDING", "APPROVED", "WRITTEN_OFF", "REJECTED"}
WriteOffRow == [status : WriteOffForms \cup {"none", "deleted"}, sum : Int]

AppSteps == {"approveApp", "postApp", "completeApp", "rejectApp", "updateApp", "cancelApp",
             "destroyApp"}
WriteOffSteps == {"approveWriteOff", "creditWriteOff", "saveWriteOff", "editWriteOff"}
AdjustSteps == AppSteps \cup WriteOffSteps

AdjustTypeOK ==
    /\ app \in [Applications -> AppRow]
    /\ granted \in [Applications -> Nat]
    /\ posted \in [Applications -> Nat]
    /\ writeOff \in [WriteOffs -> WriteOffRow]
    /\ credited \in [WriteOffs -> Nat]
    /\ written \in [WriteOffs -> Int]
    /\ drawn \subseteq Accounts
    /\ contested \subseteq Subjects

AdjustInit ==
    /\ app = [a \in Applications |-> [status |-> "none", sum |-> 0, account |-> "none"]]
    /\ granted = [a \in Applications |-> 0]
    /\ posted = [a \in Applications |-> 0]
    /\ writeOff = [x \in WriteOffs |-> [status |-> "none", sum |-> 0]]
    /\ credited = [x \in WriteOffs |-> 0]
    /\ written = [x \in WriteOffs |-> 0]
    /\ drawn = {}
    /\ contested = {}

-----------------------------------------------------------------------------
\* create_application asks nothing of the status it is given.
Create(a, status, sum, account) ==
    /\ app[a].status = "none"
    /\ app' = [app EXCEPT ![a] = [status |-> status, sum |-> sum, account |-> account]]

SetApp(a, status) == app' = [app EXCEPT ![a].status = status]

Contest(w, row) ==
    contested' = IF Locked(row, AdjustSteps) THEN contested \cup {row} ELSE contested

\* Variants with a bug: an application may be decided again; a write-off that
\* was posted may be posted again.
Existing(a) == app[a].status \notin {"none", "deleted"}
NotPending(x) == writeOff[x].status \in {"APPROVED", "WRITTEN_OFF"}

Open(a) == app[a].status = "pending"
Approved(x) == writeOff[x].status = "APPROVED"

\* The row is read and found pending; a cancelled one can be deleted as well.
ReadApp(w, a) ==
    /\ \/ /\ Open(a)
          /\ \E step \in {"approveApp", "rejectApp", "updateApp", "cancelApp", "destroyApp"} :
                 Begin(w, step, a)
       \/ app[a].status = "cancelled" /\ Begin(w, "destroyApp", a)
    /\ Contest(w, a)
    /\ UNCHANGED <<nostro, va, recharged, overlapped, admin, app, granted, posted,
                   writeOffVars>>

\* approve_application: the approval is inserted, which fails for a deleted
\* application, and the row saved as APPROVED.
ApproveApp(w) ==
    LET a == job[w].on
    IN  /\ job[w].at = "approveApp"
        /\ granted[a] < MaxRepeats
        /\ app[a].status # "deleted"
        /\ granted' = [granted EXCEPT ![a] = @ + 1]
        /\ SetApp(a, "approved")
        /\ Go(w, "postApp")
        /\ UNCHANGED <<nostro, va, recharged, overlapped, admin, posted, writeOffVars,
                       contested>>

\* Variants with a bug: the balance is not asked; a debit is posted as a credit.
NeverAsked(a) == TRUE
Magnitude(a) == IF app[a].sum < 0 THEN - app[a].sum ELSE app[a].sum

\* The sign of the sum tells a debit, which the balance must cover, from a credit.
Delta(a) == app[a].sum
Suffices(a) == Delta(a) >= 0 \/ nostro[app[a].account].balance + Delta(a) >= 0

PostsNothing(a) == app[a].account = "none" \/ app[a].sum = 0

\* _post_ledger.  An application without a sum or an account posts nothing; one
\* whose debit the account does not cover is left APPROVED by the exception.
PostApp(w) ==
    LET a == job[w].on
        account == app[a].account
    IN  /\ job[w].at = "postApp"
        /\ \/ PostsNothing(a) /\ Go(w, "completeApp") /\ UNCHANGED <<nostro, posted>>
           \/ /\ ~ PostsNothing(a) /\ Suffices(a)
              /\ nostro' = [nostro EXCEPT ![account].balance = @ + Delta(a)]
              /\ posted' = [posted EXCEPT ![a] = @ + 1]
              /\ Go(w, "completeApp")
           \/ /\ ~ PostsNothing(a) /\ ~ Suffices(a)
              /\ Return(w)
              /\ UNCHANGED <<nostro, posted>>
        /\ UNCHANGED <<va, recharged, overlapped, admin, app, granted, writeOffVars,
                       contested>>

\* The last save of a handler.  cancel saves every column and brings a deleted
\* row back.
FinishApp(w) ==
    LET a == job[w].on
        Status == [completeApp |-> "completed", rejectApp |-> "rejected",
                   cancelApp |-> "cancelled", destroyApp |-> "deleted"]
    IN  /\ job[w].at \in DOMAIN Status
        /\ job[w].at \in {"completeApp", "rejectApp"} => app[a].status # "deleted"
        /\ SetApp(a, Status[job[w].at])
        /\ Return(w)
        /\ UNCHANGED <<nostro, va, recharged, overlapped, admin, granted, posted, writeOffVars,
                       contested>>

\* update saves every column too, and whatever status the form carries, which
\* nobody asks about.  (The amounts it may carry are left out.)
UpdateApp(w, status) ==
    LET a == job[w].on
    IN  /\ job[w].at = "updateApp"
        /\ SetApp(a, status)
        /\ contested' = IF status = "pending" THEN contested ELSE contested \cup {a}
        /\ Return(w)
        /\ UNCHANGED <<nostro, va, recharged, overlapped, admin, granted, posted,
                       writeOffVars>>

-----------------------------------------------------------------------------
\* The generic create and update take the status and the amount of the form;
\* the update and the approval save every column.  (The merchant an update may
\* carry is left out.)
CreateWriteOff(x, status, sum) ==
    /\ writeOff[x].status = "none"
    /\ writeOff' = [writeOff EXCEPT ![x] = [status |-> status, sum |-> sum]]
    /\ contested' = IF status = "PENDING" THEN contested ELSE contested \cup {x}
    /\ UNCHANGED <<bookVars, app, granted, posted, credited, written, drawn>>

ReadWriteOff(w, x) ==
    /\ \/ writeOff[x].status = "PENDING" /\ Enter(w, "approveWriteOff", x, writeOff[x].sum)
       \/ Approved(x) /\ Enter(w, "creditWriteOff", x, writeOff[x].sum)
       \/ /\ writeOff[x].status \in WriteOffForms
          /\ Enter(w, "editWriteOff", x, writeOff[x].sum)
    /\ Contest(w, x)
    /\ UNCHANGED <<nostro, va, recharged, overlapped, admin, app, granted, posted,
                   writeOffVars>>

EditWriteOff(w, status, sum) ==
    LET x == job[w].on
    IN  /\ job[w].at = "editWriteOff"
        /\ sum \in WriteOffSums \cup {job[w].seen}
        /\ writeOff' = [writeOff EXCEPT ![x] = [status |-> status, sum |-> sum]]
        /\ contested' = IF status = writeOff[x].status THEN contested ELSE contested \cup {x}
        /\ Return(w)
        /\ UNCHANGED <<nostro, va, recharged, overlapped, admin, app, granted, posted, credited,
                       written, drawn>>

ApproveWriteOff(w) ==
    LET x == job[w].on
    IN  /\ job[w].at = "approveWriteOff"
        /\ writeOff' = [writeOff EXCEPT ![x] = [status |-> "APPROVED", sum |-> job[w].seen]]
        /\ Return(w)
        /\ UNCHANGED <<nostro, va, recharged, overlapped, admin, app, granted, posted, credited,
                       written, drawn, contested>>

\* write_off: the merchant's account, if there is one, is credited the amount
\* that was read, which nobody asks the sign of; the status is saved afterwards.
CreditWriteOff(w) ==
    LET x == job[w].on
        c == WriteOffAccount[x]
        sum == job[w].seen
    IN  /\ job[w].at = "creditWriteOff"
        /\ \/ c = "none" /\ UNCHANGED <<nostro, credited, written, drawn>>
           \/ /\ c # "none" /\ credited[x] < MaxRepeats
              /\ nostro' = [nostro EXCEPT ![c].balance = @ + sum]
              /\ credited' = [credited EXCEPT ![x] = @ + 1]
              /\ written' = [written EXCEPT ![x] = @ + sum]
              /\ drawn' = IF sum < 0 THEN drawn \cup {c} ELSE drawn
        /\ Go(w, "saveWriteOff")
        /\ UNCHANGED <<va, recharged, overlapped, admin, app, granted, posted, writeOff,
                       contested>>

\* Only the status is saved, which fails for a deleted row.
SaveWriteOff(w) ==
    LET x == job[w].on
    IN  /\ job[w].at = "saveWriteOff"
        /\ writeOff[x].status # "deleted"
        /\ writeOff' = [writeOff EXCEPT ![x].status = "WRITTEN_OFF"]
        /\ Return(w)
        /\ UNCHANGED <<nostro, va, recharged, overlapped, admin, app, granted, posted, credited,
                       written, drawn, contested>>

\* The generic delete removes the row, whatever its status.
DeleteWriteOff(x) ==
    /\ writeOff[x].status \in WriteOffForms
    /\ writeOff' = [writeOff EXCEPT ![x].status = "deleted"]
    /\ contested' = IF Locked(x, WriteOffSteps) THEN contested \cup {x} ELSE contested
    /\ UNCHANGED <<bookVars, app, granted, posted, credited, written, drawn>>

\* The process dies half way, or an insertion or a save fails.
AbandonAdjustment(w) ==
    /\ job[w].at \in AdjustSteps
    /\ contested' = contested \cup {job[w].on}
    /\ Return(w)
    /\ UNCHANGED <<nostro, va, recharged, overlapped, admin, app, granted, posted,
                   writeOffVars>>

AppHandlers ==
    \/ \E w \in Workers, a \in Applications : ReadApp(w, a)
    \/ \E w \in Workers : ApproveApp(w) \/ PostApp(w) \/ FinishApp(w)
    \/ \E w \in Workers, status \in FormStatuses : UpdateApp(w, status)

WriteOffHandlers ==
    \/ \E x \in WriteOffs, status \in WriteOffForms, sum \in WriteOffSums :
           CreateWriteOff(x, status, sum)
    \/ \E w \in Workers, x \in WriteOffs : ReadWriteOff(w, x)
    \/ \E w \in Workers, status \in WriteOffForms :
           \E sum \in WriteOffSums \cup {job[w].seen} : EditWriteOff(w, status, sum)
    \/ \E w \in Workers : ApproveWriteOff(w) \/ CreditWriteOff(w) \/ SaveWriteOff(w)
    \/ \E x \in WriteOffs : DeleteWriteOff(x)

AdjustHandlers == \/ AppHandlers
                  \/ WriteOffHandlers
                  \/ \E w \in Workers : AbandonAdjustment(w)
=============================================================================
