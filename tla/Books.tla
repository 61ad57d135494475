------------------------------- MODULE Books -------------------------------
(***************************************************************************)
(* The nostro accounts, the virtual accounts that divide them, and what    *)
(* changes their balances directly: recharges, the generic save of a row,  *)
(* closing an account, and the life of a virtual account.  The modules     *)
(* that move money (FundTransfers, Deposits, Disbursements, Adjustments)   *)
(* extend this one and post through its operators.                         *)
(*                                                                         *)
(* Workers are the processes that serve requests.  The handlers here read  *)
(* a row, and save fields of that reading later without a lock; job says   *)
(* what a worker is in the middle of.  A transaction that locks the rows   *)
(* it reads is one step when it commits, for what it wrote before is not   *)
(* seen by others.                                                         *)
(***************************************************************************)
EXTENDS Integers, FiniteSets, Functions

CONSTANTS Workers,        \* processes serving requests
          Accounts,       \* NostroAccount rows
          Vas,            \* VirtualAccount rows
          Master,         \* [Vas -> Accounts]: VirtualAccount.master_account
          Subjects,       \* the rows whose handling takes several steps
          Opening,        \* opening balance of each account
          FormBalances,   \* balances an operator may type into the form
          MaxAdmin        \* bound: operations of operators on the accounts

ASSUME BooksParameters ==
    /\ Master \in [Vas -> Accounts]
    /\ Opening \in [Accounts \cup Vas -> Nat]
    /\ FormBalances \subseteq Int
    /\ MaxAdmin \in Nat

VARIABLES nostro,       \* [Accounts -> NostroRow]
          va,           \* [Vas -> VaRow]
          job,          \* [Workers -> the handler a worker is in]
          recharged,    \* [Accounts -> recharges reported as posted]
          overlapped,   \* rows whose balance was overwritten by an older one,
                        \* or by one that was typed
          admin         \* operations of operators on the accounts so far

bookVars == <<nostro, va, job, recharged, overlapped, admin>>

NostroRow == [balance : Int, active : BOOLEAN]

\* FROZEN, which only the generic update sets, is INACTIVE here: both keep the
\* look-ups from finding the account.
VaStatuses == {"ACTIVE", "INACTIVE", "REVOKED"}
VaRow == [ledger : Nat, status : VaStatuses]

BookSteps == {"idle", "recharge", "saveNostro", "saveVa", "deactivateVa"}

\* A job is at a step, for a row, with the balance it read.
Job(Steps, Rows) == [at : Steps, on : Rows \cup {"none"}, seen : Int]

BooksTypeOK(Steps) ==
    /\ nostro \in [Accounts -> NostroRow]
    /\ va \in [Vas -> VaRow]
    /\ job \in [Workers -> Job(Steps, Accounts \cup Vas \cup Subjects)]
    /\ recharged \in [Accounts -> Nat]
    /\ overlapped \subseteq Accounts \cup Vas
    /\ admin \in Nat

-----------------------------------------------------------------------------
Idle == [at |-> "idle", on |-> "none", seen |-> 0]

Enter(w, step, row, balance) ==
    /\ job[w].at = "idle"
    /\ job' = [job EXCEPT ![w] = [at |-> step, on |-> row, seen |-> balance]]

Begin(w, step, row) == Enter(w, step, row, 0)
Go(w, step) == job' = [job EXCEPT ![w].at = step]
Return(w) == job' = [job EXCEPT ![w] = Idle]

\* Somebody holds the lock of row in a transaction that is at one of steps.
Locked(row, steps) == \E w \in Workers : job[w].at \in steps /\ job[w].on = row

BooksInit ==
    /\ nostro = [a \in Accounts |-> [balance |-> Opening[a], active |-> TRUE]]
    /\ va = [v \in Vas |-> [ledger |-> Opening[v], status |-> "ACTIVE"]]
    /\ job = [w \in Workers |-> Idle]
    /\ recharged = [a \in Accounts |-> 0]
    /\ overlapped = {}
    /\ admin = 0

-----------------------------------------------------------------------------
\* update_balance, under the lock of the account.
Covers(a, amount) == nostro[a].balance >= amount

\* Variants with a bug: the virtual account alone is asked whether it covers a
\* debit; one of the two balances is not saved.
VaCoversAlone(v, amount) == va[v].ledger >= amount

PostVaOnly(v, amount) ==
    /\ va' = [va EXCEPT ![v].ledger = @ + amount]
    /\ UNCHANGED nostro

PostMasterOnly(v, amount) ==
    /\ nostro' = [nostro EXCEPT ![Master[v]].balance = @ + amount]
    /\ UNCHANGED va

\* post_va_entry, DEBIT, asks both balances and moves both; amount is negative
\* for a DEBIT.
VaCovers(v, amount) == va[v].ledger >= amount /\ Covers(Master[v], amount)

PostVa(v, amount) ==
    /\ va' = [va EXCEPT ![v].ledger = @ + amount]
    /\ nostro' = [nostro EXCEPT ![Master[v]].balance = @ + amount]

\* get_agent_ledger_va and _merchant_currency_va: the account to post to.
AgentVa(v) == va[v].status = "ACTIVE" /\ nostro[Master[v]].active
CustomerVa(v) == va[v].status = "ACTIVE"

-----------------------------------------------------------------------------
\* A save of a balance marks the row unless the row still has that balance.
Overwrites(row, saved, now) == overlapped' = IF saved = now THEN overlapped
                                                           ELSE overlapped \cup {row}

Administer == admin < MaxAdmin /\ admin' = admin + 1

\* recharge: the account is read, and the sum saved later.
ReadRecharge(w, a) ==
    /\ Administer
    /\ Enter(w, "recharge", a, nostro[a].balance)
    /\ UNCHANGED <<nostro, va, recharged, overlapped>>

WriteRecharge(w) ==
    LET a == job[w].on
    IN  /\ job[w].at = "recharge"
        /\ nostro' = [nostro EXCEPT ![a].balance = job[w].seen + 1]
        /\ Overwrites(a, job[w].seen, nostro[a].balance)
        /\ recharged' = [recharged EXCEPT ![a] = @ + 1]
        /\ Return(w)
        /\ UNCHANGED <<va, admin>>

\* The generic update saves every column of the row that was read, the balance
\* included; is_active comes from the form, and so may the balance.
ReadNostro(w, a) ==
    /\ Administer
    /\ Enter(w, "saveNostro", a, nostro[a].balance)
    /\ UNCHANGED <<nostro, va, recharged, overlapped>>

SaveNostro(w, active, balance) ==
    LET a == job[w].on
    IN  /\ job[w].at = "saveNostro"
        /\ balance \in FormBalances \cup {job[w].seen}
        /\ nostro' = [nostro EXCEPT ![a] = [balance |-> balance, active |-> active]]
        /\ Overwrites(a, balance, nostro[a].balance)
        /\ Return(w)
        /\ UNCHANGED <<va, recharged, admin>>

\* deactivate closes an account for good, whatever its balance; the generic
\* save is the only way back.
DeactivateNostro(a) ==
    /\ Administer
    /\ nostro' = [nostro EXCEPT ![a].active = FALSE]
    /\ UNCHANGED <<va, job, recharged, overlapped>>

-----------------------------------------------------------------------------
\* The generic update of a virtual account; status comes from the form, where
\* the balance is read-only.
ReadVa(w, v) ==
    /\ Administer
    /\ Enter(w, "saveVa", v, va[v].ledger)
    /\ UNCHANGED <<nostro, va, recharged, overlapped>>

SaveVa(w, status) ==
    LET v == job[w].on
    IN  /\ job[w].at = "saveVa"
        /\ va' = [va EXCEPT ![v] = [ledger |-> job[w].seen, status |-> status]]
        /\ Overwrites(v, job[w].seen, va[v].ledger)
        /\ Return(w)
        /\ UNCHANGED <<nostro, recharged, admin>>

\* deactivate refuses a virtual account it read as REVOKED.
ReadDeactivateVa(w, v) ==
    /\ Administer
    /\ va[v].status # "REVOKED"
    /\ Begin(w, "deactivateVa", v)
    /\ UNCHANGED <<nostro, va, recharged, overlapped>>

DeactivateVa(w) ==
    /\ job[w].at = "deactivateVa"
    /\ va' = [va EXCEPT ![job[w].on].status = "INACTIVE"]
    /\ Return(w)
    /\ UNCHANGED <<nostro, recharged, overlapped, admin>>

\* activate and revoke ask nothing of the status.
SetVaStatus(v, status) ==
    /\ Administer
    /\ va' = [va EXCEPT ![v].status = status]
    /\ UNCHANGED <<nostro, job, recharged, overlapped>>

\* The process of a worker dies between its steps; a transaction it was in
\* rolls back.
Crash(w) ==
    /\ job[w].at # "idle"
    /\ Return(w)
    /\ UNCHANGED <<nostro, va, recharged, overlapped, admin>>

-----------------------------------------------------------------------------
NostroHandlers ==
    \/ \E w \in Workers, a \in Accounts : ReadRecharge(w, a) \/ ReadNostro(w, a)
    \/ \E w \in Workers : WriteRecharge(w)
    \/ \E w \in Workers, active \in BOOLEAN :
           \E balance \in FormBalances \cup {job[w].seen} : SaveNostro(w, active, balance)
    \/ \E a \in Accounts : DeactivateNostro(a)

VaHandlers ==
    \/ \E w \in Workers, v \in Vas : ReadVa(w, v) \/ ReadDeactivateVa(w, v)
    \/ \E w \in Workers, status \in VaStatuses : SaveVa(w, status)
    \/ \E w \in Workers : DeactivateVa(w)
    \/ \E v \in Vas, status \in {"ACTIVE", "REVOKED"} : SetVaStatus(v, status)
=============================================================================
