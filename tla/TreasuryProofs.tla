--------------------------- MODULE TreasuryProofs ---------------------------
(***************************************************************************)
(* Treasury, for any accounts, requests, workers and principals: balances  *)
(* and rows are well typed; a deposit is credited once, a disbursement is  *)
(* authorised by two, debited once and, undisturbed, paid once; balances   *)
(* follow the bank's transfers.                                            *)
(***************************************************************************)
EXTENDS Treasury, SumTheorems

\* What the row of a worker's job is; a virtual account's balance was natural.
JobsOK ==
    \A w \in Workers :
        /\ job[w].at \in {"recharge", "saveNostro"} => job[w].on \in Accounts
        /\ job[w].at \in {"saveVa", "deactivateVa"} => job[w].on \in Vas
        /\ job[w].at = "saveVa" => job[w].seen \in Nat
        /\ job[w].at \in TransferSteps => job[w].on \in Transfers
        /\ job[w].at \in DepositSteps => job[w].on \in Deposits
        /\ job[w].at \in DisbSteps => job[w].on \in Disbursements

TypeInv == TypeOK /\ JobsOK

JobType == Job(Steps, Accounts \cup Vas \cup Subjects)

\* The jobs before and after a step of a family of handlers.
Moves(S) == \A u \in Workers : \/ job'[u] = job[u]
                               \/ job[u].at \in S /\ job'[u].at \in S

BookFrame == nostro' \in [Accounts -> NostroRow] /\ va' \in [Vas -> VaRow]

-----------------------------------------------------------------------------
\* How a worker's job changes.
LEMMA Entering ==
    ASSUME TypeInv, NEW w \in Workers, NEW s \in Steps,
           NEW row \in Accounts \cup Vas \cup Subjects, NEW n \in Int, Enter(w, s, row, n)
    PROVE  /\ job' \in [Workers -> JobType]
           /\ job[w].at = "idle"
           /\ job'[w].at = s /\ job'[w].on = row /\ job'[w].seen = n
           /\ \A u \in Workers : u # w => job'[u] = job[u]
  <1>1. job \in [Workers -> JobType]
    BY DEF TypeInv, TypeOK, BooksTypeOK, JobType
  <1>2. [at |-> s, on |-> row, seen |-> n] \in JobType
    BY DEF JobType, Job
  <1>3. job' = [job EXCEPT ![w] = [at |-> s, on |-> row, seen |-> n]] /\ job[w].at = "idle"
    BY DEF Enter
  <1>. QED
    BY <1>1, <1>2, <1>3

LEMMA Going ==
    ASSUME TypeInv, NEW w \in Workers, NEW s \in Steps, Go(w, s)
    PROVE  /\ job' \in [Workers -> JobType]
           /\ job'[w].at = s /\ job'[w].on = job[w].on /\ job'[w].seen = job[w].seen
           /\ \A u \in Workers : u # w => job'[u] = job[u]
  <1>1. job \in [Workers -> JobType] /\ job[w] \in JobType
    BY DEF TypeInv, TypeOK, BooksTypeOK, JobType
  <1>2. [job[w] EXCEPT !.at = s] \in JobType
    BY <1>1 DEF JobType, Job
  <1>3. job' = [job EXCEPT ![w] = [job[w] EXCEPT !.at = s]]
    BY <1>1 DEF Go
  <1>4. job'[w] = [job[w] EXCEPT !.at = s]
    BY <1>1, <1>3
  <1>5. job'[w].at = s /\ job'[w].on = job[w].on /\ job'[w].seen = job[w].seen
    BY <1>1, <1>4 DEF JobType, Job
  <1>. QED
    BY <1>1, <1>2, <1>3, <1>5

LEMMA Returning ==
    ASSUME TypeInv, NEW w \in Workers, Return(w)
    PROVE  /\ job' \in [Workers -> JobType]
           /\ job'[w].at = "idle"
           /\ \A u \in Workers : u # w => job'[u] = job[u]
  <1>1. job \in [Workers -> JobType]
    BY DEF TypeInv, TypeOK, BooksTypeOK, JobType
  <1>2. Idle \in JobType /\ Idle.at = "idle"
    BY DEF Idle, JobType, Job, Steps, BookSteps
  <1>. QED
    BY <1>1, <1>2 DEF Return

\* Postings keep rows typed, the balances of virtual accounts natural.
LEMMA Posting ==
    ASSUME TypeInv, NEW v \in Vas, NEW n \in Int, PostVa(v, n),
           n \in Nat \/ (VaCovers(v, 0 - n) /\ 0 - n \in Nat)
    PROVE  BookFrame
  <1>. DEFINE a == Master[v]
  <1>1. /\ a \in Accounts
        /\ nostro \in [Accounts -> NostroRow] /\ va \in [Vas -> VaRow]
        /\ nostro[a] \in NostroRow /\ va[v] \in VaRow
    BY BooksParameters DEF TypeInv, TypeOK, BooksTypeOK
  <1>2. nostro[a].balance \in Int /\ va[v].ledger \in Nat
    BY <1>1 DEF NostroRow, VaRow
  <1>3. nostro[a].balance + n \in Int /\ va[v].ledger + n \in Nat
    BY <1>2 DEF VaCovers, Covers
  <1>4. /\ [nostro[a] EXCEPT !.balance = nostro[a].balance + n] \in NostroRow
        /\ [va[v] EXCEPT !.ledger = va[v].ledger + n] \in VaRow
    BY <1>1, <1>3 DEF NostroRow, VaRow
  <1>5. /\ nostro' = [nostro EXCEPT ![a] = [nostro[a] EXCEPT !.balance = nostro[a].balance + n]]
        /\ va' = [va EXCEPT ![v] = [va[v] EXCEPT !.ledger = va[v].ledger + n]]
    BY <1>1 DEF PostVa
  <1>. QED
    BY <1>1, <1>4, <1>5 DEF BookFrame

\* What an entry does to the account it is posted to.
LEMMA VaPosted ==
    ASSUME TypeInv, NEW u \in Vas, NEW n \in Int, PostVa(u, n)
    PROVE  /\ \A v \in Vas : va'[v].ledger = va[v].ledger + (IF v = u THEN n ELSE 0)
           /\ \A a \in Accounts :
                 nostro'[a].balance = nostro[a].balance + (IF Master[u] = a THEN n ELSE 0)
  <1>1. va \in [Vas -> VaRow] /\ nostro \in [Accounts -> NostroRow] /\ Master[u] \in Accounts
    BY BooksParameters DEF TypeInv, TypeOK, BooksTypeOK
  <1>2. /\ \A v \in Vas : va[v].ledger \in Nat
        /\ \A a \in Accounts : nostro[a].balance \in Int
    BY <1>1 DEF VaRow, NostroRow
  <1>3. \A v \in Vas : va'[v].ledger = va[v].ledger + (IF v = u THEN n ELSE 0)
    BY <1>1, <1>2 DEF PostVa, VaRow
  <1>4. \A a \in Accounts :
           nostro'[a].balance = nostro[a].balance + (IF Master[u] = a THEN n ELSE 0)
    BY <1>1, <1>2 DEF PostVa, NostroRow
  <1>. QED
    BY <1>3, <1>4

\* The kinds of rows follow from the changes of jobs.
LEMMA RowsKept ==
    ASSUME TypeInv, NEW w \in Workers,
           \A u \in Workers : u # w => job'[u] = job[u],
           \/ job'[w].at = "idle"
           \/ job'[w] = job[w]
           \/ job'[w].at \in {"recharge", "saveNostro"} /\ job'[w].on \in Accounts
           \/ job'[w].at = "saveVa" /\ job'[w].on \in Vas /\ job'[w].seen \in Nat
           \/ job'[w].at = "deactivateVa" /\ job'[w].on \in Vas
           \/ job'[w].at \in TransferSteps /\ job'[w].on \in Transfers
           \/ job'[w].at \in DepositSteps /\ job'[w].on \in Deposits
           \/ job'[w].at \in DisbSteps /\ job'[w].on \in Disbursements
    PROVE  JobsOK'
  BY DEF TypeInv, JobsOK, TransferSteps, DepositSteps, DisbSteps

-----------------------------------------------------------------------------
LEMMA StepNames ==
    /\ BookSteps \subseteq Steps /\ TransferSteps \subseteq Steps
    /\ DepositSteps \subseteq Steps /\ DisbSteps \subseteq Steps
  BY DEF Steps

LEMMA InitTyped == Init => TypeInv
  <1>. SUFFICES ASSUME Init PROVE TypeInv
    OBVIOUS
  <1>1. nostro \in [Accounts -> NostroRow] /\ va \in [Vas -> VaRow]
    BY BooksParameters DEF Init, BooksInit, NostroRow, VaRow, VaStatuses
  <1>2. job \in [Workers -> Job(Steps, Accounts \cup Vas \cup Subjects)]
    BY DEF Init, BooksInit, Idle, Job, Steps, BookSteps
  <1>3. BooksTypeOK(Steps)
    BY <1>1, <1>2, BooksParameters DEF Init, BooksInit, BooksTypeOK
  <1>4. TransfersTypeOK /\ DepositsTypeOK
    BY DEF Init, TransfersInit, TransfersTypeOK, TransferStatuses,
           DepositsInit, DepositsTypeOK, DepositStatuses
  <1>5. NoApprovals \in ApprovalRows
    BY DEF NoApprovals, ApprovalRows
  <1>6. DisbursementsTypeOK
    BY <1>5 DEF Init, DisbursementsInit, DisbursementsTypeOK, DisbStatuses
  <1>7. JobsOK
    BY DEF Init, BooksInit, Idle, JobsOK, TransferSteps, DepositSteps, DisbSteps
  <1>8. \A a \in Accounts : nostro[a].balance >= 0
    BY BooksParameters DEF Init, BooksInit
  <1>. QED
    BY <1>3, <1>4, <1>6, <1>7, <1>8 DEF TypeInv, TypeOK

\* What a family of handlers keeps: jobs and books are typed, and only jobs of
\* the family's own steps change.
Keeps(S) ==
    /\ job' \in [Workers -> JobType]
    /\ BookFrame
    /\ recharged' \in [Accounts -> Nat]
    /\ overlapped' \subseteq Accounts \cup Vas
    /\ admin' \in Nat
    /\ JobsOK'
    /\ Moves(S)

LEMMA NostroKept == TypeInv /\ NostroHandlers => Keeps(BookSteps)
  <1>. SUFFICES ASSUME TypeInv, NostroHandlers PROVE Keeps(BookSteps)
    OBVIOUS
  <1>. USE DEF Keeps, Moves, BookFrame
  <1>0. /\ nostro \in [Accounts -> NostroRow] /\ va \in [Vas -> VaRow]
        /\ job \in [Workers -> JobType]
        /\ recharged \in [Accounts -> Nat] /\ overlapped \subseteq Accounts \cup Vas
        /\ admin \in Nat
    BY DEF TypeInv, TypeOK, BooksTypeOK, JobType
  <1>1. ASSUME NEW w \in Workers, NEW a \in Accounts, ReadRecharge(w, a)
        PROVE  Keeps(BookSteps)
    <2>1. nostro[a].balance \in Int /\ Enter(w, "recharge", a, nostro[a].balance)
          /\ "recharge" \in Steps
      BY <1>0, <1>1 DEF NostroRow, ReadRecharge, Steps, BookSteps
    <2>2. /\ job' \in [Workers -> JobType] /\ job[w].at = "idle"
          /\ job'[w].at = "recharge" /\ job'[w].on = a
          /\ \A u \in Workers : u # w => job'[u] = job[u]
      BY <2>1, Entering
    <2>3. JobsOK'
      BY <2>2, RowsKept
    <2>. QED
      BY <1>0, <1>1, <2>2, <2>3 DEF ReadRecharge, Administer, BookSteps
  <1>2. ASSUME NEW w \in Workers, NEW a \in Accounts, ReadNostro(w, a)
        PROVE  Keeps(BookSteps)
    <2>1. nostro[a].balance \in Int /\ Enter(w, "saveNostro", a, nostro[a].balance)
          /\ "saveNostro" \in Steps
      BY <1>0, <1>2 DEF NostroRow, ReadNostro, Steps, BookSteps
    <2>2. /\ job' \in [Workers -> JobType] /\ job[w].at = "idle"
          /\ job'[w].at = "saveNostro" /\ job'[w].on = a
          /\ \A u \in Workers : u # w => job'[u] = job[u]
      BY <2>1, Entering
    <2>3. JobsOK'
      BY <2>2, RowsKept
    <2>. QED
      BY <1>0, <1>2, <2>2, <2>3 DEF ReadNostro, Administer, BookSteps
  <1>3. ASSUME NEW w \in Workers, WriteRecharge(w) PROVE Keeps(BookSteps)
    <2>. DEFINE a == job[w].on
    <2>1. a \in Accounts /\ job[w].at = "recharge" /\ job[w].seen \in Int
      BY <1>0, <1>3 DEF TypeInv, JobsOK, WriteRecharge, JobType, Job
    <2>2. /\ job' \in [Workers -> JobType] /\ job'[w].at = "idle"
          /\ \A u \in Workers : u # w => job'[u] = job[u]
      BY <1>3, Returning DEF WriteRecharge
    <2>3. JobsOK'
      BY <2>2, RowsKept
    <2>4. [nostro[a] EXCEPT !.balance = job[w].seen + 1] \in NostroRow
      BY <1>0, <2>1 DEF NostroRow
    <2>5. nostro' = [nostro EXCEPT ![a] = [nostro[a] EXCEPT !.balance = job[w].seen + 1]]
      BY <1>0, <1>3, <2>1 DEF WriteRecharge
    <2>6. nostro' \in [Accounts -> NostroRow] /\ recharged' \in [Accounts -> Nat]
      BY <1>0, <1>3, <2>1, <2>4, <2>5 DEF WriteRecharge
    <2>7. overlapped' \subseteq Accounts \cup Vas /\ va' = va /\ admin' = admin
      BY <1>0, <1>3, <2>1 DEF WriteRecharge, Overwrites
    <2>. QED
      BY <1>0, <2>1, <2>2, <2>3, <2>6, <2>7 DEF BookSteps
  <1>4. ASSUME NEW w \in Workers, NEW active \in BOOLEAN, NEW balance,
               SaveNostro(w, active, balance)
        PROVE  Keeps(BookSteps)
    <2>. DEFINE a == job[w].on
    <2>1. a \in Accounts /\ job[w].at = "saveNostro" /\ balance \in Int
      BY <1>0, <1>4, BooksParameters DEF TypeInv, JobsOK, SaveNostro, JobType, Job
    <2>2. /\ job' \in [Workers -> JobType] /\ job'[w].at = "idle"
          /\ \A u \in Workers : u # w => job'[u] = job[u]
      BY <1>4, Returning DEF SaveNostro
    <2>3. JobsOK'
      BY <2>2, RowsKept
    <2>4. nostro' \in [Accounts -> NostroRow]
      BY <1>0, <1>4, <2>1 DEF SaveNostro, NostroRow
    <2>5. /\ overlapped' \subseteq Accounts \cup Vas
          /\ va' = va /\ admin' = admin /\ recharged' = recharged
      BY <1>0, <1>4, <2>1 DEF SaveNostro, Overwrites
    <2>. QED
      BY <1>0, <2>1, <2>2, <2>3, <2>4, <2>5 DEF BookSteps
  <1>5. ASSUME NEW a \in Accounts, DeactivateNostro(a) PROVE Keeps(BookSteps)
    <2>1. [nostro[a] EXCEPT !.active = FALSE] \in NostroRow
      BY <1>0 DEF NostroRow
    <2>2. nostro' \in [Accounts -> NostroRow]
      BY <1>0, <1>5, <2>1 DEF DeactivateNostro
    <2>3. JobsOK'
      BY <1>5 DEF TypeInv, JobsOK, DeactivateNostro
    <2>. QED
      BY <1>0, <1>5, <2>2, <2>3 DEF DeactivateNostro, Administer
  <1>. QED
    BY <1>1, <1>2, <1>3, <1>4, <1>5 DEF NostroHandlers

LEMMA VaKept == TypeInv /\ VaHandlers => Keeps(BookSteps)
  <1>. SUFFICES ASSUME TypeInv, VaHandlers PROVE Keeps(BookSteps)
    OBVIOUS
  <1>. USE DEF Keeps, Moves, BookFrame
  <1>0. /\ nostro \in [Accounts -> NostroRow] /\ va \in [Vas -> VaRow]
        /\ job \in [Workers -> JobType]
        /\ recharged \in [Accounts -> Nat] /\ overlapped \subseteq Accounts \cup Vas
        /\ admin \in Nat
    BY DEF TypeInv, TypeOK, BooksTypeOK, JobType
  <1>1. ASSUME NEW w \in Workers, NEW v \in Vas, ReadVa(w, v) PROVE Keeps(BookSteps)
    <2>1. va[v].ledger \in Nat /\ Enter(w, "saveVa", v, va[v].ledger) /\ "saveVa" \in Steps
      BY <1>0, <1>1 DEF VaRow, ReadVa, Steps, BookSteps
    <2>2. /\ job' \in [Workers -> JobType] /\ job[w].at = "idle"
          /\ job'[w].at = "saveVa" /\ job'[w].on = v /\ job'[w].seen = va[v].ledger
          /\ \A u \in Workers : u # w => job'[u] = job[u]
      BY <2>1, Entering
    <2>3. JobsOK'
      BY <2>1, <2>2, RowsKept
    <2>. QED
      BY <1>0, <1>1, <2>2, <2>3 DEF ReadVa, Administer, BookSteps
  <1>2. ASSUME NEW w \in Workers, NEW v \in Vas, ReadDeactivateVa(w, v)
        PROVE  Keeps(BookSteps)
    <2>1. Enter(w, "deactivateVa", v, 0) /\ "deactivateVa" \in Steps
      BY <1>2 DEF ReadDeactivateVa, Begin, Steps, BookSteps
    <2>2. /\ job' \in [Workers -> JobType] /\ job[w].at = "idle"
          /\ job'[w].at = "deactivateVa" /\ job'[w].on = v
          /\ \A u \in Workers : u # w => job'[u] = job[u]
      BY <2>1, Entering
    <2>3. JobsOK'
      BY <2>2, RowsKept
    <2>. QED
      BY <1>0, <1>2, <2>2, <2>3 DEF ReadDeactivateVa, Administer, BookSteps
  <1>3. ASSUME NEW w \in Workers, NEW status \in VaStatuses, SaveVa(w, status)
        PROVE  Keeps(BookSteps)
    <2>. DEFINE v == job[w].on
    <2>1. v \in Vas /\ job[w].at = "saveVa" /\ job[w].seen \in Nat
      BY <1>0, <1>3 DEF TypeInv, JobsOK, SaveVa, JobType, Job
    <2>2. /\ job' \in [Workers -> JobType] /\ job'[w].at = "idle"
          /\ \A u \in Workers : u # w => job'[u] = job[u]
      BY <1>3, Returning DEF SaveVa
    <2>3. JobsOK'
      BY <2>2, RowsKept
    <2>4. va' \in [Vas -> VaRow]
      BY <1>0, <1>3, <2>1 DEF SaveVa, VaRow
    <2>5. /\ overlapped' \subseteq Accounts \cup Vas
          /\ nostro' = nostro /\ admin' = admin /\ recharged' = recharged
      BY <1>0, <1>3, <2>1 DEF SaveVa, Overwrites
    <2>. QED
      BY <1>0, <2>1, <2>2, <2>3, <2>4, <2>5 DEF BookSteps
  <1>4. ASSUME NEW w \in Workers, DeactivateVa(w) PROVE Keeps(BookSteps)
    <2>. DEFINE v == job[w].on
    <2>1. v \in Vas /\ job[w].at = "deactivateVa"
      BY <1>4 DEF TypeInv, JobsOK, DeactivateVa
    <2>2. /\ job' \in [Workers -> JobType] /\ job'[w].at = "idle"
          /\ \A u \in Workers : u # w => job'[u] = job[u]
      BY <1>4, Returning DEF DeactivateVa
    <2>3. JobsOK'
      BY <2>2, RowsKept
    <2>4. [va[v] EXCEPT !.status = "INACTIVE"] \in VaRow
      BY <1>0, <2>1 DEF VaRow, VaStatuses
    <2>5. va' \in [Vas -> VaRow]
      BY <1>0, <1>4, <2>1, <2>4 DEF DeactivateVa
    <2>. QED
      BY <1>0, <1>4, <2>1, <2>2, <2>3, <2>5 DEF DeactivateVa, BookSteps
  <1>5. ASSUME NEW v \in Vas, NEW status \in {"ACTIVE", "REVOKED"}, SetVaStatus(v, status)
        PROVE  Keeps(BookSteps)
    <2>1. [va[v] EXCEPT !.status = status] \in VaRow
      BY <1>0 DEF VaRow, VaStatuses
    <2>2. va' \in [Vas -> VaRow]
      BY <1>0, <1>5, <2>1 DEF SetVaStatus
    <2>3. JobsOK'
      BY <1>5 DEF TypeInv, JobsOK, SetVaStatus
    <2>. QED
      BY <1>0, <1>5, <2>2, <2>3 DEF SetVaStatus, Administer
  <1>. QED
    BY <1>1, <1>2, <1>3, <1>4, <1>5 DEF VaHandlers

-----------------------------------------------------------------------------
\* A transfer moves its sum from one balance to the other, whatever its sign,
\* and nothing if they are of one account.
LEMMA BalancesShift ==
    ASSUME nostro \in [Accounts -> NostroRow], NEW t \in Transfers, TransferSum[t] \in Int,
           ShiftBalances(t)
    PROVE  /\ nostro' \in [Accounts -> NostroRow]
           /\ \A a \in Accounts :
                 nostro'[a].balance = nostro[a].balance
                                      - (IF From[t] = a THEN TransferSum[t] ELSE 0)
                                      + (IF To[t] = a THEN TransferSum[t] ELSE 0)
  <1>. DEFINE out(a) == IF a = From[t] THEN TransferSum[t] ELSE 0
              in(a) == IF a = To[t] THEN TransferSum[t] ELSE 0
              row(a) == [nostro[a] EXCEPT !.balance = nostro[a].balance - out(a) + in(a)]
  <1>1. nostro' = [a \in Accounts |-> row(a)]
    BY DEF ShiftBalances
  <1>2. ASSUME NEW a \in Accounts
        PROVE  /\ row(a) \in NostroRow
               /\ row(a).balance = nostro[a].balance - out(a) + in(a)
    <2>1. nostro[a] \in NostroRow /\ nostro[a].balance \in Int
      BY DEF NostroRow
    <2>2. out(a) \in Int /\ in(a) \in Int
      OBVIOUS
    <2>. HIDE DEF out, in
    <2>. QED
      BY <2>1, <2>2 DEF NostroRow
  <1>3. nostro' \in [Accounts -> NostroRow]
    <2>. HIDE DEF row
    <2>. QED
      BY <1>1, <1>2
  <1>4. \A a \in Accounts : nostro'[a].balance = nostro[a].balance - out(a) + in(a)
    <2>. HIDE DEF out, in
    <2>. QED
      BY <1>1, <1>2
  <1>. QED
    BY <1>3, <1>4

\* The handlers of transfers.
LEMMA TransfersKept ==
    TypeInv /\ TransferHandlers => Keeps({"idle"} \cup TransferSteps) /\ TransfersTypeOK'
  <1>. DEFINE S == {"idle"} \cup TransferSteps
  <1>. SUFFICES ASSUME TypeInv, TransferHandlers PROVE Keeps(S) /\ TransfersTypeOK'
    OBVIOUS
  <1>. USE DEF Keeps, Moves, BookFrame
  <1>0. /\ nostro \in [Accounts -> NostroRow] /\ va \in [Vas -> VaRow]
        /\ job \in [Workers -> JobType]
        /\ recharged \in [Accounts -> Nat] /\ overlapped \subseteq Accounts \cup Vas
        /\ admin \in Nat
        /\ transfer \in [Transfers -> TransferStatuses]
        /\ moved \in [Transfers -> Nat] /\ shifted \in [Transfers -> Nat]
        /\ Transfers \subseteq Subjects
    BY RowsDisjoint DEF TypeInv, TypeOK, BooksTypeOK, TransfersTypeOK, JobType
  <1>1. ASSUME NEW w \in Workers, NEW t \in Transfers, ReadTransfer(w, t)
        PROVE  Keeps(S) /\ TransfersTypeOK'
    <2>1. Enter(w, "transfer", t, 0) /\ "transfer" \in Steps /\ t \in Subjects
      BY <1>0, <1>1 DEF ReadTransfer, Begin, Steps, TransferSteps
    <2>2. /\ job' \in [Workers -> JobType] /\ job[w].at = "idle"
          /\ job'[w].at = "transfer" /\ job'[w].on = t
          /\ \A u \in Workers : u # w => job'[u] = job[u]
      BY <2>1, Entering
    <2>3. JobsOK'
      BY <2>2, RowsKept DEF TransferSteps
    <2>4. TransfersTypeOK'
      BY <1>0, <1>1 DEF ReadTransfer, transferVars, TransfersTypeOK
    <2>. QED
      BY <1>0, <1>1, <2>2, <2>3, <2>4 DEF ReadTransfer, TransferSteps
  <1>2. ASSUME NEW w \in Workers, CallTransfer(w) PROVE Keeps(S) /\ TransfersTypeOK'
    <2>. DEFINE t == job[w].on
    <2>1. t \in Transfers /\ job[w].at = "transfer" /\ "shift" \in Steps
      BY <1>2 DEF TypeInv, JobsOK, CallTransfer, TransferSteps, Steps
    <2>2. /\ job' \in [Workers -> JobType]
          /\ job'[w].at \in {"idle", "shift"}
          /\ job'[w].at = "shift" => job'[w].on = t
          /\ \A u \in Workers : u # w => job'[u] = job[u]
      BY <1>2, <2>1, Going, Returning DEF CallTransfer
    <2>3. JobsOK'
      BY <2>1, <2>2, RowsKept DEF TransferSteps
    <2>4. moved' \in [Transfers -> Nat]
      BY <1>0, <1>2, <2>1 DEF CallTransfer
    <2>5. TransfersTypeOK'
      BY <1>0, <1>2, <2>4 DEF CallTransfer, TransfersTypeOK
    <2>. QED
      BY <1>0, <1>2, <2>1, <2>2, <2>3, <2>5 DEF CallTransfer, TransferSteps
  <1>3. ASSUME NEW w \in Workers, Shift(w) PROVE Keeps(S) /\ TransfersTypeOK'
    <2>. DEFINE t == job[w].on
    <2>1. t \in Transfers /\ job[w].at = "shift"
      BY <1>3 DEF TypeInv, JobsOK, Shift, TransferSteps
    <2>2. /\ job' \in [Workers -> JobType] /\ job'[w].at = "idle"
          /\ \A u \in Workers : u # w => job'[u] = job[u]
      BY <1>3, Returning DEF Shift
    <2>3. JobsOK'
      BY <2>2, RowsKept
    <2>4. TransferSum[t] \in Int
      BY <2>1, TransferParameters
    <2>5. nostro' \in [Accounts -> NostroRow]
      <3>1. CASE UNCHANGED nostro
        BY <1>0, <3>1
      <3>2. CASE ShiftBalances(t)
        BY <1>0, <2>1, <2>4, <3>2, BalancesShift
      <3>. QED
        BY <1>3, <3>1, <3>2 DEF Shift
    <2>6. transfer' \in [Transfers -> TransferStatuses] /\ shifted' \in [Transfers -> Nat]
      BY <1>0, <1>3, <2>1 DEF Shift, TransferStatuses
    <2>7. TransfersTypeOK'
      BY <1>0, <1>3, <2>6 DEF Shift, TransfersTypeOK
    <2>. QED
      BY <1>0, <1>3, <2>1, <2>2, <2>3, <2>5, <2>7 DEF Shift, TransferSteps
  <1>. QED
    BY <1>1, <1>2, <1>3 DEF TransferHandlers

\* The review of deposits.
LEMMA DepositsKept ==
    TypeInv /\ DepositHandlers => Keeps({"idle"} \cup DepositSteps) /\ DepositsTypeOK'
  <1>. DEFINE S == {"idle"} \cup DepositSteps
  <1>. SUFFICES ASSUME TypeInv, DepositHandlers PROVE Keeps(S) /\ DepositsTypeOK'
    OBVIOUS
  <1>. USE DEF Keeps, Moves
  <1>0. /\ nostro \in [Accounts -> NostroRow] /\ va \in [Vas -> VaRow]
        /\ job \in [Workers -> JobType]
        /\ recharged \in [Accounts -> Nat] /\ overlapped \subseteq Accounts \cup Vas
        /\ admin \in Nat
        /\ deposit \in [Deposits -> DepositStatuses] /\ credits \in [Deposits -> Nat]
        /\ Deposits \subseteq Subjects
    BY RowsDisjoint DEF TypeInv, TypeOK, BooksTypeOK, DepositsTypeOK, JobType
  <1>1. ASSUME NEW w \in Workers, NEW d \in Deposits, StartApproval(w, d)
        PROVE  Keeps(S) /\ DepositsTypeOK'
    <2>1. /\ Enter(w, "credit", d, credits[d]) /\ "credit" \in Steps /\ d \in Subjects
          /\ credits[d] \in Nat
      BY <1>0, <1>1 DEF StartApproval, Steps, DepositSteps
    <2>2. /\ job' \in [Workers -> JobType] /\ job[w].at = "idle"
          /\ job'[w].at = "credit" /\ job'[w].on = d
          /\ \A u \in Workers : u # w => job'[u] = job[u]
      BY <2>1, Entering
    <2>3. JobsOK'
      BY <2>2, RowsKept DEF DepositSteps
    <2>4. DepositsTypeOK'
      BY <1>0, <1>1 DEF StartApproval, depositVars, DepositsTypeOK
    <2>. QED
      BY <1>0, <1>1, <2>2, <2>3, <2>4 DEF StartApproval, DepositSteps, BookFrame
  <1>2. ASSUME NEW d \in Deposits, ApproveUncredited(d) \/ RejectDeposit(d)
        PROVE  Keeps(S) /\ DepositsTypeOK'
    <2>1. DepositsTypeOK'
      BY <1>0, <1>2 DEF ApproveUncredited, RejectDeposit, DepositsTypeOK, DepositStatuses
    <2>2. UNCHANGED bookVars
      BY <1>2 DEF ApproveUncredited, RejectDeposit
    <2>3. JobsOK'
      BY <2>2 DEF TypeInv, JobsOK, bookVars
    <2>. QED
      BY <1>0, <2>1, <2>2, <2>3 DEF bookVars, BookFrame
  <1>3. ASSUME NEW w \in Workers, FinishApproval(w) PROVE Keeps(S) /\ DepositsTypeOK'
    <2>. DEFINE d == job[w].on
    <2>1. d \in Deposits /\ job[w].at = "credit"
      BY <1>0, <1>3 DEF TypeInv, JobsOK, FinishApproval, DepositSteps
    <2>2. /\ job' \in [Workers -> JobType] /\ job'[w].at = "idle"
          /\ \A u \in Workers : u # w => job'[u] = job[u]
      BY <1>3, Returning DEF FinishApproval
    <2>3. JobsOK'
      BY <2>2, RowsKept
    <2>4. DepositVa[d] \in Vas /\ DepositSum[d] \in Nat /\ DepositSum[d] \in Int
      BY <2>1, DepositParameters
    <2>5. BookFrame /\ credits' \in [Deposits -> Nat]
      <3>1. CASE UNCHANGED <<nostro, va, credits>>
        BY <1>0, <3>1 DEF BookFrame
      <3>2. CASE PostVa(DepositVa[d], DepositSum[d]) /\ credits' = [credits EXCEPT ![d] = @ + 1]
        <4>1. BookFrame
          BY <2>4, <3>2, Posting
        <4>. QED
          BY <1>0, <2>1, <3>2, <4>1
      <3>. QED
        BY <1>3, <3>1, <3>2 DEF FinishApproval, Credit
    <2>6. DepositsTypeOK'
      BY <1>0, <1>3, <2>1, <2>5 DEF FinishApproval, DepositsTypeOK, DepositStatuses
    <2>. QED
      BY <1>0, <1>3, <2>1, <2>2, <2>3, <2>5, <2>6 DEF FinishApproval, DepositSteps
  <1>. QED
    BY <1>1, <1>2, <1>3 DEF DepositHandlers

\* The handlers of disbursements.  The authorisations write two columns.
LEMMA FirstAuthorised ==
    ASSUME TypeInv, NEW w \in Workers, NEW p \in Principals, AuthoriseFirst(w, p),
           NEW b, b = job[w].on, b \in Disbursements
    PROVE  /\ approvals' \in [Disbursements -> ApprovalRows]
           /\ \A x \in Disbursements : x # b => approvals'[x] = approvals[x]
           /\ approvals'[b].first = approvals[b].first \cup {p}
           /\ approvals'[b].earliest \in {p, approvals[b].earliest} \ {"none"}
           /\ approvals'[b].second = approvals[b].second
           /\ approvals'[b].rejected = approvals[b].rejected
  <1>1. approvals \in [Disbursements -> ApprovalRows] /\ approvals[b] \in ApprovalRows
    BY DEF TypeInv, TypeOK, DisbursementsTypeOK
  <1>2. PICK f \in {p, approvals[b].earliest} \ {"none"} :
            approvals' = [approvals EXCEPT ![b].first = @ \cup {p}, ![b].earliest = f]
    BY DEF AuthoriseFirst
  <1>. DEFINE row == [approvals[b] EXCEPT !.first = approvals[b].first \cup {p}, !.earliest = f]
  <1>3. approvals' = [approvals EXCEPT ![b] = row]
    BY <1>1, <1>2
  <1>4. f \in Principals \cup {"none"}
    BY <1>1 DEF ApprovalRows
  <1>5. /\ row \in ApprovalRows
        /\ row.first = approvals[b].first \cup {p} /\ row.earliest = f
        /\ row.second = approvals[b].second /\ row.rejected = approvals[b].rejected
    BY <1>1, <1>4 DEF ApprovalRows
  <1>6. approvals'[b] = row
    BY <1>1, <1>3
  <1>. QED
    BY <1>1, <1>3, <1>5, <1>6

LEMMA SecondAuthorised ==
    ASSUME TypeInv, NEW w \in Workers, NEW p \in Principals, AuthoriseSecond(w, p),
           NEW b, b = job[w].on, b \in Disbursements
    PROVE  /\ approvals' \in [Disbursements -> ApprovalRows]
           /\ \A x \in Disbursements : x # b => approvals'[x] = approvals[x]
           /\ approvals'[b].first = approvals[b].first
           /\ approvals'[b].earliest = approvals[b].earliest
           /\ approvals'[b].second = approvals[b].second \cup {p}
           /\ approvals'[b].rejected = approvals[b].rejected
  <1>1. approvals \in [Disbursements -> ApprovalRows] /\ approvals[b] \in ApprovalRows
    BY DEF TypeInv, TypeOK, DisbursementsTypeOK
  <1>. DEFINE row == [approvals[b] EXCEPT !.second = approvals[b].second \cup {p}]
  <1>2. approvals' = [approvals EXCEPT ![b] = row]
    BY <1>1 DEF AuthoriseSecond
  <1>3. /\ row \in ApprovalRows
        /\ row.first = approvals[b].first /\ row.earliest = approvals[b].earliest
        /\ row.second = approvals[b].second \cup {p} /\ row.rejected = approvals[b].rejected
    BY <1>1 DEF ApprovalRows
  <1>4. approvals'[b] = row
    BY <1>1, <1>2
  <1>. QED
    BY <1>1, <1>2, <1>3, <1>4

LEMMA Rejected ==
    ASSUME TypeInv, NEW b \in Disbursements, RejectDisbursement(b)
    PROVE  /\ approvals' \in [Disbursements -> ApprovalRows]
           /\ \A x \in Disbursements : x # b => approvals'[x] = approvals[x]
           /\ approvals'[b].first = approvals[b].first
           /\ approvals'[b].earliest = approvals[b].earliest
           /\ approvals'[b].second = approvals[b].second
  <1>1. approvals \in [Disbursements -> ApprovalRows] /\ approvals[b] \in ApprovalRows
    BY DEF TypeInv, TypeOK, DisbursementsTypeOK
  <1>. DEFINE row == [approvals[b] EXCEPT !.rejected = TRUE]
  <1>2. approvals' = [approvals EXCEPT ![b] = row]
    BY <1>1 DEF RejectDisbursement
  <1>3. /\ row \in ApprovalRows
        /\ row.first = approvals[b].first /\ row.earliest = approvals[b].earliest
        /\ row.second = approvals[b].second
    BY <1>1 DEF ApprovalRows
  <1>4. approvals'[b] = row
    BY <1>1, <1>2
  <1>. QED
    BY <1>1, <1>2, <1>3, <1>4

\* What the steps of a worker inside a handler of disbursements make of its job.
DisbMove(w, b) ==
    /\ job[w].on = b /\ b \in Disbursements
    /\ job' \in [Workers -> JobType]
    /\ \A u \in Workers : u # w => job'[u] = job[u]
    /\ job'[w].at # "idle" => job'[w].on = b

LEMMA DisbMoves ==
    ASSUME TypeInv, NEW w \in Workers
    PROVE  /\ \A p \in Principals : AuthoriseFirst(w, p) =>
                  DisbMove(w, job[w].on) /\ job[w].at = "first" /\ job'[w].at = "idle"
           /\ \A p \in Principals : AuthoriseSecond(w, p) =>
                  DisbMove(w, job[w].on) /\ job[w].at = "second" /\ job'[w].at = "execute"
           /\ CheckBalance(w) => /\ DisbMove(w, job[w].on)
                                 /\ job[w].at = "execute" /\ job'[w].at \in {"pay", "idle"}
           /\ CallBank(w) => /\ DisbMove(w, job[w].on)
                             /\ job[w].at = "pay" /\ job'[w].at \in {"book", "idle"}
           /\ Book(w) => /\ DisbMove(w, job[w].on)
                         /\ job[w].at = "book" /\ job'[w].at \in {"debit", "idle"}
           /\ Debit(w) => DisbMove(w, job[w].on) /\ job[w].at = "debit" /\ job'[w].at = "idle"
           /\ RollBack(w) => /\ DisbMove(w, job[w].on)
                             /\ job[w].at \in {"book", "debit"} /\ job'[w].at = "idle"
  <1>1. job[w].at \in DisbSteps => job[w].on \in Disbursements
    BY DEF TypeInv, JobsOK
  <1>2. {"first", "second", "execute", "pay", "book", "debit"} \subseteq Steps
    BY DEF Steps, DisbSteps
  <1>3. ASSUME NEW s \in {"execute", "pay", "book", "debit"}, Go(w, s)
        PROVE  /\ job' \in [Workers -> JobType] /\ job'[w].at = s
               /\ \A u \in Workers : u # w => job'[u] = job[u]
               /\ job'[w].on = job[w].on
    BY <1>2, <1>3, Going
  <1>4. ASSUME Return(w)
        PROVE  /\ job' \in [Workers -> JobType] /\ job'[w].at = "idle"
               /\ \A u \in Workers : u # w => job'[u] = job[u]
    BY <1>4, Returning
  <1>. USE <1>1 DEF DisbMove, DisbSteps
  <1>5. \A p \in Principals : AuthoriseFirst(w, p) =>
            DisbMove(w, job[w].on) /\ job[w].at = "first" /\ job'[w].at = "idle"
    BY <1>4 DEF AuthoriseFirst
  <1>6. \A p \in Principals : AuthoriseSecond(w, p) =>
            DisbMove(w, job[w].on) /\ job[w].at = "second" /\ job'[w].at = "execute"
    BY <1>3 DEF AuthoriseSecond
  <1>7. CheckBalance(w) => /\ DisbMove(w, job[w].on)
                           /\ job[w].at = "execute" /\ job'[w].at \in {"pay", "idle"}
    BY <1>3, <1>4 DEF CheckBalance
  <1>8. CallBank(w) => /\ DisbMove(w, job[w].on)
                       /\ job[w].at = "pay" /\ job'[w].at \in {"book", "idle"}
    BY <1>3, <1>4 DEF CallBank
  <1>9. Book(w) => /\ DisbMove(w, job[w].on)
                   /\ job[w].at = "book" /\ job'[w].at \in {"debit", "idle"}
    BY <1>3, <1>4 DEF Book
  <1>10. Debit(w) => DisbMove(w, job[w].on) /\ job[w].at = "debit" /\ job'[w].at = "idle"
    BY <1>4 DEF Debit
  <1>11. RollBack(w) => /\ DisbMove(w, job[w].on)
                        /\ job[w].at \in {"book", "debit"} /\ job'[w].at = "idle"
    BY <1>4 DEF RollBack
  <1>. QED
    BY <1>5, <1>6, <1>7, <1>8, <1>9, <1>10, <1>11

LEMMA DisbReading ==
    ASSUME TypeInv, NEW w \in Workers, NEW b \in Disbursements, ReadDisbursement(w, b)
    PROVE  /\ job' \in [Workers -> JobType]
           /\ job[w].at = "idle" /\ job'[w].on = b
           /\ \A u \in Workers : u # w => job'[u] = job[u]
           /\ \/ disb[b] = "PENDING_FIRST_APPROVAL" /\ job'[w].at = "first"
              \/ disb[b] = "PENDING_SECOND_APPROVAL" /\ job'[w].at = "second"
              \/ disb[b] = "APPROVED" /\ job'[w].at = "execute"
  <1>1. b \in Accounts \cup Vas \cup Subjects
    BY RowsDisjoint
  <1>2. {"first", "second", "execute"} \subseteq Steps
    BY DEF Steps, DisbSteps
  <1>3. \A s \in {"first", "second", "execute"} : Begin(w, s, b) =>
            /\ job' \in [Workers -> JobType]
            /\ job[w].at = "idle" /\ job'[w].on = b /\ job'[w].at = s
            /\ \A u \in Workers : u # w => job'[u] = job[u]
    BY <1>1, <1>2, Entering DEF Begin
  <1>. QED
    BY <1>3 DEF ReadDisbursement, Payable

LEMMA DisbursementsKept ==
    TypeInv /\ DisbursementHandlers
        => Keeps({"idle"} \cup DisbSteps) /\ DisbursementsTypeOK'
  <1>. DEFINE S == {"idle"} \cup DisbSteps
  <1>. SUFFICES ASSUME TypeInv, DisbursementHandlers PROVE Keeps(S) /\ DisbursementsTypeOK'
    OBVIOUS
  <1>0. /\ nostro \in [Accounts -> NostroRow] /\ va \in [Vas -> VaRow]
        /\ job \in [Workers -> JobType]
        /\ recharged \in [Accounts -> Nat] /\ overlapped \subseteq Accounts \cup Vas
        /\ admin \in Nat
        /\ disb \in [Disbursements -> DisbStatuses]
        /\ approvals \in [Disbursements -> ApprovalRows]
        /\ paid \in [Disbursements -> Nat] /\ debits \in [Disbursements -> Nat]
        /\ disturbed \subseteq Disbursements
    BY DEF TypeInv, TypeOK, BooksTypeOK, DisbursementsTypeOK, JobType
  <1>1. ASSUME NEW w \in Workers, NEW b \in Disbursements, ReadDisbursement(w, b)
        PROVE  Keeps(S) /\ DisbursementsTypeOK'
    <2>1. /\ job' \in [Workers -> JobType] /\ job[w].at = "idle"
          /\ job'[w].at \in DisbSteps /\ job'[w].on = b
          /\ \A u \in Workers : u # w => job'[u] = job[u]
      BY <1>1, DisbReading DEF DisbSteps
    <2>2. JobsOK'
      BY <2>1, RowsKept
    <2>3. DisbursementsTypeOK'
      BY <1>0, <1>1 DEF ReadDisbursement, Disturb, DisbursementsTypeOK
    <2>. QED
      BY <1>0, <1>1, <2>1, <2>2, <2>3 DEF ReadDisbursement, Keeps, Moves, BookFrame
  <1>2. ASSUME NEW b \in Disbursements, RejectDisbursement(b)
        PROVE  Keeps(S) /\ DisbursementsTypeOK'
    <2>1. approvals' \in [Disbursements -> ApprovalRows]
      BY <1>2, Rejected
    <2>2. DisbursementsTypeOK'
      BY <1>0, <1>2, <2>1 DEF RejectDisbursement, DisbursementsTypeOK, DisbStatuses
    <2>3. UNCHANGED bookVars
      BY <1>2 DEF RejectDisbursement
    <2>4. JobsOK'
      BY <2>3 DEF TypeInv, JobsOK, bookVars
    <2>. QED
      BY <1>0, <2>2, <2>3, <2>4 DEF bookVars, Keeps, Moves, BookFrame
  <1>3. ASSUME NEW w \in Workers, DisbMove(w, job[w].on), job[w].at \in DisbSteps,
               job'[w].at \in S,
               BookFrame, UNCHANGED <<recharged, overlapped, admin>>
        PROVE  Keeps(S)
    <2>1. JobsOK'
      BY <1>3, RowsKept DEF DisbMove
    <2>. QED
      BY <1>0, <1>3, <2>1 DEF DisbMove, Keeps, Moves
  <1>4. ASSUME NEW w \in Workers, NEW p \in Principals, AuthoriseFirst(w, p)
        PROVE  Keeps(S) /\ DisbursementsTypeOK'
    <2>1. DisbMove(w, job[w].on) /\ job[w].at = "first" /\ job'[w].at = "idle"
      BY <1>4, DisbMoves
    <2>2. approvals' \in [Disbursements -> ApprovalRows]
      BY <1>4, <2>1, FirstAuthorised DEF DisbMove
    <2>3. DisbursementsTypeOK'
      BY <1>0, <1>4, <2>2 DEF AuthoriseFirst, DisbursementsTypeOK, DisbStatuses
    <2>4. BookFrame /\ UNCHANGED <<recharged, overlapped, admin>>
      BY <1>0, <1>4 DEF AuthoriseFirst, BookFrame
    <2>. QED
      BY <1>3, <2>1, <2>3, <2>4 DEF DisbSteps
  <1>5. ASSUME NEW w \in Workers, NEW p \in Principals, AuthoriseSecond(w, p)
        PROVE  Keeps(S) /\ DisbursementsTypeOK'
    <2>1. DisbMove(w, job[w].on) /\ job[w].at = "second" /\ job'[w].at = "execute"
      BY <1>5, DisbMoves
    <2>2. approvals' \in [Disbursements -> ApprovalRows]
      BY <1>5, <2>1, SecondAuthorised DEF DisbMove
    <2>3. DisbursementsTypeOK'
      BY <1>0, <1>5, <2>2 DEF AuthoriseSecond, DisbursementsTypeOK, DisbStatuses
    <2>4. BookFrame /\ UNCHANGED <<recharged, overlapped, admin>>
      BY <1>0, <1>5 DEF AuthoriseSecond, BookFrame
    <2>. QED
      BY <1>3, <2>1, <2>3, <2>4 DEF DisbSteps
  <1>6. ASSUME NEW w \in Workers, CheckBalance(w) \/ CallBank(w) \/ Book(w) \/ RollBack(w)
        PROVE  Keeps(S) /\ DisbursementsTypeOK'
    <2>1. DisbMove(w, job[w].on) /\ job[w].at \in DisbSteps /\ job'[w].at \in S
      BY <1>6, DisbMoves DEF DisbSteps
    <2>2. job[w].on \in Disbursements
      BY <2>1 DEF DisbMove
    <2>3. DisbursementsTypeOK'
      BY <1>0, <1>6, <2>2
         DEF CheckBalance, CallBank, Book, RollBack, disbVars, DisbursementsTypeOK, DisbStatuses
    <2>4. BookFrame /\ UNCHANGED <<recharged, overlapped, admin>>
      BY <1>0, <1>6 DEF CheckBalance, CallBank, Book, RollBack, BookFrame
    <2>. QED
      BY <1>3, <2>1, <2>3, <2>4
  <1>7. ASSUME NEW w \in Workers, Debit(w) PROVE Keeps(S) /\ DisbursementsTypeOK'
    <2>. DEFINE n == PayoutSum[job[w].on]
    <2>1. DisbMove(w, job[w].on) /\ job[w].at = "debit" /\ job'[w].at = "idle"
      BY <1>7, DisbMoves
    <2>2. job[w].on \in Disbursements
      BY <2>1 DEF DisbMove
    <2>3. n \in Nat /\ 0 - n \in Int /\ 0 - (0 - n) = n /\ AgentAccount \in Vas
      BY <2>2, DisbursementParameters
    <2>4. VaCovers(AgentAccount, n) /\ PostVa(AgentAccount, 0 - n)
      BY <1>7 DEF Debit
    <2>5. BookFrame
      BY <2>3, <2>4, Posting
    <2>6. DisbursementsTypeOK'
      BY <1>0, <1>7, <2>2 DEF Debit, DisbursementsTypeOK, DisbStatuses
    <2>. QED
      BY <1>3, <1>7, <2>1, <2>5, <2>6 DEF Debit, DisbSteps
  <1>. QED
    BY <1>1, <1>2, <1>4, <1>5, <1>6, <1>7 DEF DisbursementHandlers

-----------------------------------------------------------------------------
\* A worker dies outside the payout's transaction.
CrashOutside ==
    \E w \in Workers : /\ ~ job[w].at \in {"book", "debit"}
                       /\ Crash(w)
                       /\ UNCHANGED <<transferVars, depositVars, disbVars>>

LEMMA CrashKept ==
    ASSUME TypeInv, CrashOutside
    PROVE  /\ Keeps(Steps)
           /\ \A u \in Workers : \/ job'[u] = job[u]
                                 \/ job'[u].at = "idle" /\ job[u].at \notin {"book", "debit"}
  <1>0. /\ nostro \in [Accounts -> NostroRow] /\ va \in [Vas -> VaRow]
        /\ job \in [Workers -> JobType]
        /\ recharged \in [Accounts -> Nat] /\ overlapped \subseteq Accounts \cup Vas
        /\ admin \in Nat
    BY DEF TypeInv, TypeOK, BooksTypeOK, JobType
  <1>1. PICK w \in Workers : ~ job[w].at \in {"book", "debit"} /\ Crash(w)
    BY DEF CrashOutside
  <1>2. /\ job' \in [Workers -> JobType] /\ job'[w].at = "idle"
        /\ \A u \in Workers : u # w => job'[u] = job[u]
    BY <1>1, Returning DEF Crash
  <1>3. JobsOK'
    BY <1>2, RowsKept
  <1>4. job[w].at \in Steps /\ "idle" \in Steps
    BY <1>0 DEF JobType, Job, Steps, BookSteps
  <1>5. Keeps(Steps)
    BY <1>0, <1>1, <1>2, <1>3, <1>4 DEF Crash, Keeps, Moves, BookFrame
  <1>. QED
    BY <1>1, <1>2, <1>5

\* The parts of TypeOK: what the rows are, and that balances are not below zero.
RowsTyped == BooksTypeOK(Steps) /\ TransfersTypeOK /\ DepositsTypeOK /\ DisbursementsTypeOK

Covered == \A a \in Accounts \ (overlapped \cup Drained) : nostro[a].balance >= 0

\* Every step is one of a family, and keeps types.
LEMMA StepRows == TypeInv /\ [Next]_vars => (RowsTyped /\ JobsOK)'
  <1>. SUFFICES ASSUME TypeInv, [Next]_vars PROVE (RowsTyped /\ JobsOK)'
    OBVIOUS
  <1>0. TransfersTypeOK /\ DepositsTypeOK /\ DisbursementsTypeOK
    BY DEF TypeInv, TypeOK
  <1>1. ASSUME NEW S, Keeps(S) PROVE BooksTypeOK(Steps)' /\ JobsOK'
    BY <1>1 DEF Keeps, BookFrame, BooksTypeOK, JobType
  <1>2. CASE (NostroHandlers \/ VaHandlers) /\ UNCHANGED <<transferVars, depositVars, disbVars>>
    <2>1. TransfersTypeOK' /\ DepositsTypeOK' /\ DisbursementsTypeOK'
      BY <1>0, <1>2 DEF transferVars, depositVars, disbVars,
                        TransfersTypeOK, DepositsTypeOK, DisbursementsTypeOK
    <2>. QED
      BY <1>1, <1>2, <2>1, NostroKept, VaKept DEF RowsTyped
  <1>3. CASE TransferHandlers /\ UNCHANGED <<depositVars, disbVars>>
    <2>1. DepositsTypeOK' /\ DisbursementsTypeOK'
      BY <1>0, <1>3 DEF depositVars, disbVars, DepositsTypeOK, DisbursementsTypeOK
    <2>. QED
      BY <1>1, <1>3, <2>1, TransfersKept DEF RowsTyped
  <1>4. CASE DepositHandlers /\ UNCHANGED <<transferVars, disbVars>>
    <2>1. TransfersTypeOK' /\ DisbursementsTypeOK'
      BY <1>0, <1>4 DEF transferVars, disbVars, TransfersTypeOK, DisbursementsTypeOK
    <2>. QED
      BY <1>1, <1>4, <2>1, DepositsKept DEF RowsTyped
  <1>5. CASE DisbursementHandlers /\ UNCHANGED <<transferVars, depositVars>>
    <2>1. TransfersTypeOK' /\ DepositsTypeOK'
      BY <1>0, <1>5 DEF transferVars, depositVars, TransfersTypeOK, DepositsTypeOK
    <2>. QED
      BY <1>1, <1>5, <2>1, DisbursementsKept DEF RowsTyped
  <1>6. CASE CrashOutside
    <2>1. TransfersTypeOK' /\ DepositsTypeOK' /\ DisbursementsTypeOK'
      BY <1>0, <1>6 DEF CrashOutside, transferVars, depositVars, disbVars,
                        TransfersTypeOK, DepositsTypeOK, DisbursementsTypeOK
    <2>. QED
      BY <1>1, <1>6, <2>1, CrashKept DEF RowsTyped
  <1>7. CASE UNCHANGED vars
    BY <1>7 DEF TypeInv, TypeOK, RowsTyped, JobsOK, BooksTypeOK, TransfersTypeOK,
                DepositsTypeOK, DisbursementsTypeOK, vars, bookVars, transferVars, depositVars, disbVars
  <1>. QED
    BY <1>2, <1>3, <1>4, <1>5, <1>6, <1>7 DEF Next, CrashOutside

-----------------------------------------------------------------------------
\* Balances stay covered if each stays as high, is not below zero, or is of an
\* account that was overwritten or drained.
LEMMA StaysCovered ==
    ASSUME TypeInv, RowsTyped', overlapped \subseteq overlapped',
           \A t \in Transfers : shifted[t] <= shifted'[t],
           \A a \in Accounts : \/ nostro'[a].balance >= nostro[a].balance
                               \/ nostro'[a].balance >= 0
                               \/ a \in overlapped' \cup Drained'
    PROVE  Covered'
  <1>1. \A t \in Transfers : shifted[t] \in Nat /\ shifted'[t] \in Nat
    BY DEF TypeInv, TypeOK, RowsTyped, TransfersTypeOK
  <1>2. Drained \subseteq Drained'
    BY <1>1 DEF Drained
  <1>3. \A a \in Accounts : nostro[a].balance \in Int /\ nostro'[a].balance \in Int
    BY DEF TypeInv, TypeOK, RowsTyped, BooksTypeOK, NostroRow
  <1>4. Covered
    BY DEF TypeInv, TypeOK, Covered
  <1>. QED
    BY <1>2, <1>3, <1>4 DEF Covered

\* What a recharge or a save writes is covered, or the row is marked.
LEMMA NostroCovered ==
    ASSUME TypeInv, RowsTyped', NostroHandlers, UNCHANGED transferVars
    PROVE  Covered'
  <1>0. /\ nostro \in [Accounts -> NostroRow] /\ job \in [Workers -> JobType]
        /\ \A t \in Transfers : shifted[t] \in Nat /\ shifted'[t] = shifted[t]
        /\ \A a \in Accounts : nostro[a].balance \in Int
    BY DEF TypeInv, TypeOK, BooksTypeOK, TransfersTypeOK, transferVars, JobType, NostroRow
  <1>1. ASSUME NEW a \in Accounts, NEW n \in Int, overlapped \subseteq overlapped',
               nostro'[a].balance = n,
               n >= nostro[a].balance \/ a \in overlapped',
               \A c \in Accounts : c # a => nostro'[c] = nostro[c]
        PROVE  Covered'
    BY <1>0, <1>1, StaysCovered
  <1>2. ASSUME UNCHANGED <<nostro, overlapped>> PROVE Covered'
    BY <1>0, <1>2, StaysCovered
  <1>3. ASSUME NEW w \in Workers, NEW a \in Accounts, ReadRecharge(w, a) \/ ReadNostro(w, a)
        PROVE  Covered'
    BY <1>2, <1>3 DEF ReadRecharge, ReadNostro
  <1>4. ASSUME NEW w \in Workers, WriteRecharge(w) PROVE Covered'
    <2>. DEFINE a == job[w].on
    <2>1. a \in Accounts /\ job[w].seen \in Int
      BY <1>0, <1>4 DEF TypeInv, JobsOK, WriteRecharge, JobType, Job
    <2>2. /\ nostro'[a].balance = job[w].seen + 1
          /\ \A c \in Accounts : c # a => nostro'[c] = nostro[c]
      BY <1>0, <1>4, <2>1 DEF WriteRecharge, NostroRow
    <2>3. /\ overlapped \subseteq overlapped'
          /\ job[w].seen = nostro[a].balance \/ a \in overlapped'
      BY <1>4 DEF WriteRecharge, Overwrites
    <2>4. job[w].seen + 1 >= nostro[a].balance \/ a \in overlapped'
      BY <2>1, <2>3
    <2>5. job[w].seen + 1 \in Int
      BY <2>1
    <2>. HIDE DEF a
    <2>. QED
      BY <1>1, <2>1, <2>2, <2>3, <2>4, <2>5
  <1>5. ASSUME NEW w \in Workers, NEW active \in BOOLEAN, NEW balance,
               SaveNostro(w, active, balance)
        PROVE  Covered'
    <2>. DEFINE a == job[w].on
    <2>1. a \in Accounts /\ balance \in Int
      BY <1>0, <1>5, BooksParameters DEF TypeInv, JobsOK, SaveNostro, JobType, Job
    <2>2. /\ nostro'[a].balance = balance
          /\ \A c \in Accounts : c # a => nostro'[c] = nostro[c]
      BY <1>0, <1>5, <2>1 DEF SaveNostro
    <2>3. /\ overlapped \subseteq overlapped'
          /\ balance = nostro[a].balance \/ a \in overlapped'
      BY <1>5 DEF SaveNostro, Overwrites
    <2>4. balance >= nostro[a].balance \/ a \in overlapped'
      BY <2>1, <2>3
    <2>. HIDE DEF a
    <2>. QED
      BY <1>1, <2>1, <2>2, <2>3, <2>4
  <1>6. ASSUME NEW a \in Accounts, DeactivateNostro(a) PROVE Covered'
    <2>1. \A c \in Accounts : nostro'[c].balance = nostro[c].balance
      BY <1>0, <1>6 DEF DeactivateNostro, NostroRow
    <2>. QED
      BY <1>0, <1>6, <2>1, StaysCovered DEF DeactivateNostro
  <1>. QED
    BY <1>3, <1>4, <1>5, <1>6 DEF NostroHandlers

\* A transfer asks the account it debits; a negative sum drains the other.
LEMMA ShiftCovered ==
    ASSUME TypeInv, RowsTyped', NEW w \in Workers, Shift(w)
    PROVE  Covered'
  <1>. DEFINE t == job[w].on
              n == TransferSum[t]
  <1>1. t \in Transfers /\ n \in Int /\ To[t] \in Accounts
    BY TransferParameters DEF TypeInv, JobsOK, Shift, TransferSteps
  <1>2. /\ nostro \in [Accounts -> NostroRow]
        /\ \A a \in Accounts : nostro[a].balance \in Int
        /\ shifted \in [Transfers -> Nat] /\ \A x \in Transfers : shifted[x] \in Nat
        /\ overlapped' = overlapped
    BY DEF TypeInv, TypeOK, BooksTypeOK, TransfersTypeOK, NostroRow, Shift
  <1>3. CASE UNCHANGED <<nostro, shifted>>
    BY <1>2, <1>3, StaysCovered
  <1>4. CASE Covers(From[t], n) /\ ShiftBalances(t) /\ shifted' = [shifted EXCEPT ![t] = @ + 1]
    <2>1. /\ \A x \in Transfers : shifted[x] <= shifted'[x]
          /\ shifted'[t] > 0
      BY <1>1, <1>2, <1>4
    <2>2. \A a \in Accounts : nostro'[a].balance = nostro[a].balance
                                                   - (IF From[t] = a THEN n ELSE 0)
                                                   + (IF To[t] = a THEN n ELSE 0)
      BY <1>1, <1>2, <1>4, BalancesShift
    <2>3. nostro[From[t]].balance >= n
      BY <1>4 DEF Covers
    <2>4. n < 0 => To[t] \in Drained'
      BY <1>1, <2>1 DEF Drained
    <2>. HIDE DEF t, n
    <2>5. ASSUME NEW a \in Accounts
          PROVE  \/ nostro'[a].balance >= nostro[a].balance
                 \/ nostro'[a].balance >= 0
                 \/ a \in overlapped' \cup Drained'
      <3>1. CASE From[t] = a /\ To[t] = a
        BY <1>1, <1>2, <2>2, <3>1
      <3>2. CASE From[t] = a /\ To[t] # a
        BY <1>1, <1>2, <2>2, <2>3, <3>2
      <3>3. CASE From[t] # a /\ To[t] = a
        BY <1>1, <1>2, <2>2, <2>4, <3>3
      <3>4. CASE From[t] # a /\ To[t] # a
        BY <1>2, <2>2, <3>4
      <3>. QED
        BY <3>1, <3>2, <3>3, <3>4
    <2>. QED
      BY <1>2, <2>1, <2>5, StaysCovered
  <1>. QED
    BY <1>3, <1>4 DEF Shift

\* An entry adds to the master account, or asks it.
LEMMA PostCovered ==
    ASSUME TypeInv, RowsTyped', UNCHANGED <<overlapped, shifted>>,
           NEW v \in Vas, NEW n \in Int, PostVa(v, n), n >= 0 \/ Covers(Master[v], 0 - n)
    PROVE  Covered'
  <1>1. /\ \A a \in Accounts : nostro[a].balance \in Int
        /\ \A t \in Transfers : shifted[t] \in Nat
    BY DEF TypeInv, TypeOK, BooksTypeOK, TransfersTypeOK, NostroRow
  <1>2. \A a \in Accounts : nostro'[a].balance = nostro[a].balance
                                                 + (IF Master[v] = a THEN n ELSE 0)
    BY VaPosted
  <1>3. \A t \in Transfers : shifted[t] <= shifted'[t]
    BY <1>1
  <1>4. ASSUME NEW a \in Accounts
        PROVE  nostro'[a].balance >= nostro[a].balance \/ nostro'[a].balance >= 0
    BY <1>1, <1>2 DEF Covers
  <1>. QED
    BY <1>3, <1>4, StaysCovered

LEMMA StepCovered ==
    ASSUME TypeInv, RowsTyped', [Next]_vars
    PROVE  Covered'
  <1>0. \A t \in Transfers : shifted[t] \in Nat
    BY DEF TypeInv, TypeOK, TransfersTypeOK
  <1>1. ASSUME UNCHANGED <<overlapped, shifted>>,
               \A a \in Accounts : nostro'[a].balance = nostro[a].balance
        PROVE  Covered'
    <2>1. \A a \in Accounts : nostro[a].balance \in Int
      BY DEF TypeInv, TypeOK, BooksTypeOK, NostroRow
    <2>. QED
      BY <1>0, <1>1, <2>1, StaysCovered
  <1>2. CASE NostroHandlers /\ UNCHANGED <<transferVars, depositVars, disbVars>>
    BY <1>2, NostroCovered
  <1>3. CASE VaHandlers /\ UNCHANGED <<transferVars, depositVars, disbVars>>
    <2>1. /\ nostro' = nostro /\ shifted' = shifted
          /\ overlapped \subseteq overlapped'
      BY <1>3 DEF VaHandlers, ReadVa, ReadDeactivateVa, SaveVa, DeactivateVa, SetVaStatus,
                  Overwrites, transferVars
    <2>2. \A a \in Accounts : nostro[a].balance \in Int
      BY DEF TypeInv, TypeOK, BooksTypeOK, NostroRow
    <2>. QED
      BY <1>0, <2>1, <2>2, StaysCovered
  <1>4. CASE TransferHandlers /\ UNCHANGED <<depositVars, disbVars>>
    <2>1. ASSUME NEW w \in Workers, NEW t \in Transfers, ReadTransfer(w, t) PROVE Covered'
      BY <1>1, <2>1 DEF ReadTransfer, transferVars
    <2>2. ASSUME NEW w \in Workers, CallTransfer(w) PROVE Covered'
      BY <1>1, <2>2 DEF CallTransfer
    <2>. QED
      BY <1>4, <2>1, <2>2, ShiftCovered DEF TransferHandlers
  <1>5. CASE DepositHandlers /\ UNCHANGED <<transferVars, disbVars>>
    <2>1. ASSUME NEW w \in Workers, NEW d \in Deposits, StartApproval(w, d) PROVE Covered'
      BY <1>1, <1>5, <2>1 DEF StartApproval, transferVars
    <2>2. ASSUME NEW d \in Deposits, ApproveUncredited(d) \/ RejectDeposit(d) PROVE Covered'
      BY <1>1, <1>5, <2>2 DEF ApproveUncredited, RejectDeposit, bookVars, transferVars
    <2>3. ASSUME NEW w \in Workers, FinishApproval(w) PROVE Covered'
      <3>. DEFINE d == job[w].on
      <3>1. d \in Deposits /\ UNCHANGED <<overlapped, shifted>>
        BY <1>5, <2>3 DEF TypeInv, JobsOK, FinishApproval, DepositSteps, transferVars
      <3>2. DepositVa[d] \in Vas /\ DepositSum[d] \in Nat
        BY <3>1, DepositParameters
      <3>3. CASE UNCHANGED nostro
        BY <1>1, <3>1, <3>3
      <3>4. CASE PostVa(DepositVa[d], DepositSum[d])
        BY <3>1, <3>2, <3>4, PostCovered
      <3>. QED
        BY <2>3, <3>3, <3>4 DEF FinishApproval, Credit
    <2>. QED
      BY <1>5, <2>1, <2>2, <2>3 DEF DepositHandlers
  <1>6. CASE DisbursementHandlers /\ UNCHANGED <<transferVars, depositVars>>
    <2>1. UNCHANGED shifted
      BY <1>6 DEF transferVars
    <2>2. ASSUME NEW w \in Workers, Debit(w) PROVE Covered'
      <3>. DEFINE n == PayoutSum[job[w].on]
      <3>1. job[w].on \in Disbursements
        BY <2>2 DEF TypeInv, JobsOK, Debit, DisbSteps
      <3>2. n \in Nat /\ 0 - n \in Int /\ 0 - (0 - n) = n /\ AgentAccount \in Vas
        BY <3>1, DisbursementParameters
      <3>3. /\ PostVa(AgentAccount, 0 - n) /\ UNCHANGED overlapped
            /\ Covers(Master[AgentAccount], n)
        BY <2>2 DEF Debit, VaCovers
      <3>. QED
        BY <2>1, <3>2, <3>3, PostCovered
    <2>3. ASSUME NEW w \in Workers,
                 \/ \E b \in Disbursements : ReadDisbursement(w, b)
                 \/ \E p \in Principals : AuthoriseFirst(w, p) \/ AuthoriseSecond(w, p)
                 \/ CheckBalance(w) \/ CallBank(w) \/ Book(w) \/ RollBack(w)
          PROVE  Covered'
      BY <1>1, <2>1, <2>3 DEF ReadDisbursement, AuthoriseFirst, AuthoriseSecond, CheckBalance,
                              CallBank, Book, RollBack
    <2>4. ASSUME NEW b \in Disbursements, RejectDisbursement(b) PROVE Covered'
      BY <1>1, <2>1, <2>4 DEF RejectDisbursement, bookVars
    <2>. QED
      BY <1>6, <2>2, <2>3, <2>4 DEF DisbursementHandlers
  <1>7. CASE CrashOutside
    BY <1>1, <1>7 DEF CrashOutside, Crash, transferVars
  <1>8. CASE UNCHANGED vars
    BY <1>1, <1>8 DEF vars, bookVars, transferVars
  <1>. QED
    BY <1>2, <1>3, <1>4, <1>5, <1>6, <1>7, <1>8 DEF Next, CrashOutside

LEMMA StepTyped == TypeInv /\ [Next]_vars => TypeInv'
  <1>. SUFFICES ASSUME TypeInv, [Next]_vars PROVE TypeInv'
    OBVIOUS
  <1>1. RowsTyped' /\ JobsOK'
    BY StepRows
  <1>2. Covered'
    BY <1>1, StepCovered
  <1>. QED
    BY <1>1, <1>2 DEF RowsTyped, Covered, TypeInv, TypeOK

\* The tables of the treasury are well typed, and no balance is below zero, save
\* one that was overwritten or that a transfer of a negative sum drained,
\* whatever update_balance and post_va_entry are asked by handlers that overlap.
THEOREM TreasuryTyped == Spec => []TypeOK
  <1>1. TypeInv => TypeOK
    BY DEF TypeInv
  <1>. QED
    BY <1>1, InitTyped, StepTyped, PTL DEF Spec

-----------------------------------------------------------------------------
\* Steps of other families leave the rows of a family, and the jobs in its
\* transactions, alone.
LEMMA OthersFrame ==
    ASSUME TypeInv, [Next]_vars
    PROVE  /\ TransferHandlers
              \/ /\ UNCHANGED transferVars
                 /\ \A u \in Workers : job'[u].at \in TransferSteps => job'[u] = job[u]
           /\ DepositHandlers
              \/ /\ UNCHANGED depositVars
                 /\ \A u \in Workers : job'[u].at \in DepositSteps => job'[u] = job[u]
           /\ DisbursementHandlers
              \/ /\ UNCHANGED disbVars
                 /\ \A u \in Workers :
                       job'[u].at \in DisbSteps \/ job[u].at \in {"book", "debit"}
                           => job'[u] = job[u]
  <1>. DEFINE TransferFrame ==
                 /\ UNCHANGED transferVars
                 /\ \A u \in Workers : job'[u].at \in TransferSteps => job'[u] = job[u]
              DepositFrame ==
                 /\ UNCHANGED depositVars
                 /\ \A u \in Workers : job'[u].at \in DepositSteps => job'[u] = job[u]
              DisbFrame ==
                 /\ UNCHANGED disbVars
                 /\ \A u \in Workers :
                       job'[u].at \in DisbSteps \/ job[u].at \in {"book", "debit"}
                           => job'[u] = job[u]
  <1>. USE DEF BookSteps, TransferSteps, DepositSteps, DisbSteps
  <1>1. CASE (NostroHandlers \/ VaHandlers) /\ UNCHANGED <<transferVars, depositVars, disbVars>>
    <2>1. Moves(BookSteps)
      BY <1>1, NostroKept, VaKept DEF Keeps
    <2>2. TransferFrame /\ DepositFrame /\ DisbFrame
      BY <1>1, <2>1 DEF Moves
    <2>. QED
      BY <2>2
  <1>2. CASE TransferHandlers /\ UNCHANGED <<depositVars, disbVars>>
    <2>1. Moves({"idle"} \cup TransferSteps)
      BY <1>2, TransfersKept DEF Keeps
    <2>2. DepositFrame /\ DisbFrame
      BY <1>2, <2>1 DEF Moves
    <2>. QED
      BY <1>2, <2>2
  <1>3. CASE DepositHandlers /\ UNCHANGED <<transferVars, disbVars>>
    <2>1. Moves({"idle"} \cup DepositSteps)
      BY <1>3, DepositsKept DEF Keeps
    <2>2. TransferFrame /\ DisbFrame
      BY <1>3, <2>1 DEF Moves
    <2>. QED
      BY <1>3, <2>2
  <1>4. CASE DisbursementHandlers /\ UNCHANGED <<transferVars, depositVars>>
    <2>1. Moves({"idle"} \cup DisbSteps)
      BY <1>4, DisbursementsKept DEF Keeps
    <2>2. TransferFrame /\ DepositFrame
      BY <1>4, <2>1 DEF Moves
    <2>. QED
      BY <1>4, <2>2
  <1>5. CASE CrashOutside
    <2>1. TransferFrame /\ DepositFrame /\ DisbFrame
      BY <1>5, CrashKept DEF CrashOutside
    <2>. QED
      BY <2>1
  <1>6. CASE UNCHANGED vars
    <2>1. TransferFrame /\ DepositFrame /\ DisbFrame
      BY <1>6 DEF vars, bookVars
    <2>. QED
      BY <2>1
  <1>. QED
    BY <1>1, <1>2, <1>3, <1>4, <1>5, <1>6 DEF Next, CrashOutside

-----------------------------------------------------------------------------
\* Whoever is about to change the balances holds the row, and the bank has made
\* a transfer for which they were not changed yet.
Shifting(w) == job[w].at = "shift"

TransferInv ==
    /\ TypeInv
    /\ TransferBacked
    /\ \A w \in Workers : Shifting(w) => shifted[job[w].on] < moved[job[w].on]
    /\ \A u, w \in Workers : Shifting(u) /\ Shifting(w) /\ job[u].on = job[w].on => u = w

LEMMA InitTransfers == Init => TransferInv
  <1>. SUFFICES ASSUME Init PROVE TransferInv
    OBVIOUS
  <1>1. TransferBacked
    BY DEF Init, TransfersInit, TransferBacked
  <1>2. \A w \in Workers : ~ Shifting(w)
    BY DEF Init, BooksInit, Idle, Shifting
  <1>. QED
    BY <1>1, <1>2, InitTyped DEF TransferInv

LEMMA TransferStep == TransferInv /\ [Next]_vars => TransferInv'
  <1>. SUFFICES ASSUME TransferInv, [Next]_vars PROVE TransferInv'
    OBVIOUS
  <1>0. TypeInv /\ TypeInv'
    BY StepTyped DEF TransferInv
  <1>t. /\ transfer \in [Transfers -> TransferStatuses]
        /\ moved \in [Transfers -> Nat] /\ shifted \in [Transfers -> Nat]
    BY <1>0 DEF TypeInv, TypeOK, TransfersTypeOK
  <1>. DEFINE Ahead == \A w \in Workers : Shifting(w) => shifted[job[w].on] < moved[job[w].on]
              Alone == \A u, w \in Workers :
                          Shifting(u) /\ Shifting(w) /\ job[u].on = job[w].on => u = w
  <1>1. CASE /\ UNCHANGED transferVars
             /\ \A u \in Workers : job'[u].at \in TransferSteps => job'[u] = job[u]
    <2>1. \A u \in Workers : Shifting(u)' => job'[u] = job[u] /\ Shifting(u)
      BY <1>1 DEF Shifting, TransferSteps
    <2>2. Ahead' /\ Alone'
      BY <1>1, <2>1 DEF TransferInv, transferVars
    <2>3. TransferBacked'
      BY <1>1 DEF TransferInv, TransferBacked, transferVars
    <2>. QED
      BY <1>0, <2>2, <2>3 DEF TransferInv
  <1>2. ASSUME NEW w \in Workers, NEW t \in Transfers, ReadTransfer(w, t)
        PROVE  TransferInv'
    <2>1. Enter(w, "transfer", t, 0) /\ "transfer" \in Steps /\ t \in Subjects
      BY <1>2, RowsDisjoint DEF ReadTransfer, Begin, Steps, TransferSteps
    <2>2. /\ job'[w].at = "transfer" /\ \A u \in Workers : u # w => job'[u] = job[u]
      BY <1>0, <2>1, Entering
    <2>3. \A u \in Workers : Shifting(u)' => job'[u] = job[u] /\ Shifting(u)
      BY <2>2 DEF Shifting
    <2>4. Ahead' /\ Alone'
      BY <1>2, <2>3 DEF TransferInv, ReadTransfer, transferVars
    <2>5. TransferBacked'
      BY <1>2 DEF TransferInv, TransferBacked, ReadTransfer, transferVars
    <2>. QED
      BY <1>0, <2>4, <2>5 DEF TransferInv
  <1>3. ASSUME NEW w \in Workers, CallTransfer(w) PROVE TransferInv'
    <2>. DEFINE t == job[w].on
    <2>1. t \in Transfers /\ "shift" \in Steps /\ job[w].at = "transfer"
      BY <1>0, <1>3 DEF TypeInv, JobsOK, CallTransfer, TransferSteps, Steps
    <2>2. \A u \in Workers : Shifting(u) => job[u].on # t
      BY <1>3 DEF CallTransfer, Locked, Shifting
    <2>3. CASE moved' = [moved EXCEPT ![t] = @ + 1] /\ Go(w, "shift")
      <3>1. /\ job'[w].at = "shift" /\ job'[w].on = t
            /\ \A u \in Workers : u # w => job'[u] = job[u]
        BY <1>0, <2>1, <2>3, Going
      <3>2. UNCHANGED <<shifted, transfer>> /\ moved'[t] = moved[t] + 1 /\ shifted[t] <= moved[t]
        BY <1>3, <1>t, <2>1, <2>3 DEF CallTransfer, TransferInv, TransferBacked
      <3>3. ASSUME NEW u \in Workers, Shifting(u)' PROVE shifted'[job'[u].on] < moved'[job'[u].on]
        <4>1. CASE u = w
          BY <1>t, <2>1, <3>1, <3>2, <4>1
        <4>2. CASE u # w
          <5>1. job'[u] = job[u] /\ Shifting(u) /\ job[u].on # t /\ job[u].on \in Transfers
            BY <1>0, <2>2, <3>1, <3>3, <4>2 DEF Shifting, TypeInv, JobsOK, TransferSteps
          <5>2. moved'[job[u].on] = moved[job[u].on]
            BY <1>t, <2>3, <5>1
          <5>. QED
            BY <3>2, <5>1, <5>2 DEF TransferInv
        <4>. QED
          BY <4>1, <4>2
      <3>4. Alone'
        BY <2>2, <3>1 DEF TransferInv, Shifting
      <3>5. \A x \in Transfers : moved[x] <= moved'[x]
        BY <1>t, <2>1, <2>3
      <3>6. TransferBacked'
        BY <1>0, <1>t, <3>2, <3>5 DEF TransferInv, TransferBacked, TypeInv, TypeOK, TransfersTypeOK
      <3>. QED
        BY <1>0, <3>3, <3>4, <3>6 DEF TransferInv
    <2>4. CASE Return(w) /\ UNCHANGED moved
      <3>1. job'[w].at = "idle" /\ \A u \in Workers : u # w => job'[u] = job[u]
        BY <1>0, <2>4, Returning
      <3>2. \A u \in Workers : Shifting(u)' => job'[u] = job[u] /\ Shifting(u)
        BY <3>1 DEF Shifting
      <3>3. Ahead' /\ Alone'
        BY <1>3, <2>4, <3>2 DEF TransferInv, CallTransfer
      <3>4. TransferBacked'
        BY <1>3, <2>4 DEF TransferInv, TransferBacked, CallTransfer
      <3>. QED
        BY <1>0, <3>3, <3>4 DEF TransferInv
    <2>. QED
      BY <1>3, <2>3, <2>4 DEF CallTransfer
  <1>4. ASSUME NEW w \in Workers, Shift(w) PROVE TransferInv'
    <2>. DEFINE t == job[w].on
    <2>1. t \in Transfers /\ Shifting(w) /\ shifted[t] < moved[t]
      BY <1>0, <1>4 DEF TypeInv, JobsOK, Shift, TransferSteps, Shifting, TransferInv
    <2>2. job'[w].at = "idle" /\ \A u \in Workers : u # w => job'[u] = job[u]
      BY <1>0, <1>4, Returning DEF Shift
    <2>3. \A u \in Workers : Shifting(u)' => job'[u] = job[u] /\ Shifting(u) /\ job[u].on # t
      BY <2>1, <2>2 DEF Shifting, TransferInv
    <2>4. moved' = moved
      BY <1>4 DEF Shift
    <2>5. \/ UNCHANGED <<shifted, transfer>>
          \/ /\ shifted' = [shifted EXCEPT ![t] = @ + 1]
             /\ transfer' = [transfer EXCEPT ![t] = "SUCCESS"]
      BY <1>4 DEF Shift
    <2>6. \A x \in Transfers : x # t => shifted'[x] = shifted[x] /\ transfer'[x] = transfer[x]
      BY <1>t, <2>5
    <2>7. \A u \in Workers : Shifting(u)' => job[u].on \in Transfers
      BY <1>0, <2>3 DEF TypeInv, JobsOK, TransferSteps, Shifting
    <2>8. Ahead' /\ Alone'
      BY <2>3, <2>4, <2>6, <2>7 DEF TransferInv
    <2>9. TransferBacked'
      <3>1. ASSUME NEW x \in Transfers
            PROVE  shifted'[x] <= moved'[x] /\ (transfer'[x] = "SUCCESS" <=> shifted'[x] > 0)
        <4>1. CASE x # t
          BY <2>4, <2>6, <4>1 DEF TransferInv, TransferBacked
        <4>2. CASE x = t
          <5>1. CASE UNCHANGED <<shifted, transfer>>
            BY <2>4, <5>1 DEF TransferInv, TransferBacked
          <5>2. CASE /\ shifted' = [shifted EXCEPT ![t] = @ + 1]
                     /\ transfer' = [transfer EXCEPT ![t] = "SUCCESS"]
            BY <1>t, <2>1, <2>4, <4>2, <5>2
          <5>. QED
            BY <2>5, <5>1, <5>2
        <4>. QED
          BY <4>1, <4>2
      <3>. QED
        BY <3>1 DEF TransferBacked
    <2>. QED
      BY <1>0, <2>8, <2>9 DEF TransferInv
  <1>. QED
    BY <1>0, <1>1, <1>2, <1>3, <1>4, OthersFrame DEF TransferHandlers

\* However many executions of a transfer overlap, fail or die, its balances are
\* changed no more often than the bank moved the money, and SUCCESS says that
\* they were.
THEOREM TransfersBacked == Spec => []TransferBacked
  <1>1. TransferInv => TransferBacked
    BY DEF TransferInv
  <1>. QED
    BY <1>1, InitTransfers, TransferStep, PTL DEF Spec

-----------------------------------------------------------------------------
\* An approval under way holds a request that is PENDING and has no entry.
Crediting(w) == job[w].at = "credit"

DepositInv ==
    /\ TypeInv
    /\ DepositCreditedOnce
    /\ \A w \in Workers : Crediting(w) =>
          job[w].seen = 0 /\ credits[job[w].on] = 0 /\ deposit[job[w].on] = "PENDING"
    /\ \A u, w \in Workers : Crediting(u) /\ Crediting(w) /\ job[u].on = job[w].on => u = w

LEMMA InitDeposits == Init => DepositInv
  <1>. SUFFICES ASSUME Init PROVE DepositInv
    OBVIOUS
  <1>1. DepositCreditedOnce
    BY DEF Init, DepositsInit, DepositCreditedOnce
  <1>2. \A w \in Workers : ~ Crediting(w)
    BY DEF Init, BooksInit, Idle, Crediting
  <1>. QED
    BY <1>1, <1>2, InitTyped DEF DepositInv

LEMMA DepositStep == DepositInv /\ [Next]_vars => DepositInv'
  <1>. SUFFICES ASSUME DepositInv, [Next]_vars PROVE DepositInv'
    OBVIOUS
  <1>0. TypeInv /\ TypeInv'
    BY StepTyped DEF DepositInv
  <1>t. deposit \in [Deposits -> DepositStatuses] /\ credits \in [Deposits -> Nat]
    BY <1>0 DEF TypeInv, TypeOK, DepositsTypeOK
  <1>. DEFINE Fresh == \A w \in Workers : Crediting(w) =>
                          job[w].seen = 0 /\ credits[job[w].on] = 0
                          /\ deposit[job[w].on] = "PENDING"
              Alone == \A u, w \in Workers :
                          Crediting(u) /\ Crediting(w) /\ job[u].on = job[w].on => u = w
  <1>1. CASE /\ UNCHANGED depositVars
             /\ \A u \in Workers : job'[u].at \in DepositSteps => job'[u] = job[u]
    <2>1. \A u \in Workers : Crediting(u)' => job'[u] = job[u] /\ Crediting(u)
      BY <1>1 DEF Crediting, DepositSteps
    <2>2. Fresh' /\ Alone'
      BY <1>1, <2>1 DEF DepositInv, depositVars
    <2>3. DepositCreditedOnce'
      BY <1>1 DEF DepositInv, DepositCreditedOnce, depositVars
    <2>. QED
      BY <1>0, <2>2, <2>3 DEF DepositInv
  <1>2. ASSUME NEW w \in Workers, NEW d \in Deposits, StartApproval(w, d)
        PROVE  DepositInv'
    <2>1. /\ Enter(w, "credit", d, credits[d]) /\ "credit" \in Steps /\ d \in Subjects
          /\ credits[d] \in Nat
      BY <1>2, <1>t, RowsDisjoint DEF StartApproval, Steps, DepositSteps
    <2>2. /\ job'[w].at = "credit" /\ job'[w].on = d /\ job'[w].seen = credits[d]
          /\ \A u \in Workers : u # w => job'[u] = job[u]
      BY <1>0, <2>1, Entering
    <2>3. deposit[d] = "PENDING" /\ credits[d] = 0 /\ UNCHANGED depositVars
      BY <1>2, <1>t DEF StartApproval, DepositInv, DepositCreditedOnce
    <2>4. \A u \in Workers : Crediting(u) => job[u].on # d
      BY <1>2 DEF StartApproval, ReviewLocked, Locked, Crediting
    <2>5. Fresh' /\ Alone'
      BY <2>2, <2>3, <2>4 DEF DepositInv, Crediting, depositVars
    <2>6. DepositCreditedOnce'
      BY <2>3 DEF DepositInv, DepositCreditedOnce, depositVars
    <2>. QED
      BY <1>0, <2>5, <2>6 DEF DepositInv
  <1>3. ASSUME NEW d \in Deposits, ApproveUncredited(d) \/ RejectDeposit(d)
        PROVE  DepositInv'
    <2>1. /\ job' = job /\ credits' = credits /\ credits[d] = 0
          /\ \A x \in Deposits : x # d => deposit'[x] = deposit[x]
          /\ deposit'[d] = "REJECTED" \/ (deposit'[d] = "APPROVED" /\ d \in AgentDeposits)
      BY <1>3, <1>t DEF ApproveUncredited, RejectDeposit, bookVars, DepositInv, DepositCreditedOnce
    <2>2. \A u \in Workers : Crediting(u) => job[u].on # d /\ job[u].on \in Deposits
      BY <1>0, <1>3
         DEF ApproveUncredited, RejectDeposit, ReviewLocked, Locked, Crediting, TypeInv, JobsOK,
             DepositSteps
    <2>3. Fresh' /\ Alone'
      BY <2>1, <2>2 DEF DepositInv, Crediting
    <2>4. DepositCreditedOnce'
      BY <2>1 DEF DepositInv, DepositCreditedOnce
    <2>. QED
      BY <1>0, <2>3, <2>4 DEF DepositInv
  <1>4. ASSUME NEW w \in Workers, FinishApproval(w) PROVE DepositInv'
    <2>. DEFINE d == job[w].on
    <2>1. d \in Deposits /\ Crediting(w) /\ credits[d] = 0 /\ job[w].seen = 0
      BY <1>0, <1>4 DEF FinishApproval, DepositInv, Crediting, TypeInv, JobsOK, DepositSteps
    <2>2. job'[w].at = "idle" /\ \A u \in Workers : u # w => job'[u] = job[u]
      BY <1>0, <1>4, Returning DEF FinishApproval
    <2>3. credits' = [credits EXCEPT ![d] = @ + 1]
      BY <1>4, <2>1 DEF FinishApproval, Credit
    <2>4. credits'[d] = 1 /\ deposit'[d] = "APPROVED"
      BY <1>4, <1>t, <2>1, <2>3 DEF FinishApproval
    <2>5. \A x \in Deposits : x # d => credits'[x] = credits[x] /\ deposit'[x] = deposit[x]
      BY <1>4, <1>t, <2>3 DEF FinishApproval
    <2>6. \A u \in Workers : Crediting(u)' =>
              job'[u] = job[u] /\ Crediting(u) /\ job[u].on # d /\ job[u].on \in Deposits
      BY <1>0, <2>1, <2>2 DEF Crediting, DepositInv, TypeInv, JobsOK, DepositSteps
    <2>7. Fresh' /\ Alone'
      BY <2>5, <2>6 DEF DepositInv
    <2>8. DepositCreditedOnce'
      BY <2>4, <2>5 DEF DepositInv, DepositCreditedOnce
    <2>. QED
      BY <1>0, <2>7, <2>8 DEF DepositInv
  <1>. QED
    BY <1>0, <1>1, <1>2, <1>3, <1>4, OthersFrame DEF DepositHandlers

\* A deposit is credited when it is approved and only then, and once, though
\* the account is looked up and the entry looked for before anything is locked
\* but the request.
THEOREM DepositsCreditedOnce == Spec => []DepositCreditedOnce
  <1>1. DepositInv => DepositCreditedOnce
    BY DEF DepositInv
  <1>. QED
    BY <1>1, InitDeposits, DepositStep, PTL DEF Spec

-----------------------------------------------------------------------------
\* Authorisations are never taken back, and the earliest is one of the first.
Authorised(rows, b) == \E p \in rows[b].first, q \in rows[b].second : p # q

EarliestIsFirst ==
    \A b \in Disbursements :
        approvals[b].earliest # "none" => approvals[b].earliest \in approvals[b].first

Spending == {"execute", "pay", "book", "debit"}

AuthInv ==
    /\ TypeInv
    /\ EarliestIsFirst
    /\ \A b \in Disbursements :
          /\ disb[b] = "PENDING_SECOND_APPROVAL" => approvals[b].earliest # "none"
          /\ disb[b] \in {"APPROVED", "SUCCESS"} \/ paid[b] > 0 => Authorised(approvals, b)
    /\ \A w \in Workers :
          /\ job[w].at = "second" => approvals[job[w].on].earliest # "none"
          /\ job[w].at \in Spending => Authorised(approvals, job[w].on)

LEMMA ApprovalsGrow ==
    ASSUME TypeInv, EarliestIsFirst, DisbursementHandlers
    PROVE  /\ EarliestIsFirst'
           /\ \A b \in Disbursements :
                 /\ approvals[b].earliest # "none" => approvals'[b].earliest # "none"
                 /\ Authorised(approvals, b) => Authorised(approvals', b)
  <1>. DEFINE Grown(b) == /\ approvals[b].first \subseteq approvals'[b].first
                          /\ approvals[b].second \subseteq approvals'[b].second
                          /\ approvals[b].earliest # "none" => approvals'[b].earliest # "none"
                          /\ approvals'[b].earliest # "none"
                                => approvals'[b].earliest \in approvals'[b].first
  <1>1. CASE approvals' = approvals
    BY <1>1 DEF EarliestIsFirst, Grown
  <1>2. ASSUME NEW w \in Workers, NEW p \in Principals, AuthoriseFirst(w, p),
               NEW b \in Disbursements
        PROVE  Grown(b)
    <2>. DEFINE c == job[w].on
    <2>1. c \in Disbursements
      BY <1>2, DisbMoves DEF DisbMove
    <2>2. /\ \A x \in Disbursements : x # c => approvals'[x] = approvals[x]
          /\ approvals'[c].first = approvals[c].first \cup {p}
          /\ approvals'[c].earliest \in {p, approvals[c].earliest} \ {"none"}
          /\ approvals'[c].second = approvals[c].second
      BY <1>2, <2>1, FirstAuthorised
    <2>3. CASE b = c
      BY <2>1, <2>2, <2>3 DEF EarliestIsFirst
    <2>4. CASE b # c
      BY <2>2, <2>4 DEF EarliestIsFirst
    <2>. QED
      BY <2>3, <2>4
  <1>3. ASSUME NEW w \in Workers, NEW p \in Principals, AuthoriseSecond(w, p),
               NEW b \in Disbursements
        PROVE  Grown(b)
    <2>. DEFINE c == job[w].on
    <2>1. c \in Disbursements
      BY <1>3, DisbMoves DEF DisbMove
    <2>2. /\ \A x \in Disbursements : x # c => approvals'[x] = approvals[x]
          /\ approvals'[c].first = approvals[c].first
          /\ approvals'[c].earliest = approvals[c].earliest
          /\ approvals'[c].second = approvals[c].second \cup {p}
      BY <1>3, <2>1, SecondAuthorised
    <2>3. CASE b = c
      BY <2>1, <2>2, <2>3 DEF EarliestIsFirst
    <2>4. CASE b # c
      BY <2>2, <2>4 DEF EarliestIsFirst
    <2>. QED
      BY <2>3, <2>4
  <1>4. ASSUME NEW c \in Disbursements, RejectDisbursement(c), NEW b \in Disbursements
        PROVE  Grown(b)
    <2>1. /\ \A x \in Disbursements : x # c => approvals'[x] = approvals[x]
          /\ approvals'[c].first = approvals[c].first
          /\ approvals'[c].earliest = approvals[c].earliest
          /\ approvals'[c].second = approvals[c].second
      BY <1>4, Rejected
    <2>. QED
      BY <2>1 DEF EarliestIsFirst
  <1>5. \A b \in Disbursements : Grown(b)
    <2>1. CASE approvals' = approvals
      BY <2>1 DEF EarliestIsFirst
    <2>2. CASE approvals' # approvals
      BY <1>2, <1>3, <1>4, <2>2
         DEF DisbursementHandlers, ReadDisbursement, CheckBalance, CallBank, Book, Debit,
             RollBack, disbVars
    <2>. QED
      BY <2>1, <2>2
  <1>6. \A b \in Disbursements : Authorised(approvals, b) => Authorised(approvals', b)
    BY <1>5 DEF Authorised
  <1>. QED
    BY <1>5, <1>6 DEF EarliestIsFirst

LEMMA InitAuthorised == Init => AuthInv
  <1>. SUFFICES ASSUME Init PROVE AuthInv
    OBVIOUS
  <1>1. EarliestIsFirst
    BY DEF Init, DisbursementsInit, NoApprovals, EarliestIsFirst
  <1>2. \A b \in Disbursements : disb[b] = "PENDING_FIRST_APPROVAL" /\ paid[b] = 0
    BY DEF Init, DisbursementsInit
  <1>3. \A w \in Workers : job[w].at = "idle"
    BY DEF Init, BooksInit, Idle
  <1>. QED
    BY <1>1, <1>2, <1>3, InitTyped DEF AuthInv, Spending

LEMMA AuthStep == AuthInv /\ [Next]_vars => AuthInv'
  <1>. SUFFICES ASSUME AuthInv, [Next]_vars PROVE AuthInv'
    OBVIOUS
  <1>0. TypeInv /\ TypeInv'
    BY StepTyped DEF AuthInv
  <1>t. disb \in [Disbursements -> DisbStatuses] /\ paid \in [Disbursements -> Nat]
    BY <1>0 DEF TypeInv, TypeOK, DisbursementsTypeOK
  <1>1. CASE /\ UNCHANGED disbVars
             /\ \A u \in Workers : job'[u].at \in DisbSteps => job'[u] = job[u]
    <2>1. \A u \in Workers : job'[u].at \in Spending \cup {"second"} => job'[u] = job[u]
      BY <1>1 DEF DisbSteps, Spending
    <2>2. \A b : Authorised(approvals, b) => Authorised(approvals', b)
      BY <1>1 DEF Authorised, disbVars
    <2>3. EarliestIsFirst'
      BY <1>1 DEF AuthInv, EarliestIsFirst, disbVars
    <2>. QED
      BY <1>0, <1>1, <2>1, <2>2, <2>3 DEF AuthInv, disbVars
  <1>2. CASE DisbursementHandlers
    <2>0. /\ EarliestIsFirst'
          /\ \A b \in Disbursements :
                /\ approvals[b].earliest # "none" => approvals'[b].earliest # "none"
                /\ Authorised(approvals, b) => Authorised(approvals', b)
      BY <1>0, <1>2, ApprovalsGrow DEF AuthInv
    <2>. DEFINE RowOK(b) ==
                   /\ disb'[b] = "PENDING_SECOND_APPROVAL" => approvals'[b].earliest # "none"
                   /\ disb'[b] \in {"APPROVED", "SUCCESS"} \/ paid'[b] > 0 => Authorised(approvals', b)
                JobOK(u) ==
                   /\ job'[u].at = "second" => approvals'[job'[u].on].earliest # "none"
                   /\ job'[u].at \in Spending => Authorised(approvals', job'[u].on)
    <2>a. ASSUME NEW b \in Disbursements, disb'[b] = disb[b], paid'[b] = paid[b]
          PROVE  RowOK(b)
      BY <2>0, <2>a DEF AuthInv
    <2>b. ASSUME NEW u \in Workers, job'[u] = job[u] PROVE JobOK(u)
      <3>1. job[u].at \in Spending \cup {"second"} => job[u].on \in Disbursements
        BY <1>0 DEF TypeInv, JobsOK, Spending, DisbSteps
      <3>. QED
        BY <2>0, <2>b, <3>1 DEF AuthInv
    <2>1. ASSUME NEW w \in Workers, NEW b \in Disbursements, ReadDisbursement(w, b)
          PROVE  AuthInv'
      <3>1. /\ job'[w].on = b
            /\ \A u \in Workers : u # w => job'[u] = job[u]
            /\ \/ disb[b] = "PENDING_FIRST_APPROVAL" /\ job'[w].at = "first"
               \/ disb[b] = "PENDING_SECOND_APPROVAL" /\ job'[w].at = "second"
               \/ disb[b] = "APPROVED" /\ job'[w].at = "execute"
        BY <1>0, <2>1, DisbReading
      <3>2. JobOK(w)
        BY <2>0, <3>1 DEF AuthInv, Spending
      <3>3. \A x \in Disbursements : RowOK(x)
        BY <2>1, <2>a DEF ReadDisbursement
      <3>. QED
        BY <1>0, <2>0, <2>b, <3>1, <3>2, <3>3 DEF AuthInv
    <2>2. ASSUME NEW w \in Workers, NEW p \in Principals, AuthoriseFirst(w, p)
          PROVE  AuthInv'
      <3>. DEFINE b == job[w].on
      <3>1. b \in Disbursements /\ job'[w].at = "idle" /\ \A u \in Workers : u # w => job'[u] = job[u]
        BY <1>0, <2>2, DisbMoves DEF DisbMove
      <3>2. approvals'[b].earliest # "none"
        BY <1>0, <2>2, <3>1, FirstAuthorised
      <3>3. RowOK(b)
        BY <1>t, <2>0, <2>2, <3>1, <3>2 DEF AuthInv, AuthoriseFirst
      <3>4. \A x \in Disbursements : x # b => RowOK(x)
        BY <1>t, <2>2, <2>a DEF AuthoriseFirst
      <3>5. JobOK(w)
        BY <3>1 DEF Spending
      <3>. QED
        BY <1>0, <2>0, <2>b, <3>1, <3>3, <3>4, <3>5 DEF AuthInv
    <2>3. ASSUME NEW w \in Workers, NEW p \in Principals, AuthoriseSecond(w, p)
          PROVE  AuthInv'
      <3>. DEFINE b == job[w].on
      <3>1. /\ b \in Disbursements /\ job[w].at = "second"
            /\ job'[w].at = "execute" /\ job'[w].on = b
            /\ \A u \in Workers : u # w => job'[u] = job[u]
        BY <1>0, <2>3, DisbMoves DEF DisbMove
      <3>2. approvals[b].earliest # "none" /\ approvals[b].earliest \in approvals[b].first
        BY <3>1 DEF AuthInv, EarliestIsFirst
      <3>3. p \in approvals'[b].second /\ approvals'[b].first = approvals[b].first
        BY <1>0, <2>3, <3>1, SecondAuthorised
      <3>o. approvals[b].earliest # p
        BY <2>3, Zenon DEF AuthoriseSecond, OtherPrincipal
      <3>4. Authorised(approvals', b)
        BY <3>2, <3>3, <3>o DEF Authorised
      <3>5. RowOK(b)
        BY <1>t, <2>3, <3>1, <3>4 DEF AuthoriseSecond
      <3>6. \A x \in Disbursements : x # b => RowOK(x)
        BY <1>t, <2>3, <2>a DEF AuthoriseSecond
      <3>7. JobOK(w)
        BY <3>1, <3>4
      <3>. QED
        BY <1>0, <2>0, <2>b, <3>1, <3>5, <3>6, <3>7 DEF AuthInv
    <2>4. ASSUME NEW b \in Disbursements, RejectDisbursement(b) PROVE AuthInv'
      <3>1. job' = job /\ paid' = paid /\ disb' = [disb EXCEPT ![b] = "REJECTED"]
        BY <2>4 DEF RejectDisbursement, bookVars
      <3>2. RowOK(b)
        BY <1>t, <2>0, <3>1 DEF AuthInv
      <3>3. \A x \in Disbursements : x # b => RowOK(x)
        BY <1>t, <2>a, <3>1
      <3>. QED
        BY <1>0, <2>0, <2>b, <3>1, <3>2, <3>3 DEF AuthInv
    <2>5. ASSUME NEW w \in Workers,
                 CheckBalance(w) \/ CallBank(w) \/ Book(w) \/ Debit(w) \/ RollBack(w)
          PROVE  AuthInv'
      <3>. DEFINE b == job[w].on
      <3>1. /\ b \in Disbursements /\ job[w].at \in Spending
            /\ job'[w].at \in Spending \cup {"idle"}
            /\ job'[w].at # "idle" => job'[w].on = b
            /\ \A u \in Workers : u # w => job'[u] = job[u]
        BY <1>0, <2>5, DisbMoves DEF DisbMove, Spending
      <3>2. Authorised(approvals', b)
        BY <2>0, <3>1 DEF AuthInv
      <3>3. disb'[b] \in {disb[b], "SUCCESS"}
            /\ \A x \in Disbursements : x # b => disb'[x] = disb[x] /\ paid'[x] = paid[x]
        BY <1>t, <2>5, <3>1 DEF CheckBalance, CallBank, Book, Debit, RollBack, disbVars
      <3>4. RowOK(b)
        BY <2>0, <3>1, <3>2, <3>3 DEF AuthInv
      <3>5. ASSUME NEW x \in Disbursements, x # b PROVE RowOK(x)
        <4>1. disb'[x] = disb[x] /\ paid'[x] = paid[x]
          BY <3>3, <3>5
        <4>. QED
          BY <2>a, <4>1
      <3>6. JobOK(w)
        BY <3>1, <3>2 DEF Spending
      <3>. QED
        BY <1>0, <2>0, <2>b, <3>1, <3>4, <3>5, <3>6 DEF AuthInv
    <2>. QED
      BY <1>2, <2>1, <2>2, <2>3, <2>4, <2>5 DEF DisbursementHandlers
  <1>. QED
    BY <1>0, <1>1, <1>2, OthersFrame

\* No disbursement is paid that two different principals have not authorised,
\* though the second is compared with the earliest first authorisation only and
\* each authorisation is saved over whatever the status has become.
THEOREM PaidByTwo == Spec => []TwoPrincipals
  <1>1. AuthInv => TwoPrincipals
    BY DEF AuthInv, TwoPrincipals, Authorised
  <1>. QED
    BY <1>1, InitAuthorised, AuthStep, PTL DEF Spec

-----------------------------------------------------------------------------
\* The payout's transaction holds the row alone, after the bank has paid.
Paying(w) == job[w].at \in {"book", "debit"}

DebitInv ==
    /\ TypeInv
    /\ DisbursementDebitedOnce
    /\ \A w \in Workers :
          /\ Paying(w) => paid[job[w].on] >= 1
          /\ job[w].at = "debit" => debits[job[w].on] = 0
    /\ \A u, w \in Workers : Paying(u) /\ Paying(w) /\ job[u].on = job[w].on => u = w

LEMMA InitDebits == Init => DebitInv
  <1>. SUFFICES ASSUME Init PROVE DebitInv
    OBVIOUS
  <1>1. DisbursementDebitedOnce
    BY DEF Init, DisbursementsInit, DisbursementDebitedOnce
  <1>2. \A w \in Workers : job[w].at = "idle"
    BY DEF Init, BooksInit, Idle
  <1>. QED
    BY <1>1, <1>2, InitTyped DEF DebitInv, Paying

\* Payments and entries are only added, for the row of the worker at work.
LEMMA PaidGrows ==
    ASSUME TypeInv, NEW w \in Workers, NEW b \in Disbursements, b = job[w].on,
           CheckBalance(w) \/ CallBank(w) \/ Book(w) \/ Debit(w) \/ RollBack(w)
    PROVE  /\ \A x \in Disbursements : x # b =>
                  disb'[x] = disb[x] /\ paid'[x] = paid[x] /\ debits'[x] = debits[x]
           /\ paid'[b] = IF job'[w].at = "book" THEN paid[b] + 1 ELSE paid[b]
           /\ debits'[b] = IF job[w].at = "debit" /\ debits' # debits THEN debits[b] + 1
                                                                     ELSE debits[b]
           /\ disb'[b] = disb[b] \/ (job[w].at \in {"book", "debit"} /\ disb'[b] = "SUCCESS")
           /\ job'[w].at = "debit" => debits[b] = 0
           /\ debits' # debits => disb'[b] = "SUCCESS"
           /\ approvals' = approvals
  <1>t. /\ disb \in [Disbursements -> DisbStatuses]
        /\ paid \in [Disbursements -> Nat] /\ debits \in [Disbursements -> Nat]
    BY DEF TypeInv, TypeOK, DisbursementsTypeOK
  <1>1. CASE CheckBalance(w)
    <2>1. job[w].at = "execute" /\ job'[w].at \in {"pay", "idle"}
      BY <1>1, DisbMoves
    <2>. QED
      BY <1>1, <2>1 DEF CheckBalance, disbVars
  <1>2. CASE CallBank(w)
    <2>1. job[w].at = "pay" /\ job'[w].at \in {"book", "idle"}
      BY <1>2, DisbMoves
    <2>2. UNCHANGED <<disb, debits, approvals>>
      BY <1>2 DEF CallBank
    <2>3. CASE paid' = [paid EXCEPT ![b] = @ + 1] /\ Go(w, "book")
      <3>1. job'[w].at = "book"
        BY <2>3, Going DEF Steps, DisbSteps
      <3>. QED
        BY <1>t, <2>1, <2>2, <2>3, <3>1
    <2>4. CASE Return(w) /\ UNCHANGED paid
      <3>1. job'[w].at = "idle"
        BY <2>4, Returning
      <3>. QED
        BY <2>1, <2>2, <2>4, <3>1
    <2>. QED
      BY <1>2, <2>3, <2>4 DEF CallBank
  <1>3. CASE Book(w)
    <2>1. job[w].at = "book" /\ job'[w].at \in {"debit", "idle"}
      BY <1>3, DisbMoves
    <2>2. UNCHANGED <<paid, debits, approvals>>
      BY <1>3 DEF Book
    <2>3. CASE debits[b] = 0 /\ UNCHANGED disb
      BY <2>1, <2>2, <2>3
    <2>4. CASE disb' = [disb EXCEPT ![b] = "SUCCESS"] /\ Return(w)
      <3>1. job'[w].at = "idle"
        BY <2>4, Returning
      <3>. QED
        BY <1>t, <2>1, <2>2, <2>4, <3>1
    <2>. QED
      BY <1>3, <2>3, <2>4 DEF Book
  <1>4. CASE Debit(w)
    <2>1. job[w].at = "debit" /\ job'[w].at = "idle"
      BY <1>4, DisbMoves
    <2>2. /\ debits' = [debits EXCEPT ![b] = @ + 1]
          /\ disb' = [disb EXCEPT ![b] = "SUCCESS"]
          /\ UNCHANGED <<paid, approvals>>
      BY <1>4 DEF Debit
    <2>. QED
      BY <1>t, <2>1, <2>2
  <1>5. CASE RollBack(w)
    <2>1. job[w].at \in {"book", "debit"} /\ job'[w].at = "idle"
      BY <1>5, DisbMoves
    <2>. QED
      BY <1>5, <2>1 DEF RollBack
  <1>. QED
    BY <1>1, <1>2, <1>3, <1>4, <1>5

LEMMA DebitStep == DebitInv /\ [Next]_vars => DebitInv'
  <1>. SUFFICES ASSUME DebitInv, [Next]_vars PROVE DebitInv'
    OBVIOUS
  <1>0. TypeInv /\ TypeInv'
    BY StepTyped DEF DebitInv
  <1>t. /\ disb \in [Disbursements -> DisbStatuses]
        /\ paid \in [Disbursements -> Nat] /\ debits \in [Disbursements -> Nat]
    BY <1>0 DEF TypeInv, TypeOK, DisbursementsTypeOK
  <1>j. \A u \in Workers : Paying(u) => job[u].on \in Disbursements
    BY <1>0 DEF TypeInv, JobsOK, Paying, DisbSteps
  <1>. DEFINE JobOK(w) == /\ Paying(w) => paid[job[w].on] >= 1
                          /\ job[w].at = "debit" => debits[job[w].on] = 0
              Alone == \A u, w \in Workers :
                          Paying(u) /\ Paying(w) /\ job[u].on = job[w].on => u = w
  <1>1. CASE /\ UNCHANGED <<paid, debits>>
             /\ \A b \in Disbursements : disb'[b] = "SUCCESS" => disb[b] = "SUCCESS"
             /\ \A u \in Workers : job'[u].at \in {"book", "debit"} => job'[u] = job[u]
    <2>1. \A u \in Workers : Paying(u)' => job'[u] = job[u] /\ Paying(u)
      BY <1>1 DEF Paying
    <2>2. (\A w \in Workers : JobOK(w)') /\ Alone'
      BY <1>1, <2>1 DEF DebitInv, Paying
    <2>3. DisbursementDebitedOnce'
      BY <1>1 DEF DebitInv, DisbursementDebitedOnce
    <2>. QED
      BY <1>0, <2>2, <2>3 DEF DebitInv
  <1>2. ASSUME NEW w \in Workers, NEW b \in Disbursements, ReadDisbursement(w, b)
        PROVE  DebitInv'
    <2>1. job'[w].at \in {"first", "second", "execute"} /\ \A u \in Workers : u # w => job'[u] = job[u]
      BY <1>0, <1>2, DisbReading
    <2>. QED
      BY <1>1, <1>2, <2>1 DEF ReadDisbursement
  <1>3. ASSUME NEW w \in Workers, NEW p \in Principals, AuthoriseFirst(w, p) \/ AuthoriseSecond(w, p)
        PROVE  DebitInv'
    <2>1. job'[w].at \in {"idle", "execute"} /\ \A u \in Workers : u # w => job'[u] = job[u]
      BY <1>0, <1>3, DisbMoves DEF DisbMove
    <2>2. \A x \in Disbursements : disb'[x] = "SUCCESS" => disb[x] = "SUCCESS"
      BY <1>3, <1>t DEF AuthoriseFirst, AuthoriseSecond
    <2>3. UNCHANGED <<paid, debits>>
      BY <1>3 DEF AuthoriseFirst, AuthoriseSecond
    <2>. QED
      BY <1>1, <2>1, <2>2, <2>3
  <1>4. ASSUME NEW b \in Disbursements, RejectDisbursement(b) PROVE DebitInv'
    <2>1. \A x \in Disbursements : disb'[x] = "SUCCESS" => disb[x] = "SUCCESS"
      BY <1>4, <1>t DEF RejectDisbursement
    <2>. QED
      BY <1>1, <1>4, <2>1 DEF RejectDisbursement, bookVars
  <1>5. ASSUME NEW w \in Workers,
               CheckBalance(w) \/ CallBank(w) \/ Book(w) \/ Debit(w) \/ RollBack(w)
        PROVE  DebitInv'
    <2>. DEFINE b == job[w].on
    <2>1. /\ b \in Disbursements
          /\ job'[w].at # "idle" => job'[w].on = b
          /\ \A u \in Workers : u # w => job'[u] = job[u]
          /\ \/ job[w].at = "execute" /\ job'[w].at \in {"pay", "idle"}
             \/ job[w].at = "pay" /\ job'[w].at \in {"book", "idle"}
             \/ job[w].at = "book" /\ job'[w].at \in {"debit", "idle"}
             \/ job[w].at = "debit" /\ job'[w].at = "idle"
      BY <1>0, <1>5, DisbMoves DEF DisbMove
    <2>2. /\ \A x \in Disbursements : x # b =>
                 disb'[x] = disb[x] /\ paid'[x] = paid[x] /\ debits'[x] = debits[x]
          /\ paid'[b] = IF job'[w].at = "book" THEN paid[b] + 1 ELSE paid[b]
          /\ debits'[b] = IF job[w].at = "debit" /\ debits' # debits THEN debits[b] + 1
                                                                    ELSE debits[b]
          /\ disb'[b] = disb[b] \/ (job[w].at \in {"book", "debit"} /\ disb'[b] = "SUCCESS")
          /\ job'[w].at = "debit" => debits[b] = 0
      BY <1>0, <1>5, <2>1, PaidGrows
    <2>3. job'[w].at = "book" => \A u \in Workers : Paying(u) => job[u].on # b
      <3>1. ~ CallBank(w) => job'[w].at # "book"
        BY <1>0, <1>5, DisbMoves
      <3>2. CallBank(w) => ~ Executing(b)
        BY DEF CallBank
      <3>. QED
        BY <3>1, <3>2 DEF Executing, Locked, Paying
    <2>4. Alone'
      BY <2>1, <2>3 DEF DebitInv, Paying
    <2>5. /\ job[w].at \in {"book", "debit"} => paid[b] >= 1
          /\ job[w].at = "debit" => debits[b] = 0
          /\ paid[b] \in Nat /\ debits[b] \in Nat
          /\ debits[b] <= 1 /\ (debits[b] = 1 \/ disb[b] = "SUCCESS" => paid[b] >= 1)
      BY <1>t, <2>1 DEF DebitInv, DisbursementDebitedOnce, Paying
    <2>6. debits'[b] <= 1 /\ (debits'[b] = 1 \/ disb'[b] = "SUCCESS" => paid'[b] >= 1)
      <3>1. debits'[b] <= 1 /\ paid'[b] >= paid[b]
        BY <2>2, <2>5
      <3>2. debits'[b] = 1 => debits[b] = 1 \/ job[w].at = "debit"
        BY <2>2
      <3>. QED
        BY <2>2, <2>5, <3>1, <3>2
    <2>7. DisbursementDebitedOnce'
      <3>1. ASSUME NEW x \in Disbursements
            PROVE  debits'[x] <= 1 /\ (debits'[x] = 1 \/ disb'[x] = "SUCCESS" => paid'[x] >= 1)
        BY <2>2, <2>6 DEF DebitInv, DisbursementDebitedOnce
      <3>. QED
        BY <3>1 DEF DisbursementDebitedOnce
    <2>8. ASSUME NEW u \in Workers PROVE JobOK(u)'
      <3>1. CASE u = w
        BY <2>1, <2>2, <2>5, <3>1 DEF Paying
      <3>2. CASE u # w /\ ~ Paying(u)
        BY <2>1, <3>2 DEF Paying
      <3>3. CASE u # w /\ Paying(u)
        <4>1. job'[u] = job[u] /\ job[u].on \in Disbursements
          BY <1>j, <2>1, <3>3
        <4>2. JobOK(u)
          BY DEF DebitInv
        <4>3. CASE job[u].on # b
          BY <2>2, <4>1, <4>2, <4>3 DEF Paying
        <4>4. CASE job[u].on = b
          <5>1. job[w].at \notin {"book", "debit"}
            BY <3>3, <4>4 DEF DebitInv, Paying
          <5>2. paid[b] >= 1 /\ (job[u].at = "debit" => debits[b] = 0)
            BY <3>3, <4>2, <4>4
          <5>3. paid'[b] >= 1 /\ debits'[b] = debits[b]
            BY <2>2, <2>5, <5>1, <5>2
          <5>. QED
            BY <4>1, <4>4, <5>2, <5>3
        <4>. QED
          BY <4>3, <4>4
      <3>. QED
        BY <3>1, <3>2, <3>3
    <2>. QED
      BY <1>0, <2>4, <2>7, <2>8 DEF DebitInv
  <1>6. CASE /\ UNCHANGED disbVars
             /\ \A u \in Workers : job'[u].at \in DisbSteps => job'[u] = job[u]
    BY <1>1, <1>6 DEF disbVars, DisbSteps
  <1>. QED
    BY <1>0, <1>2, <1>3, <1>4, <1>5, <1>6, OthersFrame DEF DisbursementHandlers

\* A disbursement is debited once at most and only after the bank has paid,
\* though the look-up for its entry and the choice of the account hold no lock
\* on the account, and an executed disbursement may be executed again.
THEOREM DebitedOnce == Spec => []DisbursementDebitedOnce
  <1>1. DebitInv => DisbursementDebitedOnce
    BY DEF DebitInv
  <1>. QED
    BY <1>1, InitDebits, DebitStep, PTL DEF Spec

-----------------------------------------------------------------------------
\* A disbursement that nothing disturbed: one handler at most is at it, while it
\* is open nobody has rejected it, and it is unpaid unless its payout is under
\* way.
Open(b) == disb[b] \in {"PENDING_FIRST_APPROVAL", "PENDING_SECOND_APPROVAL", "APPROVED"}

Handling(w) == job[w].at \in DisbSteps

OnceInv ==
    /\ TypeInv
    /\ \A u, w \in Workers :
          Handling(u) /\ Handling(w) /\ job[u].on = job[w].on /\ job[u].on \notin disturbed
              => u = w
    /\ \A w \in Workers : Handling(w) /\ job[w].on \notin disturbed =>
          /\ Open(job[w].on) /\ ~ approvals[job[w].on].rejected
          /\ ~ Paying(w) => paid[job[w].on] = 0
    /\ \A b \in Disbursements \ disturbed : Open(b) =>
          /\ ~ approvals[b].rejected
          /\ paid[b] = 0 \/ \E w \in Workers : Paying(w) /\ job[w].on = b

LEMMA InitOnce == Init => OnceInv
  <1>. SUFFICES ASSUME Init PROVE OnceInv
    OBVIOUS
  <1>1. \A b \in Disbursements : ~ approvals[b].rejected /\ paid[b] = 0
    BY DEF Init, DisbursementsInit, NoApprovals
  <1>2. \A w \in Workers : job[w].at = "idle"
    BY DEF Init, BooksInit, Idle
  <1>. QED
    BY <1>1, <1>2, InitTyped DEF OnceInv, Handling, DisbSteps

\* What is left to show of a step that concerns the row b: the other rows, and
\* the workers at them, keep what they have.
LEMMA OnceElsewhere ==
    ASSUME OnceInv, TypeInv', NEW b \in Disbursements,
           disturbed \subseteq disturbed',
           \A x \in Disbursements : x # b =>
               disb'[x] = disb[x] /\ approvals'[x] = approvals[x] /\ paid'[x] = paid[x],
           \A u \in Workers : \/ job'[u] = job[u]
                              \/ /\ Handling(u) => job[u].on = b
                                 /\ Handling(u)' => job'[u].on = b,
           b \notin disturbed' =>
               /\ \A u, w \in Workers :
                     Handling(u)' /\ Handling(w)' /\ job'[u].on = b /\ job'[w].on = b => u = w
               /\ \A w \in Workers : Handling(w)' /\ job'[w].on = b =>
                     /\ Open(b)' /\ ~ approvals'[b].rejected
                     /\ ~ Paying(w)' => paid'[b] = 0
               /\ Open(b)' =>
                     /\ ~ approvals'[b].rejected
                     /\ paid'[b] = 0 \/ \E w \in Workers : Paying(w)' /\ job'[w].on = b
    PROVE  OnceInv'
  <1>1. \A u \in Workers : Handling(u)' => job'[u].on \in Disbursements
    BY DEF TypeInv, JobsOK, Handling
  <1>2. \A u \in Workers : Handling(u)' /\ job'[u].on # b => job'[u] = job[u] /\ Handling(u)
    BY DEF Handling
  <1>3. ASSUME NEW u \in Workers, NEW w \in Workers, Handling(u)', Handling(w)',
               job'[u].on = job'[w].on, job'[u].on \notin disturbed'
        PROVE  u = w
    <2>1. CASE job'[u].on = b
      BY <1>3, <2>1
    <2>2. CASE job'[u].on # b
      BY <1>2, <1>3, <2>2 DEF OnceInv
    <2>. QED
      BY <2>1, <2>2
  <1>4. ASSUME NEW w \in Workers, Handling(w)', job'[w].on \notin disturbed'
        PROVE  /\ disb'[job'[w].on] \in {"PENDING_FIRST_APPROVAL", "PENDING_SECOND_APPROVAL",
                                         "APPROVED"}
               /\ ~ approvals'[job'[w].on].rejected
               /\ ~ Paying(w)' => paid'[job'[w].on] = 0
    <2>1. CASE job'[w].on = b
      BY <1>4, <2>1 DEF Open
    <2>2. CASE job'[w].on # b
      <3>1. job'[w] = job[w] /\ Handling(w) /\ job[w].on \notin disturbed
            /\ job[w].on \in Disbursements /\ job[w].on # b
        BY <1>1, <1>2, <1>4, <2>2
      <3>. QED
        BY <3>1 DEF OnceInv, Open, Paying
    <2>. QED
      BY <2>1, <2>2
  <1>5. ASSUME NEW x \in Disbursements, x \notin disturbed', Open(x)'
        PROVE  /\ ~ approvals'[x].rejected
               /\ paid'[x] = 0 \/ \E w \in Workers : Paying(w)' /\ job'[w].on = x
    <2>1. CASE x = b
      BY <1>5, <2>1
    <2>2. CASE x # b
      <3>1. /\ ~ approvals[x].rejected
            /\ paid[x] = 0 \/ \E w \in Workers : Paying(w) /\ job[w].on = x
        BY <1>5, <2>2 DEF OnceInv, Open
      <3>2. ASSUME NEW w \in Workers, Paying(w), job[w].on = x
            PROVE  Paying(w)' /\ job'[w].on = x
        BY <2>2, <3>2 DEF Paying, Handling, DisbSteps
      <3>. QED
        BY <2>2, <3>1, <3>2
    <2>. QED
      BY <2>1, <2>2
  <1>. QED
    BY <1>3, <1>4, <1>5 DEF OnceInv, Open

LEMMA OnceStep == OnceInv /\ [Next]_vars => OnceInv'
  <1>. SUFFICES ASSUME OnceInv, [Next]_vars PROVE OnceInv'
    OBVIOUS
  <1>0. TypeInv /\ TypeInv'
    BY StepTyped DEF OnceInv
  <1>t. /\ disb \in [Disbursements -> DisbStatuses]
        /\ paid \in [Disbursements -> Nat]
        /\ approvals \in [Disbursements -> ApprovalRows]
    BY <1>0 DEF TypeInv, TypeOK, DisbursementsTypeOK
  <1>p. \A u \in Workers : Paying(u) => Handling(u)
    BY DEF Paying, Handling, DisbSteps
  <1>1. CASE /\ UNCHANGED disbVars
             /\ \A u \in Workers :
                   job'[u].at \in DisbSteps \/ job[u].at \in {"book", "debit"}
                       => job'[u] = job[u]
    <2>1. \A u \in Workers : Handling(u)' => job'[u] = job[u] /\ Handling(u)
      BY <1>1 DEF Handling
    <2>2. \A u \in Workers : Paying(u) => job'[u] = job[u]
      BY <1>1 DEF Paying
    <2>3. UNCHANGED <<disb, approvals, paid, disturbed>>
      BY <1>1 DEF disbVars
    <2>4. ASSUME NEW u \in Workers, NEW w \in Workers, Handling(u)', Handling(w)',
                 job'[u].on = job'[w].on, job'[u].on \notin disturbed'
          PROVE  u = w
      BY <2>1, <2>3, <2>4 DEF OnceInv
    <2>5. ASSUME NEW w \in Workers, Handling(w)', job'[w].on \notin disturbed'
          PROVE  /\ disb'[job'[w].on] \in {"PENDING_FIRST_APPROVAL", "PENDING_SECOND_APPROVAL",
                                           "APPROVED"}
                 /\ ~ approvals'[job'[w].on].rejected
                 /\ ~ Paying(w)' => paid'[job'[w].on] = 0
      BY <2>1, <2>3, <2>5 DEF OnceInv, Open, Paying
    <2>6. ASSUME NEW b \in Disbursements, b \notin disturbed', Open(b)'
          PROVE  /\ ~ approvals'[b].rejected
                 /\ paid'[b] = 0 \/ \E w \in Workers : Paying(w)' /\ job'[w].on = b
      <3>1. /\ ~ approvals[b].rejected
            /\ paid[b] = 0 \/ \E w \in Workers : Paying(w) /\ job[w].on = b
        BY <2>3, <2>6 DEF OnceInv, Open
      <3>2. ASSUME NEW w \in Workers, Paying(w), job[w].on = b
            PROVE  Paying(w)' /\ job'[w].on = b
        BY <2>2, <3>2 DEF Paying
      <3>. QED
        BY <2>3, <3>1, <3>2
    <2>. QED
      BY <1>0, <2>4, <2>5, <2>6 DEF OnceInv, Open
  <1>2. ASSUME NEW w \in Workers, NEW b \in Disbursements, ReadDisbursement(w, b)
        PROVE  OnceInv'
    <2>1. /\ job[w].at = "idle" /\ job'[w].on = b
          /\ \A u \in Workers : u # w => job'[u] = job[u]
          /\ job'[w].at \in {"first", "second", "execute"} /\ Open(b)
      BY <1>0, <1>2, DisbReading DEF Open
    <2>2. UNCHANGED <<disb, approvals, paid>> /\ disturbed \subseteq disturbed'
      BY <1>2 DEF ReadDisbursement, Disturb
    <2>3. ~ Handling(w) /\ (Handling(w)' => job'[w].on = b)
      BY <2>1 DEF Handling, DisbSteps
    <2>4. b \notin disturbed' =>
              b \notin disturbed /\ \A u \in Workers : u # w => ~ (Handling(u) /\ job[u].on = b)
      BY <1>2 DEF ReadDisbursement, Disturb, HandledBy, Handling
    <2>5. b \notin disturbed' => ~ approvals[b].rejected /\ paid[b] = 0
      BY <1>p, <2>1, <2>3, <2>4 DEF OnceInv
    <2>6. b \notin disturbed' =>
              \A u \in Workers : Handling(u)' /\ job'[u].on = b => u = w
      BY <2>1, <2>4 DEF Handling
    <2>. QED
      BY <1>0, <2>1, <2>2, <2>3, <2>5, <2>6, OnceElsewhere DEF Open
  <1>3. ASSUME NEW b \in Disbursements, RejectDisbursement(b) PROVE OnceInv'
    <2>1. /\ job' = job /\ paid' = paid /\ disturbed \subseteq disturbed'
          /\ disb' = [disb EXCEPT ![b] = "REJECTED"]
          /\ b \notin disturbed' => \A u \in Workers : ~ (Handling(u) /\ job[u].on = b)
      BY <1>3 DEF RejectDisbursement, bookVars, HandledBy, Handling
    <2>2. \A x \in Disbursements : x # b => approvals'[x] = approvals[x] /\ disb'[x] = disb[x]
      BY <1>0, <1>3, <1>t, <2>1, Rejected
    <2>3. disb'[b] = "REJECTED"
      BY <1>t, <2>1
    <2>4. ~ Open(b)' /\ \A u \in Workers : job'[u] = job[u] /\ (Handling(u)' <=> Handling(u))
      BY <2>1, <2>3 DEF Open, Handling
    <2>. QED
      BY <1>0, <2>1, <2>2, <2>4, OnceElsewhere
  <1>4. ASSUME NEW w \in Workers, NEW p \in Principals, AuthoriseFirst(w, p) \/ AuthoriseSecond(w, p)
        PROVE  OnceInv'
    <2>0. PICK b \in Disbursements : b = job[w].on
      BY <1>0, <1>4, DisbMoves DEF DisbMove
    <2>1. /\ \A u \in Workers : u # w => job'[u] = job[u]
          /\ job[w].at \in {"first", "second"}
          /\ job'[w].at \in {"idle", "execute"}
          /\ job'[w].at # "idle" => job'[w].on = b
      BY <1>0, <1>4, <2>0, DisbMoves DEF DisbMove
    <2>2. UNCHANGED <<paid, disturbed>>
      BY <1>4 DEF AuthoriseFirst, AuthoriseSecond
    <2>3. /\ \A x \in Disbursements : x # b => disb'[x] = disb[x]
          /\ disb'[b] \in {"PENDING_SECOND_APPROVAL", "APPROVED"}
      BY <1>4, <1>t, <2>0 DEF AuthoriseFirst, AuthoriseSecond
    <2>4. /\ \A x \in Disbursements : x # b => approvals'[x] = approvals[x]
          /\ approvals'[b].rejected = approvals[b].rejected
      BY <1>0, <1>4, <2>0, FirstAuthorised, SecondAuthorised
    <2>5. Handling(w) /\ ~ Paying(w) /\ (Handling(w)' => job'[w].on = b)
      BY <2>1 DEF Handling, Paying, DisbSteps
    <2>6. b \notin disturbed =>
              /\ ~ approvals[b].rejected /\ paid[b] = 0
              /\ \A u \in Workers : Handling(u) /\ job[u].on = b => u = w
      BY <2>0, <2>5 DEF OnceInv
    <2>7. b \notin disturbed => \A u \in Workers : Handling(u)' /\ job'[u].on = b => u = w
      BY <2>1, <2>6 DEF Handling
    <2>8. Open(b)'
      BY <2>3 DEF Open
    <2>. QED
      BY <1>0, <2>0, <2>1, <2>2, <2>3, <2>4, <2>5, <2>6, <2>7, <2>8, OnceElsewhere
  <1>5. ASSUME NEW w \in Workers,
               CheckBalance(w) \/ CallBank(w) \/ Book(w) \/ Debit(w) \/ RollBack(w)
        PROVE  OnceInv'
    <2>0. PICK b \in Disbursements : b = job[w].on
      BY <1>0, <1>5, DisbMoves DEF DisbMove
    <2>1. /\ job'[w].at # "idle" => job'[w].on = b
          /\ \A u \in Workers : u # w => job'[u] = job[u]
          /\ \/ job[w].at = "execute" /\ job'[w].at \in {"pay", "idle"}
             \/ job[w].at = "pay" /\ job'[w].at \in {"book", "idle"}
             \/ job[w].at = "book" /\ job'[w].at \in {"debit", "idle"}
             \/ job[w].at = "debit" /\ job'[w].at = "idle"
      BY <1>0, <1>5, <2>0, DisbMoves DEF DisbMove
    <2>2. /\ \A x \in Disbursements : x # b => disb'[x] = disb[x] /\ paid'[x] = paid[x]
          /\ paid'[b] = IF job'[w].at = "book" THEN paid[b] + 1 ELSE paid[b]
          /\ disb'[b] = disb[b] \/ (job[w].at \in {"book", "debit"} /\ disb'[b] = "SUCCESS")
          /\ approvals' = approvals
      BY <1>0, <1>5, <2>0, PaidGrows
    <2>3. disturbed \subseteq disturbed' /\ disturbed' \subseteq disturbed \cup {b}
      BY <1>5, <2>0 DEF CheckBalance, CallBank, Book, Debit, RollBack, disbVars
    <2>4. Handling(w) /\ (Handling(w)' => job'[w].on = b)
      BY <2>1 DEF Handling, DisbSteps
    <2>5. b \notin disturbed' =>
              /\ Open(b) /\ ~ approvals[b].rejected
              /\ ~ Paying(w) => paid[b] = 0
              /\ \A u \in Workers : Handling(u) /\ job[u].on = b => u = w
      BY <2>0, <2>3, <2>4 DEF OnceInv
    <2>6. b \notin disturbed' => \A u \in Workers : Handling(u)' /\ job'[u].on = b => u = w
      BY <2>1, <2>5 DEF Handling
    \* Whoever leaves the payout's transaction has made the row SUCCESS, or has
    \* disturbed it.
    <2>7. b \notin disturbed' /\ Paying(w) => Paying(w)' \/ disb'[b] = "SUCCESS"
      <3>1. RollBack(w) => b \in disturbed'
        BY <2>0 DEF RollBack
      <3>2. Book(w) => job'[w].at = "debit" \/ disb'[b] = "SUCCESS"
        <4>1. CASE Book(w) /\ Go(w, "debit")
          BY <1>0, <4>1, Going DEF Steps, DisbSteps
        <4>2. CASE Book(w) /\ disb' = [disb EXCEPT ![b] = "SUCCESS"]
          BY <1>t, <4>2
        <4>. QED
          BY <2>0, <4>1, <4>2 DEF Book
      <3>3. Debit(w) => disb'[b] = "SUCCESS"
        BY <1>t, <2>0 DEF Debit
      <3>4. CheckBalance(w) \/ CallBank(w) => ~ Paying(w)
        BY DEF CheckBalance, CallBank, Paying
      <3>. QED
        BY <1>5, <3>1, <3>2, <3>3, <3>4 DEF Paying
    <2>8. b \notin disturbed' /\ Handling(w)' =>
              /\ Open(b)' /\ ~ approvals'[b].rejected
              /\ ~ Paying(w)' => paid'[b] = 0
      <3>1. Handling(w)' => disb'[b] = disb[b] \/ (job[w].at = "book" /\ disb'[b] = "SUCCESS")
        BY <2>1, <2>2 DEF Handling, DisbSteps
      <3>2. job[w].at = "book" /\ Handling(w)' => disb'[b] = disb[b]
        <4>1. job[w].at = "book" => Book(w) \/ RollBack(w)
          BY <1>5 DEF CheckBalance, CallBank, Debit
        <4>2. RollBack(w) => disb' = disb
          BY DEF RollBack
        <4>3. Book(w) /\ Handling(w)' => disb' = disb
          <5>1. Return(w) => ~ Handling(w)'
            BY <1>0, Returning DEF Handling, DisbSteps
          <5>. QED
            BY <5>1 DEF Book
        <4>. QED
          BY <4>1, <4>2, <4>3
      <3>3. Handling(w)' /\ ~ Paying(w)' => paid'[b] = paid[b] /\ ~ Paying(w)
        BY <2>1, <2>2 DEF Handling, Paying, DisbSteps
      <3>. QED
        BY <2>2, <2>5, <3>1, <3>2, <3>3 DEF Open
    <2>9. b \notin disturbed' /\ Open(b)' =>
              /\ ~ approvals'[b].rejected
              /\ paid'[b] = 0 \/ \E u \in Workers : Paying(u)' /\ job'[u].on = b
      <3>1. CASE Paying(w)'
        <4>1. job'[w].on = b
          BY <2>1, <3>1 DEF Paying
        <4>. QED
          BY <2>2, <2>5, <3>1, <4>1
      <3>2. CASE ~ Paying(w)'
        <4>1. job'[w].at # "book"
          BY <3>2 DEF Paying
        <4>2. b \notin disturbed' /\ Open(b)' => ~ Paying(w)
          BY <2>7, <3>2 DEF Open
        <4>. QED
          BY <2>2, <2>5, <4>1, <4>2
      <3>. QED
        BY <3>1, <3>2
    <2>. QED
      BY <1>0, <2>0, <2>1, <2>2, <2>3, <2>4, <2>6, <2>8, <2>9, OnceElsewhere
  <1>. QED
    BY <1>0, <1>1, <1>2, <1>3, <1>4, <1>5, OthersFrame DEF DisbursementHandlers

\* A disbursement that one request at a time handles, and whose payout is not
\* rolled back after the bank has paid, is paid once at most and never after a
\* rejection, in whatever order authorisations, executions and crashes come.
THEOREM UndisturbedPaidOnce == Spec => PaidOnceUndisturbed
  <1>. DEFINE Once == \A b \in Disbursements :
                          paid'[b] # paid[b] /\ b \notin disturbed'
                              => paid[b] = 0 /\ ~ approvals[b].rejected
  <1>1. OnceInv /\ [Next]_vars => [Once]_vars
    <2>. SUFFICES ASSUME OnceInv, [Next]_vars, NEW b \in Disbursements,
                         paid'[b] # paid[b], b \notin disturbed'
                  PROVE  paid[b] = 0 /\ ~ approvals[b].rejected
      OBVIOUS
    <2>0. TypeInv
      BY DEF OnceInv
    <2>1. DisbursementHandlers
      BY <2>0, OthersFrame DEF disbVars
    <2>2. PICK w \in Workers : CallBank(w)
      BY <2>1 DEF DisbursementHandlers, ReadDisbursement, AuthoriseFirst, AuthoriseSecond,
                  RejectDisbursement, CheckBalance, Book, Debit, RollBack, disbVars
    <2>3. /\ job[w].on \in Disbursements /\ Handling(w) /\ ~ Paying(w)
          /\ disturbed' = disturbed
      BY <2>0, <2>2 DEF CallBank, TypeInv, JobsOK, Handling, Paying, DisbSteps
    <2>4. job[w].on = b
      BY <2>0, <2>2, <2>3, PaidGrows
    <2>. QED
      BY <2>3, <2>4 DEF OnceInv
  <1>. QED
    BY <1>1, InitOnce, OnceStep, PTL DEF Spec, PaidOnceUndisturbed


-----------------------------------------------------------------------------
\* What a step does to the balances and to what they are compared with: it
\* posts one transfer, deposit or disbursement, or it changes a balance only by
\* a recharge or in a row it marks as overwritten.
Quiet ==
    /\ UNCHANGED <<credits, debits, shifted>>
    /\ overlapped \subseteq overlapped'
    /\ \A v \in Vas \ overlapped' : va'[v].ledger = va[v].ledger
    /\ \A a \in Accounts \ overlapped' :
          nostro'[a].balance - recharged'[a] = nostro[a].balance - recharged[a]

Transferred(t) ==
    /\ UNCHANGED <<va, recharged, overlapped, credits, debits>>
    /\ ShiftBalances(t)
    /\ shifted' = [shifted EXCEPT ![t] = @ + 1]

Credited(d) ==
    /\ UNCHANGED <<recharged, overlapped, shifted, debits>>
    /\ PostVa(DepositVa[d], DepositSum[d])
    /\ credits' = [credits EXCEPT ![d] = @ + 1]

Debited(b) ==
    /\ UNCHANGED <<recharged, overlapped, shifted, credits>>
    /\ PostVa(AgentAccount, 0 - PayoutSum[b])
    /\ debits' = [debits EXCEPT ![b] = @ + 1]

MoneyMoves ==
    \/ Quiet
    \/ \E t \in Transfers : Transferred(t)
    \/ \E d \in Deposits : Credited(d)
    \/ \E b \in Disbursements : Debited(b)

LEMMA BookMoney ==
    ASSUME TypeInv, NostroHandlers \/ VaHandlers, UNCHANGED <<credits, debits, shifted>>
    PROVE  Quiet
  <1>0. /\ nostro \in [Accounts -> NostroRow] /\ va \in [Vas -> VaRow]
        /\ job \in [Workers -> JobType] /\ recharged \in [Accounts -> Nat]
        /\ Accounts \cap Vas = {}
    BY RowsDisjoint DEF TypeInv, TypeOK, BooksTypeOK, JobType
  <1>1. ASSUME UNCHANGED <<nostro, va, recharged, overlapped>>
        PROVE  Quiet
    BY <1>1 DEF Quiet
  <1>2. ASSUME NEW w \in Workers, WriteRecharge(w)
        PROVE  Quiet
    <2>. DEFINE a == job[w].on
    <2>1. a \in Accounts
      BY <1>2 DEF TypeInv, JobsOK, WriteRecharge
    <2>2. va' = va /\ \A x \in Accounts : x # a => nostro'[x] = nostro[x] /\ recharged'[x] = recharged[x]
      BY <1>0, <1>2, <2>1 DEF WriteRecharge
    <2>3. nostro'[a].balance = job[w].seen + 1 /\ recharged'[a] = recharged[a] + 1
      BY <1>0, <1>2, <2>1 DEF WriteRecharge, NostroRow
    <2>4. \/ job[w].seen = nostro[a].balance /\ overlapped' = overlapped
          \/ overlapped' = overlapped \cup {a}
      BY <1>2 DEF WriteRecharge, Overwrites
    <2>5. nostro[a].balance \in Int /\ recharged[a] \in Nat
      BY <1>0, <2>1 DEF NostroRow
    <2>. HIDE DEF a
    <2>. QED
      BY <2>2, <2>3, <2>4, <2>5 DEF Quiet
  <1>3. ASSUME NEW w \in Workers, NEW active, NEW balance, SaveNostro(w, active, balance)
        PROVE  Quiet
    <2>. DEFINE a == job[w].on
    <2>1. a \in Accounts
      BY <1>3 DEF TypeInv, JobsOK, SaveNostro
    <2>2. /\ va' = va /\ recharged' = recharged
          /\ \A x \in Accounts : x # a => nostro'[x] = nostro[x]
      BY <1>0, <1>3, <2>1 DEF SaveNostro
    <2>3. nostro'[a].balance = balance
      BY <1>0, <1>3, <2>1 DEF SaveNostro
    <2>4. \/ balance = nostro[a].balance /\ overlapped' = overlapped
          \/ overlapped' = overlapped \cup {a}
      BY <1>3 DEF SaveNostro, Overwrites
    <2>. HIDE DEF a
    <2>. QED
      BY <2>2, <2>3, <2>4 DEF Quiet
  <1>4. ASSUME NEW a \in Accounts, DeactivateNostro(a)
        PROVE  Quiet
    <2>1. \A x \in Accounts : nostro'[x].balance = nostro[x].balance
      BY <1>0, <1>4 DEF DeactivateNostro, NostroRow
    <2>. QED
      BY <1>4, <2>1 DEF DeactivateNostro, Quiet
  <1>5. ASSUME NEW w \in Workers, NEW status \in VaStatuses, SaveVa(w, status)
        PROVE  Quiet
    <2>. DEFINE v == job[w].on
    <2>1. v \in Vas
      BY <1>5 DEF TypeInv, JobsOK, SaveVa
    <2>2. /\ nostro' = nostro /\ recharged' = recharged
          /\ \A x \in Vas : x # v => va'[x] = va[x]
      BY <1>0, <1>5, <2>1 DEF SaveVa
    <2>3. va'[v].ledger = job[w].seen
      BY <1>0, <1>5, <2>1 DEF SaveVa
    <2>4. \/ job[w].seen = va[v].ledger /\ overlapped' = overlapped
          \/ overlapped' = overlapped \cup {v}
      BY <1>5 DEF SaveVa, Overwrites
    <2>. HIDE DEF v
    <2>. QED
      BY <2>2, <2>3, <2>4 DEF Quiet
  <1>6. ASSUME NEW w \in Workers, DeactivateVa(w)
        PROVE  Quiet
    <2>1. \A x \in Vas : va'[x].ledger = va[x].ledger
      BY <1>0, <1>6 DEF DeactivateVa, VaRow
    <2>. QED
      BY <1>6, <2>1 DEF DeactivateVa, Quiet
  <1>7. ASSUME NEW v \in Vas, NEW status, SetVaStatus(v, status)
        PROVE  Quiet
    <2>1. \A x \in Vas : va'[x].ledger = va[x].ledger
      BY <1>0, <1>7 DEF SetVaStatus, VaRow
    <2>. QED
      BY <1>7, <2>1 DEF SetVaStatus, Quiet
  <1>8. ASSUME NEW w \in Workers,
               \/ \E a \in Accounts : ReadRecharge(w, a) \/ ReadNostro(w, a)
               \/ \E v \in Vas : ReadVa(w, v) \/ ReadDeactivateVa(w, v)
        PROVE  Quiet
    BY <1>1, <1>8 DEF ReadRecharge, ReadNostro, ReadVa, ReadDeactivateVa
  <1>. QED
    BY <1>2, <1>3, <1>4, <1>5, <1>6, <1>7, <1>8 DEF NostroHandlers, VaHandlers

LEMMA MoneyStep ==
    ASSUME TypeInv, [Next]_vars
    PROVE  MoneyMoves
  <1>1. ASSUME UNCHANGED <<nostro, va, recharged, overlapped, credits, debits, shifted>>
        PROVE  MoneyMoves
    BY <1>1 DEF MoneyMoves, Quiet
  <1>2. CASE /\ NostroHandlers \/ VaHandlers
             /\ UNCHANGED <<transferVars, depositVars, disbVars>>
    <2>1. UNCHANGED <<credits, debits, shifted>>
      BY <1>2 DEF transferVars, depositVars, disbVars
    <2>. QED
      BY <1>2, <2>1, BookMoney DEF MoneyMoves
  <1>3. CASE TransferHandlers /\ UNCHANGED <<depositVars, disbVars>>
    <2>1. UNCHANGED <<credits, debits>>
      BY <1>3 DEF depositVars, disbVars
    <2>2. ASSUME NEW w \in Workers, Shift(w) PROVE MoneyMoves
      <3>1. job[w].on \in Transfers
        BY <2>2 DEF TypeInv, JobsOK, Shift, TransferSteps
      <3>2. Transferred(job[w].on) \/ UNCHANGED <<nostro, va, recharged, overlapped, shifted>>
        BY <2>1, <2>2 DEF Shift, Transferred
      <3>. QED
        BY <1>1, <2>1, <3>1, <3>2 DEF MoneyMoves
    <2>3. ASSUME NEW w \in Workers, CallTransfer(w) PROVE MoneyMoves
      BY <1>1, <2>1, <2>3 DEF CallTransfer
    <2>4. ASSUME NEW w \in Workers, NEW t \in Transfers, ReadTransfer(w, t) PROVE MoneyMoves
      BY <1>1, <2>1, <2>4 DEF ReadTransfer, transferVars
    <2>. QED
      BY <1>3, <2>2, <2>3, <2>4 DEF TransferHandlers
  <1>4. CASE DepositHandlers /\ UNCHANGED <<transferVars, disbVars>>
    <2>1. UNCHANGED <<debits, shifted>>
      BY <1>4 DEF transferVars, disbVars
    <2>2. ASSUME NEW w \in Workers, FinishApproval(w) PROVE MoneyMoves
      <3>1. job[w].on \in Deposits
        BY <2>2 DEF TypeInv, JobsOK, FinishApproval, DepositSteps
      <3>2. Credited(job[w].on) \/ UNCHANGED <<nostro, va, recharged, overlapped, credits>>
        BY <2>1, <2>2 DEF FinishApproval, Credit, Credited
      <3>. QED
        BY <1>1, <2>1, <3>1, <3>2 DEF MoneyMoves
    <2>3. ASSUME NEW w \in Workers, NEW d \in Deposits, StartApproval(w, d) PROVE MoneyMoves
      BY <1>1, <2>1, <2>3 DEF StartApproval, depositVars
    <2>4. ASSUME NEW d \in Deposits, ApproveUncredited(d) \/ RejectDeposit(d)
          PROVE  MoneyMoves
      BY <1>1, <2>1, <2>4 DEF ApproveUncredited, RejectDeposit, bookVars
    <2>. QED
      BY <1>4, <2>2, <2>3, <2>4 DEF DepositHandlers
  <1>5. CASE DisbursementHandlers /\ UNCHANGED <<transferVars, depositVars>>
    <2>1. UNCHANGED <<credits, shifted>>
      BY <1>5 DEF transferVars, depositVars
    <2>2. ASSUME NEW w \in Workers, Debit(w) PROVE MoneyMoves
      <3>1. job[w].on \in Disbursements
        BY <2>2 DEF TypeInv, JobsOK, Debit, DisbSteps
      <3>2. Debited(job[w].on)
        BY <2>1, <2>2 DEF Debit, Debited
      <3>. QED
        BY <3>1, <3>2 DEF MoneyMoves
    <2>3. ASSUME NEW w \in Workers,
                 \/ \E b \in Disbursements : ReadDisbursement(w, b)
                 \/ \E p \in Principals : AuthoriseFirst(w, p) \/ AuthoriseSecond(w, p)
                 \/ CheckBalance(w) \/ CallBank(w) \/ Book(w) \/ RollBack(w)
          PROVE  MoneyMoves
      BY <1>1, <2>1, <2>3 DEF ReadDisbursement, AuthoriseFirst, AuthoriseSecond, CheckBalance,
                              CallBank, Book, RollBack, disbVars
    <2>4. ASSUME NEW b \in Disbursements, RejectDisbursement(b)
          PROVE  MoneyMoves
      BY <1>1, <2>1, <2>4 DEF RejectDisbursement, bookVars
    <2>. QED
      BY <1>5, <2>2, <2>3, <2>4 DEF DisbursementHandlers
  <1>6. CASE CrashOutside
    BY <1>1, <1>6 DEF CrashOutside, Crash, transferVars, depositVars, disbVars
  <1>7. CASE UNCHANGED vars
    BY <1>1, <1>7 DEF vars, bookVars, transferVars, depositVars, disbVars
  <1>. QED
    BY <1>2, <1>3, <1>4, <1>5, <1>6, <1>7 DEF Next, CrashOutside

-----------------------------------------------------------------------------
\* How the sums move when an entry is posted.
LEMMA DepositedMoves ==
    ASSUME TypeInv, NEW v \in Vas
    PROVE  /\ DepositedTo(v) \in Nat
           /\ \A d \in Deposits :
                 credits' = [credits EXCEPT ![d] = @ + 1]
                 => DepositedTo(v)' = DepositedTo(v)
                                      + (IF v = DepositVa[d] THEN DepositSum[d] ELSE 0)
  <1>. PICK S : S = {d \in Deposits : DepositVa[d] = v}
    OBVIOUS
  <1>. PICK g : g = [y \in Deposits |-> credits[y] * DepositSum[y]]
    OBVIOUS
  <1>1. S \subseteq Deposits /\ IsFiniteSet(S)
    BY RowsDisjoint, FS_Subset
  <1>2. credits \in [Deposits -> Nat] /\ DepositSum \in [Deposits -> Nat]
    BY DepositParameters DEF TypeInv, TypeOK, DepositsTypeOK
  <1>3. \A y \in Deposits : credits[y] \in Nat /\ DepositSum[y] \in Nat
    BY <1>2
  <1>4. \A y \in Deposits : g[y] = credits[y] * DepositSum[y] /\ g[y] \in Nat
    BY <1>3, Counted
  <1>5. DepositedTo(v) = SumFunctionOnSet(g, S)
    BY DEF DepositedTo
  <1>6. DepositedTo(v) \in Nat
    BY <1>1, <1>4, <1>5, SumNat
  <1>7. ASSUME NEW d \in Deposits, credits' = [credits EXCEPT ![d] = @ + 1]
        PROVE  DepositedTo(v)' = DepositedTo(v)
                                 + (IF v = DepositVa[d] THEN DepositSum[d] ELSE 0)
    <2>. PICK h : h = [y \in Deposits |-> credits'[y] * DepositSum[y]]
      OBVIOUS
    <2>1. DepositedTo(v)' = SumFunctionOnSet(h, S)
      BY DEF DepositedTo
    <2>2. \A y \in Deposits : credits'[y] = IF y = d THEN credits[y] + 1 ELSE credits[y]
      BY <1>2, <1>7
    <2>3. \A y \in Deposits : h[y] = g[y] + (IF y = d THEN DepositSum[d] ELSE 0)
      BY <1>3, <1>4, <2>2, Counted
    <2>4. SumFunctionOnSet(h, S)
          = SumFunctionOnSet(g, S) + (IF d \in S THEN DepositSum[d] ELSE 0)
      <3>0. IsFiniteSet(S)
        BY <1>1
      <3>1. \A y \in S : g[y] \in Int
        BY <1>1, <1>4
      <3>2. \A y \in S : h[y] = g[y] + (IF y = d THEN DepositSum[d] ELSE 0)
        BY <1>1, <2>3
      <3>3. DepositSum[d] \in Int
        BY <1>3
      <3>. QED
        BY ONLY <3>0, <3>1, <3>2, <3>3, SumMoved, ZenonT(60)
    <2>. QED
      BY <1>5, <2>1, <2>4
  <1>. QED
    BY <1>6, <1>7

LEMMA DisbursedMoves ==
    ASSUME TypeInv, NEW v \in Vas
    PROVE  /\ DisbursedFrom(v) \in Nat
           /\ \A b \in Disbursements :
                 debits' = [debits EXCEPT ![b] = @ + 1]
                 => DisbursedFrom(v)' = DisbursedFrom(v)
                                        + (IF v = AgentAccount THEN PayoutSum[b] ELSE 0)
  <1>. PICK g : g = [y \in Disbursements |-> debits[y] * PayoutSum[y]]
    OBVIOUS
  <1>1. IsFiniteSet(Disbursements)
    BY RowsDisjoint
  <1>2. debits \in [Disbursements -> Nat] /\ PayoutSum \in [Disbursements -> Nat]
    BY DisbursementParameters DEF TypeInv, TypeOK, DisbursementsTypeOK
  <1>3. \A y \in Disbursements : debits[y] \in Nat /\ PayoutSum[y] \in Nat
    BY <1>2
  <1>4. \A y \in Disbursements : g[y] = debits[y] * PayoutSum[y] /\ g[y] \in Nat
    BY <1>3, Counted
  <1>5. DisbursedFrom(v) = (IF v = AgentAccount THEN SumFunctionOnSet(g, Disbursements) ELSE 0)
    BY DEF DisbursedFrom, SumFunction
  <1>6. DisbursedFrom(v) \in Nat
    BY <1>1, <1>4, <1>5, SumNat
  <1>7. ASSUME NEW b \in Disbursements, debits' = [debits EXCEPT ![b] = @ + 1]
        PROVE  DisbursedFrom(v)' = DisbursedFrom(v)
                                   + (IF v = AgentAccount THEN PayoutSum[b] ELSE 0)
    <2>. PICK h : h = [y \in Disbursements |-> debits'[y] * PayoutSum[y]]
      OBVIOUS
    <2>1. DisbursedFrom(v)' = (IF v = AgentAccount THEN SumFunctionOnSet(h, Disbursements) ELSE 0)
      BY DEF DisbursedFrom, SumFunction
    <2>2. \A y \in Disbursements : debits'[y] = IF y = b THEN debits[y] + 1 ELSE debits[y]
      BY <1>2, <1>7
    <2>3. \A y \in Disbursements : h[y] = g[y] + (IF y = b THEN PayoutSum[b] ELSE 0)
      BY <1>3, <1>4, <2>2, Counted
    <2>. PICK S : S = Disbursements
      OBVIOUS
    <2>4. SumFunctionOnSet(h, S)
          = SumFunctionOnSet(g, S) + (IF b \in S THEN PayoutSum[b] ELSE 0)
      <3>0. IsFiniteSet(S)
        BY <1>1
      <3>1. \A y \in S : g[y] \in Int
        BY <1>4
      <3>2. \A y \in S : h[y] = g[y] + (IF y = b THEN PayoutSum[b] ELSE 0)
        BY <2>3
      <3>3. PayoutSum[b] \in Int
        BY <1>3
      <3>. QED
        BY ONLY <3>0, <3>1, <3>2, <3>3, SumMoved, ZenonT(60)
    <2>. QED
      BY <1>5, <2>1, <2>4
  <1>. QED
    BY <1>6, <1>7

LEMMA TransferTotalsMove ==
    ASSUME TypeInv, NEW S, S \subseteq Transfers
    PROVE  /\ SumFunctionOnSet(TransferTotals, S) \in Int
           /\ \A t \in Transfers :
                 shifted' = [shifted EXCEPT ![t] = @ + 1]
                 => SumFunctionOnSet(TransferTotals', S)
                    = SumFunctionOnSet(TransferTotals, S)
                      + (IF t \in S THEN TransferSum[t] ELSE 0)
  <1>. PICK g : g = TransferTotals
    OBVIOUS
  <1>1. IsFiniteSet(S)
    BY RowsDisjoint, FS_Subset
  <1>2. shifted \in [Transfers -> Nat] /\ TransferSum \in [Transfers -> Int]
    BY TransferParameters DEF TypeInv, TypeOK, TransfersTypeOK
  <1>3. \A y \in Transfers : shifted[y] \in Nat /\ TransferSum[y] \in Int
    BY <1>2
  <1>4. \A y \in Transfers : g[y] = shifted[y] * TransferSum[y] /\ g[y] \in Int
    BY <1>3, Counted DEF TransferTotals
  <1>5. SumFunctionOnSet(g, S) \in Int
    BY <1>1, <1>4, SumInt
  <1>6. ASSUME NEW t \in Transfers, shifted' = [shifted EXCEPT ![t] = @ + 1]
        PROVE  SumFunctionOnSet(TransferTotals', S)
               = SumFunctionOnSet(TransferTotals, S) + (IF t \in S THEN TransferSum[t] ELSE 0)
    <2>. PICK h : h = TransferTotals'
      OBVIOUS
    <2>1. \A y \in Transfers : h[y] = shifted'[y] * TransferSum[y]
      BY DEF TransferTotals
    <2>2. \A y \in Transfers : shifted'[y] = IF y = t THEN shifted[y] + 1 ELSE shifted[y]
      BY <1>2, <1>6
    <2>3. \A y \in Transfers : h[y] = g[y] + (IF y = t THEN TransferSum[t] ELSE 0)
      BY <1>3, <1>4, <2>1, <2>2, Counted
    <2>4. SumFunctionOnSet(h, S)
          = SumFunctionOnSet(g, S) + (IF t \in S THEN TransferSum[t] ELSE 0)
      <3>0. IsFiniteSet(S)
        BY <1>1
      <3>1. \A y \in S : g[y] \in Int
        BY <1>1, <1>4
      <3>2. \A y \in S : h[y] = g[y] + (IF y = t THEN TransferSum[t] ELSE 0)
        BY <1>1, <2>3
      <3>3. TransferSum[t] \in Int
        BY <1>3
      <3>. QED
        BY ONLY <3>0, <3>1, <3>2, <3>3, SumMoved, ZenonT(60)
    <2>. QED
      BY <2>4
  <1>. QED
    BY <1>5, <1>6

\* An entry on virtual account u moves the sum under u's master account only.
Posted(v) == DepositedTo(v) - DisbursedFrom(v)

LEMMA PostedTyped ==
    ASSUME TypeInv, NEW a \in Accounts
    PROVE  PostedUnder(a) \in Int /\ \A v \in Vas : Posted(v) \in Int
  <1>. PICK S : S = {v \in Vas : Master[v] = a}
    OBVIOUS
  <1>. PICK g : g = [v \in Vas |-> Posted(v)]
    OBVIOUS
  <1>1. S \subseteq Vas /\ IsFiniteSet(S)
    BY RowsDisjoint, FS_Subset
  <1>2. \A v \in Vas : Posted(v) \in Int
    BY DepositedMoves, DisbursedMoves DEF Posted
  <1>3. \A v \in S : g[v] \in Int
    BY <1>1, <1>2
  <1>4. SumFunctionOnSet(g, S) \in Int
    BY <1>1, <1>3, SumInt
  <1>. QED
    BY <1>2, <1>4 DEF PostedUnder, Posted

LEMMA PostedMoves ==
    ASSUME TypeInv, NEW u \in Vas, NEW n \in Int, NEW a \in Accounts,
           \A v \in Vas : Posted(v)' = Posted(v) + (IF v = u THEN n ELSE 0)
    PROVE  PostedUnder(a)' = PostedUnder(a) + (IF Master[u] = a THEN n ELSE 0)
  <1>. PICK S : S = {v \in Vas : Master[v] = a}
    OBVIOUS
  <1>. PICK g : g = [v \in Vas |-> Posted(v)]
    OBVIOUS
  <1>. PICK h : h = [v \in Vas |-> Posted(v)']
    OBVIOUS
  <1>1. S \subseteq Vas /\ IsFiniteSet(S)
    BY RowsDisjoint, FS_Subset
  <1>2. \A v \in Vas : Posted(v) \in Int
    BY PostedTyped
  <1>. HIDE DEF Posted
  <1>3. \A v \in S : g[v] \in Int /\ h[v] \in Int
    BY <1>1, <1>2
  <1>4. \A v \in S : v # u => g[v] = h[v]
    BY <1>1, <1>2
  <1>5. h[u] = g[u] + n /\ g[u] \in Int
    BY <1>2
  <1>6. PostedUnder(a) = SumFunctionOnSet(g, S) /\ PostedUnder(a)' = SumFunctionOnSet(h, S)
    BY DEF PostedUnder, Posted
  <1>7. PostedUnder(a) \in Int
    BY PostedTyped
  <1>8. CASE u \in S
    <2>1. SumFunctionOnSet(h, S) = SumFunctionOnSet(g, S) - g[u] + h[u]
      BY <1>1, <1>3, <1>4, <1>8, SumChange
    <2>. QED
      BY <1>5, <1>6, <1>7, <1>8, <2>1
  <1>9. CASE u \notin S
    <2>1. \A v \in S : g[v] = h[v]
      BY <1>4, <1>9
    <2>2. SumFunctionOnSet(g, S) = SumFunctionOnSet(h, S)
      BY ONLY <1>1, <2>1, SumSame, Zenon
    <2>. QED
      BY <1>6, <1>7, <1>9, <2>2
  <1>. QED
    BY <1>8, <1>9

-----------------------------------------------------------------------------
\* Sums over rows no entry was posted for stay.
LEMMA DepositedKept ==
    ASSUME credits' = credits, NEW v \in Vas
    PROVE  DepositedTo(v)' = DepositedTo(v)
  BY DEF DepositedTo

LEMMA DisbursedKept ==
    ASSUME debits' = debits, NEW v \in Vas
    PROVE  DisbursedFrom(v)' = DisbursedFrom(v)
  BY DEF DisbursedFrom

LEMMA TransferredKept ==
    ASSUME shifted' = shifted
    PROVE  TransferTotals' = TransferTotals
  BY DEF TransferTotals

LEMMA PostedKept ==
    ASSUME credits' = credits, debits' = debits, NEW a \in Accounts
    PROVE  PostedUnder(a)' = PostedUnder(a)
  <1>. PICK g : g = [v \in Vas |-> DepositedTo(v) - DisbursedFrom(v)]
    OBVIOUS
  <1>. PICK h : h = [v \in Vas |-> DepositedTo(v)' - DisbursedFrom(v)']
    OBVIOUS
  <1>1. g = h
    BY DepositedKept, DisbursedKept
  <1>2. /\ PostedUnder(a) = SumFunctionOnSet(g, {v \in Vas : Master[v] = a})
        /\ PostedUnder(a)' = SumFunctionOnSet(h, {v \in Vas : Master[v] = a})
    BY DEF PostedUnder
  <1>. QED
    BY <1>1, <1>2

\* What a transfer does.
LEMMA TransferPosted ==
    ASSUME TypeInv, NEW t \in Transfers, Transferred(t)
    PROVE  \A a \in Accounts :
              nostro'[a].balance = nostro[a].balance - (IF From[t] = a THEN TransferSum[t] ELSE 0)
                                                     + (IF To[t] = a THEN TransferSum[t] ELSE 0)
  <1>1. /\ nostro \in [Accounts -> NostroRow]
        /\ TransferSum[t] \in Int
    BY TransferParameters DEF TypeInv, TypeOK, BooksTypeOK
  <1>. QED
    BY <1>1, BalancesShift DEF Transferred

-----------------------------------------------------------------------------
LEMMA InitVa == Init => VaExplained
  <1>1. SUFFICES ASSUME Init, NEW v \in Vas
                 PROVE  va[v].ledger + DisbursedFrom(v) = Opening[v] + DepositedTo(v)
    BY DEF VaExplained
  <1>. USE <1>1
  <1>2. va[v].ledger = Opening[v]
    BY DEF Init, BooksInit
  <1>3. DepositedTo(v) = 0
    <2>. PICK S : S = {d \in Deposits : DepositVa[d] = v}
      OBVIOUS
    <2>. PICK g : g = [d \in Deposits |-> credits[d] * DepositSum[d]]
      OBVIOUS
    <2>1. S \subseteq Deposits /\ IsFiniteSet(S)
      BY RowsDisjoint, FS_Subset
    <2>2. \A d \in Deposits : credits[d] = 0 /\ DepositSum[d] \in Nat
      BY DepositParameters DEF Init, DepositsInit
    <2>3. \A d \in S : g[d] = 0
      BY <2>1, <2>2
    <2>4. DepositedTo(v) = SumFunctionOnSet(g, S)
      BY DEF DepositedTo
    <2>. QED
      BY <2>1, <2>3, <2>4, SumZero
  <1>4. DisbursedFrom(v) = 0
    <2>. PICK g : g = [b \in Disbursements |-> debits[b] * PayoutSum[b]]
      OBVIOUS
    <2>1. \A b \in Disbursements : debits[b] = 0 /\ PayoutSum[b] \in Nat
      BY DisbursementParameters DEF Init, DisbursementsInit
    <2>2. \A b \in Disbursements : g[b] = 0
      BY <2>1
    <2>3. DisbursedFrom(v) = IF v = AgentAccount THEN SumFunctionOnSet(g, Disbursements) ELSE 0
      BY DEF DisbursedFrom, SumFunction
    <2>. QED
      BY <2>2, <2>3, RowsDisjoint, SumZero
  <1>5. Opening[v] \in Nat
    BY BooksParameters
  <1>. QED
    BY <1>2, <1>3, <1>4, <1>5

LEMMA VaStep ==
    ASSUME TypeInv, VaExplained, [Next]_vars
    PROVE  VaExplained'
  <1>1. SUFFICES ASSUME NEW v \in Vas, v \notin overlapped'
                 PROVE  va'[v].ledger + DisbursedFrom(v)' = Opening[v] + DepositedTo(v)'
    BY DEF VaExplained
  <1>. USE <1>1
  <1>2. /\ va[v].ledger \in Nat /\ DisbursedFrom(v) \in Nat
        /\ Opening[v] \in Nat /\ DepositedTo(v) \in Nat
    BY BooksParameters, DisbursedMoves, DepositedMoves DEF TypeInv, TypeOK, BooksTypeOK, VaRow
  <1>3. v \notin overlapped
        => va[v].ledger + DisbursedFrom(v) = Opening[v] + DepositedTo(v)
    BY DEF VaExplained
  <1>4. CASE Quiet
    <2>1. v \notin overlapped /\ va'[v].ledger = va[v].ledger
      BY <1>4 DEF Quiet
    <2>2. DepositedTo(v)' = DepositedTo(v) /\ DisbursedFrom(v)' = DisbursedFrom(v)
      BY <1>4, DepositedKept, DisbursedKept DEF Quiet
    <2>. QED
      BY <1>3, <2>1, <2>2
  <1>5. ASSUME NEW t \in Transfers, Transferred(t)
        PROVE  va'[v].ledger + DisbursedFrom(v)' = Opening[v] + DepositedTo(v)'
    <2>1. v \notin overlapped /\ va'[v].ledger = va[v].ledger
      BY <1>5 DEF Transferred
    <2>2. DepositedTo(v)' = DepositedTo(v) /\ DisbursedFrom(v)' = DisbursedFrom(v)
      BY <1>5, DepositedKept, DisbursedKept DEF Transferred
    <2>. QED
      BY <1>3, <2>1, <2>2
  <1>6. ASSUME NEW d \in Deposits, Credited(d)
        PROVE  va'[v].ledger + DisbursedFrom(v)' = Opening[v] + DepositedTo(v)'
    <2>1. v \notin overlapped /\ DisbursedFrom(v)' = DisbursedFrom(v)
      BY <1>6, DisbursedKept DEF Credited
    <2>2. DepositVa[d] \in Vas /\ DepositSum[d] \in Nat
      BY DepositParameters
    <2>3. va'[v].ledger = va[v].ledger + (IF v = DepositVa[d] THEN DepositSum[d] ELSE 0)
      BY <1>6, <2>2, VaPosted DEF Credited
    <2>4. DepositedTo(v)' = DepositedTo(v) + (IF v = DepositVa[d] THEN DepositSum[d] ELSE 0)
      BY <1>6, DepositedMoves DEF Credited
    <2>. QED
      BY <1>2, <1>3, <2>1, <2>2, <2>3, <2>4
  <1>7. ASSUME NEW b \in Disbursements, Debited(b)
        PROVE  va'[v].ledger + DisbursedFrom(v)' = Opening[v] + DepositedTo(v)'
    <2>1. v \notin overlapped /\ DepositedTo(v)' = DepositedTo(v)
      BY <1>7, DepositedKept DEF Debited
    <2>2. AgentAccount \in Vas /\ PayoutSum[b] \in Nat /\ 0 - PayoutSum[b] \in Int
      BY DisbursementParameters
    <2>3. va'[v].ledger = va[v].ledger + (IF v = AgentAccount THEN 0 - PayoutSum[b] ELSE 0)
      BY <1>7, <2>2, VaPosted DEF Debited
    <2>4. DisbursedFrom(v)' = DisbursedFrom(v) + (IF v = AgentAccount THEN PayoutSum[b] ELSE 0)
      BY <1>7, DisbursedMoves DEF Debited
    <2>. QED
      BY <1>2, <1>3, <2>1, <2>2, <2>3, <2>4
  <1>. QED
    BY <1>4, <1>5, <1>6, <1>7, MoneyStep DEF MoneyMoves

\* The balance of a virtual account is what its entries add up to, whatever
\* handlers overlap, as long as no generic save wrote an older balance back:
\* post_va_entry changes the balance and posts the entry under one lock.
THEOREM VaBalances == Spec => []VaExplained
  <1>. DEFINE Inv == TypeInv /\ VaExplained
  <1>1. Init => Inv
    BY InitTyped, InitVa
  <1>2. Inv /\ [Next]_vars => Inv'
    BY StepTyped, VaStep
  <1>3. Inv => VaExplained
    OBVIOUS
  <1>. QED
    BY <1>1, <1>2, <1>3, PTL DEF Spec

-----------------------------------------------------------------------------
\* The same for the transfers of one account.
LEMMA TransfersOfAccount ==
    ASSUME TypeInv, NEW a \in Accounts
    PROVE  /\ TransferredFrom(a) \in Int /\ TransferredTo(a) \in Int
           /\ shifted' = shifted => /\ TransferredFrom(a)' = TransferredFrom(a)
                                    /\ TransferredTo(a)' = TransferredTo(a)
           /\ \A t \in Transfers :
                 shifted' = [shifted EXCEPT ![t] = @ + 1]
                 => /\ TransferredFrom(a)' = TransferredFrom(a)
                                             + (IF From[t] = a THEN TransferSum[t] ELSE 0)
                    /\ TransferredTo(a)' = TransferredTo(a)
                                           + (IF To[t] = a THEN TransferSum[t] ELSE 0)
  <1>. PICK S : S = {t \in Transfers : From[t] = a}
    OBVIOUS
  <1>. PICK T : T = {t \in Transfers : To[t] = a}
    OBVIOUS
  <1>1. /\ TransferredFrom(a) = SumFunctionOnSet(TransferTotals, S)
        /\ TransferredTo(a) = SumFunctionOnSet(TransferTotals, T)
        /\ TransferredFrom(a)' = SumFunctionOnSet(TransferTotals', S)
        /\ TransferredTo(a)' = SumFunctionOnSet(TransferTotals', T)
    BY DEF TransferredFrom, TransferredTo
  <1>2. shifted' = shifted => /\ TransferredFrom(a)' = TransferredFrom(a)
                              /\ TransferredTo(a)' = TransferredTo(a)
    BY <1>1, TransferredKept
  <1>3. ASSUME NEW t \in Transfers, shifted' = [shifted EXCEPT ![t] = @ + 1]
        PROVE  /\ SumFunctionOnSet(TransferTotals', S)
                  = SumFunctionOnSet(TransferTotals, S) + (IF t \in S THEN TransferSum[t] ELSE 0)
               /\ SumFunctionOnSet(TransferTotals', T)
                  = SumFunctionOnSet(TransferTotals, T) + (IF t \in T THEN TransferSum[t] ELSE 0)
    BY <1>3, TransferTotalsMove
  <1>4. SumFunctionOnSet(TransferTotals, S) \in Int /\ SumFunctionOnSet(TransferTotals, T) \in Int
    BY TransferTotalsMove
  <1>. QED
    BY <1>1, <1>2, <1>3, <1>4

LEMMA InitPool == Init => PoolExplained
  <1>1. SUFFICES ASSUME Init, NEW a \in Accounts
                 PROVE  nostro[a].balance + TransferredFrom(a)
                        = Opening[a] + recharged[a] + TransferredTo(a) + PostedUnder(a)
    BY DEF PoolExplained
  <1>. USE <1>1
  <1>2. nostro[a].balance = Opening[a] /\ recharged[a] = 0
    BY DEF Init, BooksInit
  <1>3. TransferredFrom(a) = 0 /\ TransferredTo(a) = 0
    <2>. PICK g : g = TransferTotals
      OBVIOUS
    <2>1. \A t \in Transfers : shifted[t] = 0 /\ TransferSum[t] \in Int
      BY TransferParameters DEF Init, TransfersInit
    <2>2. \A t \in Transfers : g[t] = 0
      BY <2>1 DEF TransferTotals
    <2>3. ASSUME NEW S, S \subseteq Transfers
          PROVE  SumFunctionOnSet(g, S) = 0
      <3>1. IsFiniteSet(S)
        BY <2>3, RowsDisjoint, FS_Subset
      <3>. QED
        BY <2>2, <2>3, <3>1, SumZero
    <2>. QED
      BY <2>3 DEF TransferredFrom, TransferredTo
  <1>4. PostedUnder(a) = 0
    <2>. PICK g : g = [v \in Vas |-> DepositedTo(v) - DisbursedFrom(v)]
      OBVIOUS
    <2>. PICK S : S = {v \in Vas : Master[v] = a}
      OBVIOUS
    <2>1. S \subseteq Vas /\ IsFiniteSet(S)
      BY RowsDisjoint, FS_Subset
    <2>2. ASSUME NEW v \in Vas
          PROVE  DepositedTo(v) - DisbursedFrom(v) = 0
      <3>1. va[v].ledger = Opening[v] /\ overlapped = {} /\ Opening[v] \in Nat
        BY BooksParameters DEF Init, BooksInit
      <3>2. va[v].ledger + DisbursedFrom(v) = Opening[v] + DepositedTo(v)
        BY <3>1, InitVa DEF VaExplained
      <3>3. DepositedTo(v) \in Nat /\ DisbursedFrom(v) \in Nat
        BY InitTyped, DepositedMoves, DisbursedMoves
      <3>. QED
        BY <3>1, <3>2, <3>3
    <2>3. \A v \in S : g[v] = 0
      BY <2>1, <2>2
    <2>4. PostedUnder(a) = SumFunctionOnSet(g, S)
      BY DEF PostedUnder
    <2>. QED
      BY <2>1, <2>3, <2>4, SumZero
  <1>5. Opening[a] \in Nat
    BY BooksParameters
  <1>. QED
    BY <1>2, <1>3, <1>4, <1>5

LEMMA PoolStep ==
    ASSUME TypeInv, PoolExplained, [Next]_vars
    PROVE  PoolExplained'
  <1>1. SUFFICES ASSUME NEW a \in Accounts, a \notin overlapped'
                 PROVE  nostro'[a].balance + TransferredFrom(a)'
                        = Opening[a] + recharged'[a] + TransferredTo(a)' + PostedUnder(a)'
    BY DEF PoolExplained
  <1>. USE <1>1
  <1>. DEFINE Goal == nostro'[a].balance + TransferredFrom(a)'
                      = Opening[a] + recharged'[a] + TransferredTo(a)' + PostedUnder(a)'
  <1>2. /\ nostro[a].balance \in Int /\ recharged[a] \in Nat /\ Opening[a] \in Nat
        /\ TransferredFrom(a) \in Int /\ TransferredTo(a) \in Int /\ PostedUnder(a) \in Int
    BY BooksParameters, TransfersOfAccount, PostedTyped
       DEF TypeInv, TypeOK, BooksTypeOK, NostroRow
  <1>3. a \notin overlapped
        => nostro[a].balance + TransferredFrom(a)
           = Opening[a] + recharged[a] + TransferredTo(a) + PostedUnder(a)
    BY DEF PoolExplained
  <1>4. CASE Quiet
    <2>1. /\ a \notin overlapped
          /\ nostro'[a].balance - recharged'[a] = nostro[a].balance - recharged[a]
      BY <1>4 DEF Quiet
    <2>2. nostro'[a].balance \in Int /\ recharged'[a] \in Nat
      <3>1. TypeInv'
        BY StepTyped
      <3>. QED
        BY <3>1 DEF TypeInv, TypeOK, BooksTypeOK, NostroRow
    <2>3. TransferredFrom(a)' = TransferredFrom(a) /\ TransferredTo(a)' = TransferredTo(a)
      BY <1>4, TransfersOfAccount DEF Quiet
    <2>4. PostedUnder(a)' = PostedUnder(a)
      BY <1>4, PostedKept DEF Quiet
    <2>5. nostro'[a].balance = nostro[a].balance + (recharged'[a] - recharged[a])
      BY <1>2, <2>1, <2>2
    <2>6. nostro[a].balance + TransferredFrom(a)
          = Opening[a] + recharged[a] + TransferredTo(a) + PostedUnder(a)
      BY <1>3, <2>1
    <2>7. nostro'[a].balance + TransferredFrom(a)
          = Opening[a] + recharged'[a] + TransferredTo(a) + PostedUnder(a)
      BY <1>2, <2>2, <2>5, <2>6
    <2>. QED
      BY <2>3, <2>4, <2>7
  <1>5. ASSUME NEW t \in Transfers, Transferred(t)
        PROVE  Goal
    <2>1. a \notin overlapped /\ recharged'[a] = recharged[a]
      BY <1>5 DEF Transferred
    <2>2. nostro'[a].balance = nostro[a].balance
                               - (IF From[t] = a THEN TransferSum[t] ELSE 0)
                               + (IF To[t] = a THEN TransferSum[t] ELSE 0)
      BY <1>5, TransferPosted
    <2>3. /\ TransferredFrom(a)' = TransferredFrom(a)
                                   + (IF From[t] = a THEN TransferSum[t] ELSE 0)
          /\ TransferredTo(a)' = TransferredTo(a)
                                 + (IF To[t] = a THEN TransferSum[t] ELSE 0)
      BY <1>5, TransfersOfAccount DEF Transferred
    <2>4. PostedUnder(a)' = PostedUnder(a)
      BY <1>5, PostedKept DEF Transferred
    <2>5. TransferSum[t] \in Int
      BY TransferParameters
    <2>6. nostro[a].balance + TransferredFrom(a)
          = Opening[a] + recharged[a] + TransferredTo(a) + PostedUnder(a)
      BY <1>3, <2>1
    <2>. PICK x \in Int : x = IF From[t] = a THEN TransferSum[t] ELSE 0
      BY <2>5
    <2>. PICK y \in Int : y = IF To[t] = a THEN TransferSum[t] ELSE 0
      BY <2>5
    <2>7. (nostro[a].balance - x + y) + (TransferredFrom(a) + x)
          = Opening[a] + recharged[a] + (TransferredTo(a) + y) + PostedUnder(a)
      BY <1>2, <2>6
    <2>. QED
      BY <2>1, <2>2, <2>3, <2>4, <2>7
  <1>6. ASSUME NEW d \in Deposits, Credited(d)
        PROVE  Goal
    <2>1. a \notin overlapped /\ recharged'[a] = recharged[a]
      BY <1>6 DEF Credited
    <2>2. DepositVa[d] \in Vas /\ DepositSum[d] \in Nat
      BY DepositParameters
    <2>3. nostro'[a].balance = nostro[a].balance
                               + (IF Master[DepositVa[d]] = a THEN DepositSum[d] ELSE 0)
      BY <1>6, <2>2, VaPosted DEF Credited
    <2>4. TransferredFrom(a)' = TransferredFrom(a) /\ TransferredTo(a)' = TransferredTo(a)
      BY <1>6, TransfersOfAccount DEF Credited
    <2>5. \A v \in Vas : Posted(v)' = Posted(v)
                                      + (IF v = DepositVa[d] THEN DepositSum[d] ELSE 0)
      <3>1. ASSUME NEW v \in Vas
            PROVE  /\ DisbursedFrom(v)' = DisbursedFrom(v)
                   /\ DepositedTo(v)' = DepositedTo(v)
                                        + (IF v = DepositVa[d] THEN DepositSum[d] ELSE 0)
                   /\ DisbursedFrom(v) \in Nat /\ DepositedTo(v) \in Nat
        BY <1>6, DisbursedKept, DepositedMoves, DisbursedMoves DEF Credited
      <3>. QED
        BY <2>2, <3>1 DEF Posted
    <2>6. PostedUnder(a)' = PostedUnder(a)
                            + (IF Master[DepositVa[d]] = a THEN DepositSum[d] ELSE 0)
      BY <2>2, <2>5, PostedMoves
    <2>. QED
      BY <1>2, <1>3, <2>1, <2>2, <2>3, <2>4, <2>6
  <1>7. ASSUME NEW b \in Disbursements, Debited(b)
        PROVE  Goal
    <2>. PICK n \in Int : n = 0 - PayoutSum[b]
      BY DisbursementParameters
    <2>1. a \notin overlapped /\ recharged'[a] = recharged[a]
      BY <1>7 DEF Debited
    <2>2. AgentAccount \in Vas /\ PayoutSum[b] \in Nat
      BY DisbursementParameters
    <2>3. nostro'[a].balance = nostro[a].balance + (IF Master[AgentAccount] = a THEN n ELSE 0)
      BY <1>7, <2>2, VaPosted DEF Debited
    <2>4. TransferredFrom(a)' = TransferredFrom(a) /\ TransferredTo(a)' = TransferredTo(a)
      BY <1>7, TransfersOfAccount DEF Debited
    <2>5. \A v \in Vas : Posted(v)' = Posted(v) + (IF v = AgentAccount THEN n ELSE 0)
      <3>1. ASSUME NEW v \in Vas
            PROVE  /\ DepositedTo(v)' = DepositedTo(v)
                   /\ DisbursedFrom(v)' = DisbursedFrom(v)
                                          + (IF v = AgentAccount THEN PayoutSum[b] ELSE 0)
                   /\ DisbursedFrom(v) \in Nat /\ DepositedTo(v) \in Nat
        BY <1>7, DepositedKept, DepositedMoves, DisbursedMoves DEF Debited
      <3>. QED
        BY <2>2, <3>1 DEF Posted
    <2>6. PostedUnder(a)' = PostedUnder(a) + (IF Master[AgentAccount] = a THEN n ELSE 0)
      BY <2>2, <2>5, PostedMoves
    <2>. QED
      BY <1>2, <1>3, <2>1, <2>2, <2>3, <2>4, <2>6
  <1>. QED
    BY <1>4, <1>5, <1>6, <1>7, MoneyStep DEF MoneyMoves

\* A nostro account holds its opening balance, what was recharged, and what
\* transfers and the entries of its virtual accounts moved, as long as no
\* recharge or generic save wrote an older balance back.
THEOREM PoolBalances == Spec => []PoolExplained
  <1>. DEFINE Inv == TypeInv /\ PoolExplained
  <1>1. Init => Inv
    BY InitTyped, InitPool
  <1>2. Inv /\ [Next]_vars => Inv'
    BY StepTyped, PoolStep
  <1>3. Inv => PoolExplained
    OBVIOUS
  <1>. QED
    BY <1>1, <1>2, <1>3, PTL DEF Spec
=============================================================================
