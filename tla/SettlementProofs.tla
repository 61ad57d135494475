-------------------------- MODULE SettlementProofs --------------------------
(***************************************************************************)
(* Settlement, for any orders, books, runs of the job and operators: an    *)
(* order is in one batch, is settled only after its payout, is paid at     *)
(* most once by each process, and is not overlooked.                       *)
(***************************************************************************)
EXTENDS Settlement, TLAPS

\* What a process inside distribute names, and what a run still has to do.
OnBatch ==
    \A p \in Processes : payout[p].at # "idle" =>
        /\ payout[p].run \in Runs
        /\ payout[p].book \in Books
        /\ batch[payout[p].run][payout[p].book].status # "NONE"
        /\ p \in Runs => payout[p].run = p /\ payout[p].book \notin job[p].todo

TodoMade ==
    \A j \in Runs : \A b \in job[j].todo : batch[j][b].status # "NONE"

\* Before its transaction commits, a run has no batches.
NotYetMade ==
    \A j \in Runs : job[j].at \in {"new", "screen", "create"} =>
        \A b \in Books : batch[j][b].status = "NONE"

NoneEmpty ==
    \A j \in Runs, b \in Books : batch[j][b].status = "NONE" => batch[j][b].orders = {}

MadeInv == TypeOK /\ OnBatch /\ TodoMade /\ NotYetMade /\ NoneEmpty

-----------------------------------------------------------------------------
LEMMA Dates == 2 \in Days /\ 0 \in Days /\ MaxDay \in Nat /\ 2 \in 2 .. MaxDay
  BY SettlementParameters DEF Days

LEMMA InitMade == Init => MadeInv
  <1>. SUFFICES ASSUME Init PROVE MadeInv
    OBVIOUS
  <1>1. order \in [Orders -> OrderRow]
    BY Dates DEF Init, OrderRow
  <1>2. batch \in [Runs -> [Books -> BatchRow]]
    BY DEF Init, BatchRow
  <1>3. job \in [Runs -> JobState]
    BY Dates DEF Init, JobState
  <1>4. payout \in [Processes -> PayoutState]
    BY DEF Init, PayoutState, Idle
  <1>5. transfers \in [Runs -> [Books -> [Processes -> Nat]]]
    BY DEF Init
  <1>6. TypeOK
    BY <1>1, <1>2, <1>3, <1>4, <1>5, Dates DEF Init, TypeOK
  <1>7. OnBatch /\ TodoMade /\ NotYetMade /\ NoneEmpty
    BY DEF Init, OnBatch, TodoMade, NotYetMade, NoneEmpty, Idle
  <1>. QED
    BY <1>6, <1>7 DEF MadeInv

\* The ways a row of each table is written.
LEMMA OrderTyped ==
    ASSUME TypeOK, NEW o \in Orders
    PROVE  /\ Receive(o) => order' \in [Orders -> OrderRow]
           /\ ConfirmTransfer(o) => order' \in [Orders -> OrderRow]
           /\ Refunding(o) => order' \in [Orders -> OrderRow] /\ refunds' \subseteq Orders
  <1>. today \in Days /\ order \in [Orders -> OrderRow] /\ order[o] \in OrderRow
    BY Dates DEF TypeOK, Days
  <1>1. /\ [order[o] EXCEPT !.status = "PAY_RECEIVED", !.receivedOn = today] \in OrderRow
        /\ [order[o] EXCEPT !.status = "PENDING_SETTLE", !.confirmedOn = today] \in OrderRow
    BY DEF OrderRow
  <1>2. ASSUME Refunding(o)
        PROVE  order' \in [Orders -> OrderRow] /\ refunds' \subseteq Orders
    <2>1. LastInHistory(o) \in {"PENDING_PAY", "PAY_RECEIVED", "PENDING_SETTLE"}
      BY DEF LastInHistory
    <2>2. PICK s \in {"REFUNDING", "REFUNDED", "PENDING_PAY", "PAY_RECEIVED",
                      "PENDING_SETTLE"} :
             order' = [order EXCEPT ![o].status = s]
      BY <1>2, <2>1 DEF Refunding, RequestRefund, RejectRefund, CompleteRefund
    <2>3. [order[o] EXCEPT !.status = s] \in OrderRow
      BY DEF OrderRow
    <2>4. refunds' \subseteq Orders
      BY <1>2 DEF Refunding, RequestRefund, RejectRefund, CompleteRefund, TypeOK
    <2>. QED
      BY <2>2, <2>3, <2>4
  <1>. QED
    BY <1>1, <1>2 DEF Receive, ConfirmTransfer

LEMMA StatusTyped ==
    ASSUME MadeInv, NEW p \in Processes, payout[p].at # "idle",
           NEW s \in {"PROCESSING", "SETTLED", "FAILED"}, SetStatus(p, s)
    PROVE  /\ batch' \in [Runs -> [Books -> BatchRow]]
           /\ payout[p].run \in Runs /\ payout[p].book \in Books
           /\ \A j \in Runs, b \in Books :
                 /\ batch'[j][b].orders = batch[j][b].orders
                 /\ batch'[j][b].status =
                       IF j = payout[p].run /\ b = payout[p].book THEN s
                       ELSE batch[j][b].status
  <1>1. payout[p].run \in Runs /\ payout[p].book \in Books
    BY DEF MadeInv, OnBatch
  <1>. DEFINE r == payout[p].run
              c == payout[p].book
  <1>2. batch \in [Runs -> [Books -> BatchRow]] /\ batch[r] \in [Books -> BatchRow]
        /\ batch[r][c] \in BatchRow
    BY <1>1 DEF MadeInv, TypeOK
  <1>3. [batch[r][c] EXCEPT !.status = s] \in BatchRow
    BY <1>2 DEF BatchRow
  <1>4. batch' = [batch EXCEPT ![r] = [batch[r] EXCEPT ![c] = [batch[r][c] EXCEPT !.status = s]]]
    BY <1>1, <1>2 DEF SetStatus
  <1>5. batch' \in [Runs -> [Books -> BatchRow]]
    BY <1>1, <1>2, <1>3, <1>4
  <1>6. ASSUME NEW j \in Runs, NEW b \in Books
        PROVE  /\ batch'[j][b].orders = batch[j][b].orders
               /\ batch'[j][b].status = IF j = r /\ b = c THEN s ELSE batch[j][b].status
    <2>1. batch[j][b] \in BatchRow
      BY <1>2
    <2>2. CASE j = r /\ b = c
      BY <1>1, <1>2, <1>4, <2>1, <2>2 DEF BatchRow
    <2>3. CASE ~(j = r /\ b = c)
      BY <1>1, <1>2, <1>4, <2>1, <2>3
    <2>. QED
      BY <2>2, <2>3
  <1>. QED
    BY <1>1, <1>5, <1>6

LEMMA MakeTyped ==
    ASSUME MadeInv, NEW j \in Runs, MakeBatches(j)
    PROVE  /\ batch' \in [Runs -> [Books -> BatchRow]]
           /\ job' \in [Runs -> JobState]
           /\ \A k \in Runs : k # j => batch'[k] = batch[k] /\ job'[k] = job[k]
           /\ \A b \in Books :
                 /\ batch'[j][b].orders = PickedOf(j, b)
                 /\ batch'[j][b].status \in {"NONE", "PENDING"}
                 /\ batch'[j][b].status = "NONE" <=> PickedOf(j, b) = {}
           /\ job'[j].at = "distribute"
           /\ job'[j].date = job[j].date
           /\ job'[j].todo = {b \in Books : PickedOf(j, b) # {}}
  <1>. DEFINE new == [b \in Books |-> [status |-> IF PickedOf(j, b) = {} THEN "NONE"
                                                 ELSE "PENDING",
                                      orders |-> PickedOf(j, b)]]
              books == {b \in Books : PickedOf(j, b) # {}}
  <1>1. batch \in [Runs -> [Books -> BatchRow]] /\ job \in [Runs -> JobState]
        /\ job[j] \in JobState
    BY DEF MadeInv, TypeOK
  <1>2. \A b \in Books : PickedOf(j, b) \in SUBSET Orders
    BY <1>1 DEF PickedOf, JobState
  <1>3. new \in [Books -> BatchRow]
    BY <1>2 DEF BatchRow
  <1>4. batch' = [batch EXCEPT ![j] = new]
    BY DEF MakeBatches
  <1>5. job' = [job EXCEPT ![j] = [job[j] EXCEPT !.at = "distribute", !.picked = {},
                                               !.todo = books]]
    BY <1>1 DEF MakeBatches
  <1>6. [job[j] EXCEPT !.at = "distribute", !.picked = {}, !.todo = books] \in JobState
    BY <1>1 DEF JobState
  <1>7. batch' \in [Runs -> [Books -> BatchRow]] /\ job' \in [Runs -> JobState]
    BY <1>1, <1>3, <1>4, <1>5, <1>6
  <1>8. \A k \in Runs : k # j => batch'[k] = batch[k] /\ job'[k] = job[k]
    BY <1>1, <1>4, <1>5
  <1>9. batch'[j] = new
    BY <1>1, <1>4
  <1>10. job'[j] = [job[j] EXCEPT !.at = "distribute", !.picked = {}, !.todo = books]
    BY <1>1, <1>5
  <1>11. job'[j].at = "distribute" /\ job'[j].date = job[j].date /\ job'[j].todo = books
    BY <1>1, <1>10 DEF JobState
  <1>. QED
    BY <1>7, <1>8, <1>9, <1>11

LEMMA PayoutTyped ==
    ASSUME MadeInv, NEW p \in Processes
    PROVE  /\ \A s \in {"processing", "paid", "failed"} : Step(p, s) =>
                 /\ payout' \in [Processes -> PayoutState]
                 /\ payout'[p] = [payout[p] EXCEPT !.at = s]
                 /\ payout'[p].at = s
                 /\ payout'[p].run = payout[p].run /\ payout'[p].book = payout[p].book
                 /\ \A q \in Processes : q # p => payout'[q] = payout[q]
           /\ Return(p) =>
                 /\ payout' \in [Processes -> PayoutState]
                 /\ payout'[p].at = "idle"
                 /\ \A q \in Processes : q # p => payout'[q] = payout[q]
           /\ \A j \in Runs, b \in Books :
                 payout' = [payout EXCEPT ![p] = [at |-> "pending", run |-> j, book |-> b]] =>
                    /\ payout' \in [Processes -> PayoutState]
                    /\ payout'[p] = [at |-> "pending", run |-> j, book |-> b]
                    /\ \A q \in Processes : q # p => payout'[q] = payout[q]
  <1>. payout \in [Processes -> PayoutState] /\ payout[p] \in PayoutState
    BY DEF MadeInv, TypeOK
  <1>1. ASSUME NEW s \in {"processing", "paid", "failed"}
        PROVE  /\ [payout[p] EXCEPT !.at = s] \in PayoutState
               /\ [payout[p] EXCEPT !.at = s].at = s
               /\ [payout[p] EXCEPT !.at = s].run = payout[p].run
               /\ [payout[p] EXCEPT !.at = s].book = payout[p].book
    BY DEF PayoutState
  <1>2. Idle \in PayoutState /\ Idle.at = "idle"
    BY DEF PayoutState, Idle
  <1>3. \A j \in Runs, b \in Books :
           [at |-> "pending", run |-> j, book |-> b] \in PayoutState
    BY DEF PayoutState
  <1>4. ASSUME NEW s \in {"processing", "paid", "failed"}, Step(p, s)
        PROVE  payout' = [payout EXCEPT ![p] = [payout[p] EXCEPT !.at = s]]
    BY <1>4 DEF Step
  <1>. QED
    BY <1>1, <1>2, <1>3, <1>4 DEF Return

\* Most steps leave the batches made, and begin neither a batch nor a payout.
LEMMA MadeKept ==
    ASSUME MadeInv, TypeOK',
           \A j \in Runs, b \in Books :
              /\ batch'[j][b].orders = batch[j][b].orders
              /\ batch'[j][b].status = "NONE" <=> batch[j][b].status = "NONE",
           \A j \in Runs :
              /\ job'[j].at \in {"new", "screen", "create"} =>
                    job[j].at \in {"new", "screen", "create"}
              /\ job'[j].todo \subseteq job[j].todo
    PROVE  /\ TodoMade' /\ NotYetMade' /\ NoneEmpty'
           /\ (\A p \in Processes : payout'[p].at # "idle" =>
                  /\ payout[p].at # "idle"
                  /\ payout'[p].run = payout[p].run /\ payout'[p].book = payout[p].book)
              => MadeInv'
  <1>1. \A j \in Runs : job[j].todo \subseteq Books
    BY DEF MadeInv, TypeOK, JobState
  <1>2. TodoMade'
    BY <1>1 DEF MadeInv, TodoMade
  <1>3. NotYetMade'
    BY DEF MadeInv, NotYetMade
  <1>4. NoneEmpty'
    BY DEF MadeInv, NoneEmpty
  <1>5. ASSUME \A p \in Processes : payout'[p].at # "idle" =>
                  /\ payout[p].at # "idle"
                  /\ payout'[p].run = payout[p].run /\ payout'[p].book = payout[p].book
        PROVE  OnBatch'
    BY <1>5 DEF MadeInv, OnBatch
  <1>. QED
    BY <1>2, <1>3, <1>4, <1>5 DEF MadeInv

LEMMA CreationMade ==
    ASSUME MadeInv, NEW j \in Runs, Creation(j) \/ CrashRun(j)
    PROVE  MadeInv'
  <1>. TypeOK /\ job \in [Runs -> JobState] /\ job[j] \in JobState /\ j \in Processes
    BY DEF MadeInv, TypeOK, Processes
  <1>1. ASSUME ListPending(j)
        PROVE  MadeInv'
    <2>1. SettleDate \in Days
      <3>1. today - 2 \in Days /\ today - 1 \in Days
        BY SettlementParameters DEF TypeOK, Days
      <3>. QED
        BY <3>1 DEF SettleDate
    <2>2. Pending(SettleDate) \in SUBSET Orders
      BY DEF Pending
    <2>3. PICK s \in {"done", "screen"} :
             job' = [job EXCEPT ![j] = [job[j] EXCEPT !.at = s, !.date = SettleDate,
                                                      !.picked = Pending(SettleDate)]]
      BY <1>1 DEF ListPending
    <2>4. [job[j] EXCEPT !.at = s, !.date = SettleDate, !.picked = Pending(SettleDate)]
             \in JobState
      BY <2>1, <2>2 DEF JobState
    <2>5. TypeOK' /\ \A k \in Runs : job'[k].todo = job[k].todo
      <3>1. job' \in [Runs -> JobState] /\ \A k \in Runs : job'[k].todo = job[k].todo
        BY <2>3, <2>4 DEF JobState
      <3>. QED
        BY <1>1, <3>1 DEF ListPending, TypeOK
    <2>6. \A k \in Runs : job'[k].at \in {"new", "screen", "create"} =>
                             job[k].at \in {"new", "screen", "create"}
      BY <1>1, <2>3 DEF ListPending, TypeOK, JobState
    <2>. QED
      BY <1>1, <2>5, <2>6, MadeKept DEF ListPending
  <1>2. ASSUME Screen(j)
        PROVE  MadeInv'
    <2>1. PICK s \in {"done", "create"} :
             job' = [job EXCEPT ![j] = [job[j] EXCEPT !.at = s, !.picked = @ \ Listed]]
      BY <1>2 DEF Screen
    <2>2. [job[j] EXCEPT !.at = s, !.picked = @ \ Listed] \in JobState
      BY DEF JobState
    <2>3. TypeOK' /\ \A k \in Runs : job'[k].todo = job[k].todo
      <3>1. job' \in [Runs -> JobState] /\ \A k \in Runs : job'[k].todo = job[k].todo
        BY <2>1, <2>2 DEF JobState
      <3>. QED
        BY <1>2, <3>1 DEF Screen, TypeOK
    <2>4. \A k \in Runs : job'[k].at \in {"new", "screen", "create"} =>
                             job[k].at \in {"new", "screen", "create"}
      BY <1>2, <2>1 DEF Screen, TypeOK, JobState
    <2>. QED
      BY <1>2, <2>3, <2>4, MadeKept DEF Screen
  <1>3. ASSUME LoseBatches(j)
        PROVE  MadeInv'
    <2>1. job' = [job EXCEPT ![j] = [job[j] EXCEPT !.at = "dead", !.picked = {}]]
      BY <1>3 DEF LoseBatches
    <2>2. [job[j] EXCEPT !.at = "dead", !.picked = {}] \in JobState
      BY DEF JobState
    <2>3. TypeOK' /\ \A k \in Runs : job'[k].todo = job[k].todo
      BY <1>3, <2>1, <2>2 DEF LoseBatches, TypeOK, JobState
    <2>4. \A k \in Runs : job'[k].at \in {"new", "screen", "create"} =>
                             job[k].at \in {"new", "screen", "create"}
      BY <1>3, <2>1 DEF LoseBatches, TypeOK, JobState
    <2>. QED
      BY <1>3, <2>3, <2>4, MadeKept DEF LoseBatches
  <1>4. ASSUME CrashRun(j)
        PROVE  MadeInv'
    <2>1. PICK s \in {"done", "dead"} :
             job' = [job EXCEPT ![j] = [job[j] EXCEPT !.at = s, !.picked = {}, !.todo = {}]]
      BY <1>4 DEF CrashRun
    <2>2. [job[j] EXCEPT !.at = s, !.picked = {}, !.todo = {}] \in JobState
      BY DEF JobState
    <2>3. TypeOK' /\ \A k \in Runs : job'[k].todo \subseteq job[k].todo
      <3>1. job' \in [Runs -> JobState] /\ \A k \in Runs : job'[k].todo \subseteq job[k].todo
        BY <2>1, <2>2 DEF JobState
      <3>2. payout' \in [Processes -> PayoutState]
        BY <1>4, PayoutTyped DEF CrashRun
      <3>. QED
        BY <1>4, <3>1, <3>2 DEF CrashRun, TypeOK
    <2>4. \A k \in Runs : job'[k].at \in {"new", "screen", "create"} =>
                             job[k].at \in {"new", "screen", "create"}
      BY <1>4, <2>1 DEF CrashRun, TypeOK, JobState
    <2>5. \A p \in Processes : payout'[p].at # "idle" => payout'[p] = payout[p]
      BY <1>4, PayoutTyped DEF CrashRun
    <2>. QED
      BY <1>4, <2>3, <2>4, <2>5, MadeKept DEF CrashRun
  <1>5. ASSUME CreateBatches(j)
        PROVE  MadeInv'
    <2>1. MakeBatches(j) /\ job[j].at = "create" /\ UNCHANGED <<today, night, order, refunds, payout, transfers>>
      BY <1>5 DEF CreateBatches
    <2>2. TypeOK'
      BY <2>1, MakeTyped DEF TypeOK
    <2>3. \A b \in Books : batch[j][b].status = "NONE"
      BY <2>1 DEF MadeInv, NotYetMade
    <2>4. \A p \in Processes : payout[p].at # "idle" => payout[p].run # j
      BY <2>3 DEF MadeInv, OnBatch
    <2>5. OnBatch'
      <3>1. \A p \in Runs : p # j => job'[p].todo = job[p].todo
        BY <2>1, MakeTyped
      <3>. QED
        BY <2>1, <2>4, <3>1, MakeTyped DEF MadeInv, OnBatch
    <2>6. TodoMade'
      <3>1. \A k \in Runs : job[k].todo \subseteq Books
        BY DEF TypeOK, JobState
      <3>. QED
        BY <2>1, <3>1, MakeTyped DEF MadeInv, TodoMade
    <2>7. NotYetMade'
      BY <2>1, MakeTyped DEF MadeInv, NotYetMade
    <2>8. NoneEmpty'
      BY <2>1, MakeTyped DEF MadeInv, NoneEmpty
    <2>. QED
      BY <2>2, <2>5, <2>6, <2>7, <2>8 DEF MadeInv
  <1>. QED
    BY <1>1, <1>2, <1>3, <1>4, <1>5 DEF Creation

\* A process enters distribute.
Begins(p, j, b) ==
    \/ TakeBatch(j, b) /\ p = j
    \/ ReadApproval(p, j, b) /\ p \in Operators

LEMMA SomeBegins ==
    ASSUME NEW j \in Runs, NEW b \in Books,
           TakeBatch(j, b) \/ \E w \in Operators : ReadApproval(w, j, b)
    PROVE  \E p \in Processes : Begins(p, j, b)
  <1>1. j \in Processes /\ \A w \in Operators : w \in Processes
    BY DEF Processes
  <1>2. CASE TakeBatch(j, b)
    <2>1. Begins(j, j, b)
      BY <1>2 DEF Begins
    <2>. QED
      BY <1>1, <2>1
  <1>3. ASSUME NEW w \in Operators, ReadApproval(w, j, b)
        PROVE  Begins(w, j, b)
    BY <1>3 DEF Begins
  <1>. QED
    BY <1>1, <1>2, <1>3

LEMMA BeginMade ==
    ASSUME MadeInv, NEW p \in Processes, NEW j \in Runs, NEW b \in Books, Begins(p, j, b)
    PROVE  MadeInv'
  <1>. TypeOK /\ job \in [Runs -> JobState] /\ job[j] \in JobState
    BY DEF MadeInv, TypeOK
  <1>1. payout' = [payout EXCEPT ![p] = [at |-> "pending", run |-> j, book |-> b]]
    BY DEF Begins, TakeBatch, ReadApproval
  <1>2. job' \in [Runs -> JobState] /\ \A k \in Runs : job'[k].at = job[k].at
        /\ job'[k].todo \subseteq job[k].todo
    <2>1. [job[j] EXCEPT !.todo = @ \ {b}] \in JobState
      BY DEF JobState
    <2>2. CASE TakeBatch(j, b)
      <3>1. job' = [job EXCEPT ![j] = [job[j] EXCEPT !.todo = @ \ {b}]]
        BY <2>2 DEF Begins, TakeBatch
      <3>. QED
        BY <2>1, <3>1 DEF JobState
    <2>3. CASE ReadApproval(p, j, b)
      BY <2>3 DEF ReadApproval
    <2>. QED
      BY <2>2, <2>3 DEF Begins
  <1>3. UNCHANGED <<today, night, order, refunds, batch, transfers>>
    BY DEF Begins, TakeBatch, ReadApproval
  <1>4. TypeOK'
    BY <1>1, <1>2, <1>3, PayoutTyped DEF TypeOK
  <1>5. batch[j][b].status # "NONE"
    BY DEF Begins, TakeBatch, ReadApproval, MadeInv, TodoMade
  <1>6. p \in Runs => p = j /\ b \notin job'[p].todo
    BY SettlementParameters DEF Begins, TakeBatch, JobState
  <1>7. OnBatch'
    <2>1. payout'[p] = [at |-> "pending", run |-> j, book |-> b]
      BY <1>1, PayoutTyped
    <2>2. ASSUME NEW q \in Processes, q # p, payout'[q].at # "idle"
          PROVE  /\ payout'[q].run \in Runs
                 /\ payout'[q].book \in Books
                 /\ batch'[payout'[q].run][payout'[q].book].status # "NONE"
                 /\ q \in Runs => payout'[q].run = q /\ payout'[q].book \notin job'[q].todo
      <3>1. payout'[q] = payout[q]
        BY <1>1, <2>2, PayoutTyped
      <3>. QED
        BY <1>2, <1>3, <2>2, <3>1 DEF MadeInv, OnBatch
    <2>. QED
      BY <1>3, <1>5, <1>6, <2>1, <2>2 DEF OnBatch
  <1>. QED
    BY <1>2, <1>3, <1>4, <1>7, MadeKept DEF MadeInv

\* What distribute writes: one status, its orders, one transfer.
LEMMA DistributionWrites ==
    ASSUME MadeInv, NEW p \in Processes, Distribution(p)
    PROVE  /\ TypeOK'
           /\ UNCHANGED <<today, night, refunds, job>>
           /\ payout[p].at # "idle" /\ payout[p].run \in Runs /\ payout[p].book \in Books
           /\ \A q \in Processes : q # p => payout'[q] = payout[q]
           /\ payout'[p].at # "idle" =>
                 payout'[p].run = payout[p].run /\ payout'[p].book = payout[p].book
           /\ \A j \in Runs, b \in Books :
                 /\ batch'[j][b].orders = batch[j][b].orders
                 /\ batch'[j][b].status = batch[j][b].status
                    \/ batch'[j][b].status \in {"PROCESSING", "SETTLED", "FAILED"}
           /\ \A o \in Orders :
                 /\ order'[o].receivedOn = order[o].receivedOn
                 /\ order'[o].confirmedOn = order[o].confirmedOn
                 /\ order'[o].status \in {order[o].status, "SETTLED"}
  <1>. TypeOK /\ order \in [Orders -> OrderRow]
    BY DEF MadeInv, TypeOK
  <1>1. payout[p].at # "idle" /\ payout[p].run \in Runs /\ payout[p].book \in Books
    BY DEF Distribution, MarkProcessing, Transfer, Finalize, RecordFailure, MadeInv, OnBatch
  <1>2. UNCHANGED <<today, night, refunds, job>>
    BY DEF Distribution, MarkProcessing, Transfer, Finalize, RecordFailure
  <1>3. /\ payout' \in [Processes -> PayoutState]
        /\ \A q \in Processes : q # p => payout'[q] = payout[q]
        /\ payout'[p].at # "idle" =>
              payout'[p].run = payout[p].run /\ payout'[p].book = payout[p].book
    <2>1. CASE Return(p)
      BY <2>1, PayoutTyped
    <2>2. ASSUME NEW s \in {"processing", "paid", "failed"}, Step(p, s)
          PROVE  <1>3!:
      BY <2>2, PayoutTyped
    <2>. QED
      BY <2>1, <2>2 DEF Distribution, MarkProcessing, Transfer, Finalize, RecordFailure
  <1>4. /\ batch' \in [Runs -> [Books -> BatchRow]]
        /\ \A j \in Runs, b \in Books :
              /\ batch'[j][b].orders = batch[j][b].orders
              /\ batch'[j][b].status = batch[j][b].status
                 \/ batch'[j][b].status \in {"PROCESSING", "SETTLED", "FAILED"}
    <2>1. CASE UNCHANGED batch
      BY <2>1 DEF TypeOK
    <2>2. ASSUME NEW s \in {"PROCESSING", "SETTLED", "FAILED"}, SetStatus(p, s)
          PROVE  <1>4!:
      BY <1>1, <2>2, StatusTyped
    <2>. QED
      BY <2>1, <2>2 DEF Distribution, MarkProcessing, Transfer, Finalize, RecordFailure
  <1>5. /\ order' \in [Orders -> OrderRow]
        /\ \A o \in Orders :
              /\ order'[o].receivedOn = order[o].receivedOn
              /\ order'[o].confirmedOn = order[o].confirmedOn
              /\ order'[o].status \in {order[o].status, "SETTLED"}
    <2>1. CASE UNCHANGED order
      BY <2>1
    <2>2. CASE SettleOrders(p)
      <3>1. \A o \in Orders : /\ order[o] \in OrderRow
                              /\ [order[o] EXCEPT !.status = "SETTLED"] \in OrderRow
        BY DEF OrderRow
      <3>2. order' \in [Orders -> OrderRow]
        BY <2>2, <3>1 DEF SettleOrders
      <3>3. \A o \in Orders : order'[o] \in {order[o], [order[o] EXCEPT !.status = "SETTLED"]}
        BY <2>2 DEF SettleOrders
      <3>4. \A o \in Orders : /\ order'[o].receivedOn = order[o].receivedOn
                              /\ order'[o].confirmedOn = order[o].confirmedOn
                              /\ order'[o].status \in {order[o].status, "SETTLED"}
        BY <3>1, <3>3 DEF OrderRow
      <3>. QED
        BY <3>2, <3>4
    <2>. QED
      BY <2>1, <2>2 DEF Distribution, MarkProcessing, Transfer, Finalize, RecordFailure
  <1>6. transfers' \in [Runs -> [Books -> [Processes -> Nat]]]
    <2>1. CASE UNCHANGED transfers
      BY <2>1 DEF TypeOK
    <2>2. CASE Transfer(p) /\ ~UNCHANGED transfers
      <3>. DEFINE r == payout[p].run
                  c == payout[p].book
      <3>1. /\ transfers[r] \in [Books -> [Processes -> Nat]]
            /\ transfers[r][c] \in [Processes -> Nat]
            /\ transfers[r][c][p] + 1 \in Nat
        BY <1>1 DEF TypeOK
      <3>2. [transfers[r][c] EXCEPT ![p] = @ + 1] \in [Processes -> Nat]
        BY <3>1
      <3>3. transfers' = [transfers EXCEPT ![r] = [transfers[r] EXCEPT
                             ![c] = [transfers[r][c] EXCEPT ![p] = @ + 1]]]
        BY <2>2, <3>1 DEF Transfer
      <3>. QED
        BY <1>1, <3>1, <3>2, <3>3 DEF TypeOK
    <2>. QED
      BY <2>1, <2>2 DEF Distribution, MarkProcessing, Finalize, RecordFailure
  <1>7. TypeOK'
    BY <1>2, <1>3, <1>4, <1>5, <1>6 DEF TypeOK
  <1>. QED
    BY <1>1, <1>2, <1>3, <1>4, <1>5, <1>7

LEMMA DistributionMade ==
    ASSUME MadeInv, NEW p \in Processes, Distribution(p)
    PROVE  MadeInv'
  <1>1. TypeOK' /\ UNCHANGED job
    BY DistributionWrites
  <1>2. ASSUME NEW q \in Processes, payout'[q].at # "idle"
        PROVE  /\ payout[q].at # "idle"
               /\ payout'[q].run = payout[q].run /\ payout'[q].book = payout[q].book
    BY <1>2, DistributionWrites
  <1>3. ASSUME NEW j \in Runs, NEW b \in Books, batch[j][b].status = "NONE"
        PROVE  batch'[j][b].status = "NONE"
    <2>1. ASSUME NEW s \in {"PROCESSING", "SETTLED", "FAILED"}, SetStatus(p, s)
          PROVE  batch'[j][b].status = "NONE"
      <3>1. payout[p].at # "idle" /\ batch[payout[p].run][payout[p].book].status # "NONE"
        BY DistributionWrites DEF MadeInv, OnBatch
      <3>. QED
        BY <1>3, <2>1, <3>1, StatusTyped
    <2>2. CASE UNCHANGED batch
      BY <1>3, <2>2
    <2>. QED
      BY <2>1, <2>2 DEF Distribution, MarkProcessing, Transfer, Finalize, RecordFailure
  <1>4. \A j \in Runs, b \in Books :
           /\ batch'[j][b].orders = batch[j][b].orders
           /\ batch'[j][b].status = "NONE" <=> batch[j][b].status = "NONE"
    BY <1>3, DistributionWrites
  <1>. QED
    BY <1>1, <1>2, <1>4, MadeKept

LEMMA StepMade ==
    ASSUME MadeInv, [Next]_vars
    PROVE  MadeInv'
  <1>. TypeOK
    BY DEF MadeInv
  <1>1. ASSUME NEW o \in Orders, Collection(o)
        PROVE  MadeInv'
    <2>1. TypeOK'
      BY <1>1, OrderTyped DEF Collection, Receive, ConfirmTransfer, TypeOK
    <2>. QED
      BY <1>1, <2>1, MadeKept DEF Collection, Receive, ConfirmTransfer
  <1>7. ASSUME NEW o \in Orders, Refunding(o)
        PROVE  MadeInv'
    <2>1. UNCHANGED <<today, night, batch, job, payout, transfers>>
      BY <1>7 DEF Refunding, RequestRefund, RejectRefund, CompleteRefund
    <2>2. TypeOK'
      BY <1>7, <2>1, OrderTyped DEF TypeOK
    <2>. QED
      BY <2>1, <2>2, MadeKept
  <1>2. ASSUME NEW w \in Operators, CrashOperator(w)
        PROVE  MadeInv'
    <2>1. w \in Processes
      BY DEF Processes
    <2>2. TypeOK' /\ \A p \in Processes : payout'[p].at # "idle" => payout'[p] = payout[p]
      BY <1>2, <2>1, PayoutTyped DEF CrashOperator, TypeOK
    <2>. QED
      BY <1>2, <2>2, MadeKept DEF CrashOperator
  <1>3. ASSUME Midnight \/ UtcMidnight \/ UNCHANGED vars
        PROVE  MadeInv'
    <2>1. UNCHANGED <<order, refunds, batch, job, payout, transfers>>
      BY <1>3 DEF Midnight, UtcMidnight, vars
    <2>2. today' \in 2 .. MaxDay
      BY <1>3, Dates DEF Midnight, UtcMidnight, vars, TypeOK
    <2>3. night' \in BOOLEAN
      BY <1>3, Zenon DEF Midnight, UtcMidnight, vars, TypeOK
    <2>4. TypeOK'
      BY <2>1, <2>2, <2>3 DEF TypeOK
    <2>. QED
      BY <2>1, <2>4, MadeKept
  <1>4. ASSUME NEW j \in Runs, NEW b \in Books,
               TakeBatch(j, b) \/ \E w \in Operators : ReadApproval(w, j, b)
        PROVE  MadeInv'
    <2>1. PICK p \in Processes : Begins(p, j, b)
      BY <1>4, SomeBegins
    <2>. QED
      BY <2>1, BeginMade
  <1>5. ASSUME NEW j \in Runs, Creation(j) \/ CrashRun(j)
        PROVE  MadeInv'
    BY <1>5, CreationMade
  <1>6. ASSUME NEW p \in Processes, Distribution(p)
        PROVE  MadeInv'
    BY <1>6, DistributionMade
  <1>. QED
    BY <1>1, <1>2, <1>3, <1>4, <1>5, <1>6, <1>7 DEF Next

\* TypeOK of the runs: rows keep their types, whatever overlaps.
THEOREM SettlementTyped == Spec => []TypeOK
  <1>1. MadeInv => TypeOK
    BY DEF MadeInv
  <1>. QED
    BY InitMade, StepMade, <1>1, PTL DEF Spec

-----------------------------------------------------------------------------
\* The steps that leave batches, transfers and the orders' settlement alone.
Quiet ==
    \/ \E o \in Orders : Collection(o) \/ Refunding(o)
    \/ \E j \in Runs : ListPending(j) \/ Screen(j) \/ LoseBatches(j) \/ CrashRun(j)
    \/ \E w \in Operators : CrashOperator(w)
    \/ Midnight \/ UtcMidnight \/ UNCHANGED vars

LEMMA NextCases ==
    ASSUME [Next]_vars
    PROVE  \/ Quiet
           \/ \E j \in Runs : CreateBatches(j)
           \/ \E p \in Processes, j \in Runs, b \in Books : Begins(p, j, b)
           \/ \E p \in Processes : Distribution(p)
  <1>1. ASSUME NEW j \in Runs, NEW b \in Books,
               TakeBatch(j, b) \/ \E w \in Operators : ReadApproval(w, j, b)
        PROVE  \E p \in Processes, k \in Runs, c \in Books : Begins(p, k, c)
    BY <1>1, SomeBegins
  <1>2. ASSUME NEW j \in Runs, Creation(j) \/ CrashRun(j)
        PROVE  Quiet \/ \E k \in Runs : CreateBatches(k)
    BY <1>2 DEF Creation, Quiet
  <1>3. ASSUME \/ \E o \in Orders : Collection(o) \/ Refunding(o)
               \/ \E w \in Operators : CrashOperator(w)
               \/ Midnight \/ UtcMidnight \/ UNCHANGED vars
        PROVE  Quiet
    BY <1>3 DEF Quiet
  <1>. QED
    BY <1>1, <1>2, <1>3 DEF Next

LEMMA QuietWrites ==
    ASSUME MadeInv, Quiet
    PROVE  /\ UNCHANGED <<batch, transfers>>
           /\ refunds \subseteq refunds'
           /\ \A o \in Orders :
                 /\ order'[o].status = "SETTLED" => order[o].status = "SETTLED"
                 /\ order[o].status = "SETTLED" /\ o \notin refunds'
                    => order'[o].status = "SETTLED"
           /\ \A p \in Processes : payout'[p].at # "idle" => payout'[p] = payout[p]
           /\ \A j \in Runs : job'[j].todo \subseteq job[j].todo
  <1>. order \in [Orders -> OrderRow] /\ job \in [Runs -> JobState]
    BY DEF MadeInv, TypeOK
  <1>1. UNCHANGED <<batch, transfers>> /\ refunds \subseteq refunds'
    BY DEF Quiet, Collection, Receive, ConfirmTransfer, Refunding, RequestRefund,
           RejectRefund, CompleteRefund, ListPending, Screen, LoseBatches, CrashRun,
           CrashOperator, Midnight, UtcMidnight, vars
  <1>. DEFINE Kept(o) == /\ order'[o].status = "SETTLED" => order[o].status = "SETTLED"
                         /\ order[o].status = "SETTLED" /\ o \notin refunds'
                            => order'[o].status = "SETTLED"
  <1>2. ASSUME NEW o \in Orders
        PROVE  Kept(o)
    <2>1. CASE UNCHANGED order
      BY <2>1
    <2>2. ASSUME NEW q \in Orders, Collection(q)
          PROVE  order'[o].status = "SETTLED" <=> order[o].status = "SETTLED"
      BY <2>2 DEF Collection, Receive, ConfirmTransfer, OrderRow
    <2>3. ASSUME NEW q \in Orders, RequestRefund(q) \/ CompleteRefund(q)
          PROVE  Kept(o)
      BY <2>3 DEF RequestRefund, CompleteRefund, OrderRow
    <2>4. ASSUME NEW q \in Orders, RejectRefund(q)
          PROVE  Kept(o)
      <3>1. LastInHistory(q) # "SETTLED"
        BY DEF LastInHistory, OrderRow
      <3>. QED
        BY <2>4, <3>1 DEF RejectRefund, OrderRow
    <2>. QED
      BY <2>1, <2>2, <2>3, <2>4 DEF Quiet, Refunding, ListPending, Screen, LoseBatches,
         CrashRun, CrashOperator, Midnight, UtcMidnight, vars
  <1>3. ASSUME NEW p \in Processes, payout'[p].at # "idle"
        PROVE  payout'[p] = payout[p]
    <2>1. CASE \E q \in Processes : Return(q)
      BY <1>3, <2>1, PayoutTyped
    <2>2. CASE UNCHANGED payout
      BY <2>2
    <2>. QED
      BY <2>1, <2>2
      DEF Quiet, Collection, Receive, ConfirmTransfer, Refunding, RequestRefund,
          RejectRefund, CompleteRefund, ListPending, Screen, LoseBatches, CrashRun, CrashOperator, Midnight, UtcMidnight, vars, Processes
  <1>4. ASSUME NEW j \in Runs
        PROVE  job'[j].todo \subseteq job[j].todo
    <2>1. ASSUME NEW k \in Runs, ListPending(k) \/ Screen(k) \/ LoseBatches(k) \/ CrashRun(k)
          PROVE  job'[j].todo \subseteq job[j].todo
      <3>. job[k] \in JobState
        OBVIOUS
      <3>1. CASE CrashRun(k)
        <4>1. PICK s \in {"done", "dead"} :
                 job' = [job EXCEPT ![k] = [job[k] EXCEPT !.at = s, !.picked = {}, !.todo = {}]]
          BY <3>1 DEF CrashRun
        <4>. QED
          BY <4>1 DEF JobState
      <3>2. CASE LoseBatches(k)
        BY <3>2 DEF LoseBatches, JobState
      <3>3. CASE Screen(k)
        BY <3>3 DEF Screen, JobState
      <3>4. CASE ListPending(k)
        BY <3>4 DEF ListPending, JobState
      <3>. QED
        BY <2>1, <3>1, <3>2, <3>3, <3>4
    <2>2. CASE UNCHANGED job
      BY <2>2
    <2>. QED
      BY <2>1, <2>2 DEF Quiet, Collection, Receive, ConfirmTransfer, Refunding, RequestRefund,
         RejectRefund, CompleteRefund, CrashOperator, Midnight, UtcMidnight, vars
  <1>. QED
    BY <1>1, <1>2, <1>3, <1>4

LEMMA BeginWrites ==
    ASSUME MadeInv, NEW p \in Processes, NEW j \in Runs, NEW b \in Books, Begins(p, j, b)
    PROVE  /\ UNCHANGED <<today, night, order, refunds, batch, transfers>>
           /\ payout'[p] = [at |-> "pending", run |-> j, book |-> b]
           /\ \A q \in Processes : q # p => payout'[q] = payout[q]
           /\ \A k \in Runs : /\ job'[k].todo \subseteq job[k].todo
                              /\ job'[k].at = job[k].at /\ job'[k].date = job[k].date
                              /\ job'[k].picked = job[k].picked
           /\ p \in Runs => p = j /\ b \in job[j].todo
  <1>1. payout' = [payout EXCEPT ![p] = [at |-> "pending", run |-> j, book |-> b]]
    BY DEF Begins, TakeBatch, ReadApproval
  <1>2. UNCHANGED <<today, night, order, refunds, batch, transfers>>
    BY DEF Begins, TakeBatch, ReadApproval
  <1>3. job \in [Runs -> JobState]
    BY DEF MadeInv, TypeOK
  <1>4. ASSUME NEW k \in Runs
        PROVE  /\ job'[k].todo \subseteq job[k].todo
               /\ job'[k].at = job[k].at /\ job'[k].date = job[k].date
               /\ job'[k].picked = job[k].picked
    BY <1>3 DEF Begins, TakeBatch, ReadApproval, JobState
  <1>5. p \in Runs => p = j /\ b \in job[j].todo
    BY SettlementParameters DEF Begins, TakeBatch, ReadApproval
  <1>. QED
    BY <1>1, <1>2, <1>4, <1>5, PayoutTyped

-----------------------------------------------------------------------------
\* The batches of a run that creates them were empty, and nobody pays them yet.
LEMMA CreateWrites ==
    ASSUME MadeInv, NEW j \in Runs, CreateBatches(j)
    PROVE  /\ MakeBatches(j)
           /\ job[j].picked \cap Listed = {}
           /\ UNCHANGED <<today, night, order, refunds, payout, transfers>>
           /\ \A b \in Books : batch[j][b].status = "NONE" /\ batch[j][b].orders = {}
           /\ \A p \in Processes : payout[p].at # "idle" => payout[p].run # j
  BY DEF CreateBatches, MadeInv, NotYetMade, NoneEmpty, OnBatch

\* Orders are only added to batches, and a batch is only ever filled once.
LEMMA ListingGrows ==
    ASSUME MadeInv, [Next]_vars
    PROVE  /\ \A j \in Runs, b \in Books : batch[j][b].orders \subseteq batch'[j][b].orders
           /\ Listed \subseteq Listed'
  <1>1. \A j \in Runs, b \in Books : batch[j][b].orders \subseteq batch'[j][b].orders
    <2>1. CASE Quiet
      BY <2>1, QuietWrites
    <2>2. ASSUME NEW j \in Runs, CreateBatches(j)
          PROVE  \A k \in Runs, b \in Books : batch[k][b].orders \subseteq batch'[k][b].orders
      BY <2>2, CreateWrites, MakeTyped
    <2>3. ASSUME NEW p \in Processes, NEW j \in Runs, NEW b \in Books, Begins(p, j, b)
          PROVE  UNCHANGED batch
      BY <2>3, BeginWrites
    <2>4. ASSUME NEW p \in Processes, Distribution(p)
          PROVE  \A j \in Runs, b \in Books : batch'[j][b].orders = batch[j][b].orders
      BY <2>4, DistributionWrites
    <2>. QED
      BY <2>1, <2>2, <2>3, <2>4, NextCases
  <1>. QED
    BY <1>1 DEF Listed

\* No run, crash or approval takes an order out of the batch it was put in, so
\* that a later run can take it up again: create_settlement_batches is the only
\* code that writes the orders of a batch.
THEOREM ListedForGood ==
    Spec => [][\A j \in Runs, b \in Books : batch[j][b].orders \subseteq batch'[j][b].orders]_vars
  <1>1. MadeInv /\ [Next]_vars
        => [\A j \in Runs, b \in Books : batch[j][b].orders \subseteq batch'[j][b].orders]_vars
    BY ListingGrows
  <1>. QED
    BY <1>1, InitMade, StepMade, PTL DEF Spec

LEMMA ListedStep ==
    ASSUME MadeInv, ListedOnce, [Next]_vars
    PROVE  ListedOnce'
  <1>1. CASE Quiet
    BY <1>1, QuietWrites DEF ListedOnce
  <1>2. ASSUME NEW i \in Runs, CreateBatches(i)
        PROVE  ListedOnce'
    <2>1. \A b \in Books : batch'[i][b].orders = PickedOf(i, b)
      BY <1>2, CreateWrites, MakeTyped
    <2>2. \A b, c \in Books : PickedOf(i, b) \cap PickedOf(i, c) # {} => b = c
      BY DEF PickedOf
    <2>3. \A k \in Runs, b, c \in Books : PickedOf(i, b) \cap batch[k][c].orders = {}
      <3>1. \A b \in Books : PickedOf(i, b) \cap Listed = {}
        BY <1>2, CreateWrites DEF PickedOf
      <3>2. \A k \in Runs, c \in Books : batch[k][c].orders \subseteq Listed
        BY DEF Listed
      <3>. QED
        BY <3>1, <3>2
    <2>4. \A k \in Runs : k # i => batch'[k] = batch[k]
      BY <1>2, CreateWrites, MakeTyped
    <2>. SUFFICES ASSUME NEW j \in Runs, NEW k \in Runs, NEW b \in Books, NEW c \in Books,
                         batch'[j][b].orders \cap batch'[k][c].orders # {}
                  PROVE  j = k /\ b = c
      BY DEF ListedOnce
    <2>5. CASE j = i /\ k = i
      BY <2>1, <2>2, <2>5
    <2>6. CASE j = i /\ k # i
      BY <2>1, <2>3, <2>4, <2>6
    <2>7. CASE j # i /\ k = i
      BY <2>1, <2>3, <2>4, <2>7
    <2>8. CASE j # i /\ k # i
      BY <2>4, <2>8 DEF ListedOnce
    <2>. QED
      BY <2>5, <2>6, <2>7, <2>8
  <1>3. ASSUME NEW p \in Processes, NEW j \in Runs, NEW b \in Books, Begins(p, j, b)
        PROVE  ListedOnce'
    <2>1. UNCHANGED batch
      BY <1>3, BeginWrites
    <2>. QED
      BY <2>1 DEF ListedOnce
  <1>4. ASSUME NEW p \in Processes, Distribution(p)
        PROVE  ListedOnce'
    BY <1>4, DistributionWrites DEF ListedOnce
  <1>. QED
    BY <1>1, <1>2, <1>3, <1>4, NextCases

\* ListedOnce of the runs: however many runs of the job overlap, an order is in
\* one batch only.
THEOREM BatchesDisjoint == Spec => []ListedOnce
  <1>1. Init => ListedOnce
    BY DEF Init, ListedOnce
  <1>. QED
    BY <1>1, InitMade, StepMade, ListedStep, PTL DEF Spec

-----------------------------------------------------------------------------
\* What a step of distribute may write, by the place it is at.
LEMMA TransferWrites ==
    ASSUME MadeInv, NEW p \in Processes, Distribution(p)
    PROVE  \/ UNCHANGED transfers /\ payout'[p].at # "paid"
           \/ /\ payout[p].at = "processing"
              /\ payout'[p].at \in {"paid", "failed"}
              /\ UNCHANGED <<order, batch>>
              /\ \A j \in Runs, b \in Books, q \in Processes :
                    transfers'[j][b][q] =
                       IF j = payout[p].run /\ b = payout[p].book /\ q = p
                       THEN transfers[j][b][q] + 1 ELSE transfers[j][b][q]
  <1>. DEFINE r == payout[p].run
              c == payout[p].book
  <1>1. r \in Runs /\ c \in Books
    BY DistributionWrites
  <1>2. transfers \in [Runs -> [Books -> [Processes -> Nat]]]
    BY DEF MadeInv, TypeOK
  <1>3. ASSUME NEW s \in {"processing", "failed"}, Step(p, s)
        PROVE  payout'[p].at # "paid"
    BY <1>3, PayoutTyped
  <1>4. Return(p) => payout'[p].at # "paid"
    BY PayoutTyped
  <1>5. CASE UNCHANGED transfers /\ ~Step(p, "paid")
    BY <1>3, <1>4, <1>5 DEF Distribution, MarkProcessing, Transfer, Finalize, RecordFailure
  <1>6. CASE ~UNCHANGED transfers \/ Step(p, "paid")
    <2>1. Transfer(p) /\ ((Step(p, "failed") /\ UNCHANGED transfers) => Step(p, "paid"))
      BY <1>6, PayoutTyped DEF Distribution, MarkProcessing, Transfer, Finalize, RecordFailure
    <2>2. ~(Step(p, "failed") /\ Step(p, "paid"))
      BY PayoutTyped
    <2>3. /\ payout[p].at = "processing" /\ UNCHANGED <<order, batch>>
          /\ transfers' = [transfers EXCEPT ![r][c][p] = @ + 1]
          /\ Step(p, "paid") \/ Step(p, "failed")
      BY <2>1, <2>2 DEF Transfer
    <2>4. payout'[p].at \in {"paid", "failed"}
      BY <2>3, PayoutTyped
    <2>5. ASSUME NEW j \in Runs, NEW b \in Books, NEW q \in Processes
          PROVE  transfers'[j][b][q] = IF j = r /\ b = c /\ q = p
                                       THEN transfers[j][b][q] + 1 ELSE transfers[j][b][q]
      BY <1>1, <1>2, <2>3
    <2>. QED
      BY <2>3, <2>4, <2>5
  <1>. QED
    BY <1>5, <1>6

LEMMA SettlingWrites ==
    ASSUME MadeInv, NEW p \in Processes, Distribution(p)
    PROVE  /\ \A j \in Runs, b \in Books : batch'[j][b].status = "SETTLED" =>
                 \/ batch[j][b].status = "SETTLED"
                 \/ \A o \in batch[j][b].orders : order'[o].status = "SETTLED"
           /\ \A o \in Orders : order'[o].status = "SETTLED" =>
                 \/ order[o].status = "SETTLED"
                 \/ /\ payout[p].at = "paid"
                    /\ o \in batch[payout[p].run][payout[p].book].orders
  <1>. DEFINE r == payout[p].run
              c == payout[p].book
  <1>1. r \in Runs /\ c \in Books /\ payout[p].at # "idle"
        /\ batch \in [Runs -> [Books -> BatchRow]] /\ order \in [Orders -> OrderRow]
    BY DistributionWrites DEF MadeInv, TypeOK
  <1>2. CASE payout[p].at = "paid" /\ SetStatus(p, "SETTLED") /\ SettleOrders(p)
    <2>1. \A o \in batch[r][c].orders : order'[o].status = "SETTLED"
      <3>1. batch[r][c].orders \subseteq Orders
        BY <1>1 DEF BatchRow
      <3>. QED
        BY <1>1, <1>2, <3>1 DEF SettleOrders, OrderRow
    <2>2. \A j \in Runs, b \in Books : ~(j = r /\ b = c) =>
             batch'[j][b].status = batch[j][b].status
      BY <1>1, <1>2, StatusTyped
    <2>3. \A o \in Orders : o \notin batch[r][c].orders => order'[o] = order[o]
      BY <1>2 DEF SettleOrders
    <2>. QED
      BY <1>2, <2>1, <2>2, <2>3
  <1>3. ASSUME UNCHANGED order, NEW s \in {"PROCESSING", "FAILED"}, SetStatus(p, s)
        PROVE  \A j \in Runs, b \in Books : batch'[j][b].status = "SETTLED" =>
                  batch[j][b].status = "SETTLED"
    <2>1. \A j \in Runs, b \in Books :
             batch'[j][b].status = IF j = r /\ b = c THEN s ELSE batch[j][b].status
      BY <1>1, <1>3, StatusTyped
    <2>2. s # "SETTLED"
      OBVIOUS
    <2>. QED
      BY <2>1, <2>2
  <1>4. CASE UNCHANGED <<order, batch>>
    BY <1>4
  <1>5. CASE UNCHANGED order /\ (SetStatus(p, "PROCESSING") \/ SetStatus(p, "FAILED"))
    BY <1>3, <1>5
  <1>. QED
    BY <1>2, <1>4, <1>5 DEF Distribution, MarkProcessing, Transfer, Finalize, RecordFailure

\* Whoever is about to settle has made the bank pay.
PaidBehind ==
    \A p \in Processes : payout[p].at = "paid" =>
        transfers[payout[p].run][payout[p].book][p] > 0

SettledInv == SettledAfterPayout /\ PaidBehind

LEMMA SettledStep ==
    ASSUME MadeInv, SettledInv, [Next]_vars
    PROVE  SettledInv'
  <1>. batch \in [Runs -> [Books -> BatchRow]] /\ SettledAfterPayout /\ PaidBehind
    BY DEF MadeInv, TypeOK, SettledInv
  <1>. \A j \in Runs, b \in Books : batch[j][b].orders \subseteq Orders
    BY DEF BatchRow
  <1>1. CASE Quiet
    <2>1. SettledAfterPayout'
      BY <1>1, QuietWrites DEF SettledAfterPayout
    <2>2. PaidBehind'
      BY <1>1, QuietWrites DEF PaidBehind
    <2>. QED
      BY <2>1, <2>2 DEF SettledInv
  <1>2. ASSUME NEW i \in Runs, CreateBatches(i)
        PROVE  SettledInv'
    <2>1. /\ UNCHANGED <<order, refunds, payout, transfers>>
          /\ \A b \in Books : batch[i][b].orders = {} /\ batch'[i][b].status # "SETTLED"
          /\ \A k \in Runs : k # i => batch'[k] = batch[k]
      BY <1>2, CreateWrites, MakeTyped
    <2>2. SettledAfterPayout'
      BY <2>1 DEF SettledAfterPayout
    <2>3. PaidBehind'
      BY <2>1 DEF PaidBehind
    <2>. QED
      BY <2>2, <2>3 DEF SettledInv
  <1>3. ASSUME NEW p \in Processes, NEW j \in Runs, NEW b \in Books, Begins(p, j, b)
        PROVE  SettledInv'
    <2>1. /\ UNCHANGED <<order, refunds, batch, transfers>>
          /\ \A q \in Processes : payout'[q] = payout[q] \/ payout'[q].at = "pending"
      <3>1. UNCHANGED <<order, refunds, batch, transfers>>
        BY <1>3, BeginWrites
      <3>2. payout'[p] = [at |-> "pending", run |-> j, book |-> b]
        BY <1>3, BeginWrites
      <3>3. \A q \in Processes : q # p => payout'[q] = payout[q]
        BY <1>3, BeginWrites
      <3>4. payout'[p].at = "pending"
        BY <3>2
      <3>. QED
        BY <3>1, <3>3, <3>4
    <2>2. SettledAfterPayout'
      BY <2>1 DEF SettledAfterPayout
    <2>3. PaidBehind'
      BY <2>1 DEF PaidBehind
    <2>. QED
      BY <2>2, <2>3 DEF SettledInv
  <1>4. ASSUME NEW p \in Processes, Distribution(p)
        PROVE  SettledInv'
    <2>1. \A j \in Runs, b \in Books, q \in Processes :
             transfers[j][b][q] > 0 => transfers'[j][b][q] > 0
      <3>1. \A j \in Runs, b \in Books, q \in Processes : transfers[j][b][q] \in Nat
        BY DEF MadeInv, TypeOK
      <3>. QED
        BY <1>4, <3>1, TransferWrites
    <2>2. \A j \in Runs, b \in Books : batch'[j][b].orders = batch[j][b].orders
      BY <1>4, DistributionWrites
    <2>3. \A o \in Orders : order[o].status = "SETTLED" => order'[o].status = "SETTLED"
      BY <1>4, DistributionWrites
    <2>4. ASSUME NEW j \in Runs, NEW b \in Books, batch'[j][b].status = "SETTLED",
                 NEW o \in batch'[j][b].orders \ refunds'
          PROVE  order'[o].status = "SETTLED"
      <3>1. refunds' = refunds
        BY <1>4, DistributionWrites
      <3>. QED
        BY <1>4, <2>2, <2>3, <2>4, <3>1, SettlingWrites DEF SettledAfterPayout
    <2>5. ASSUME NEW o \in Orders, order'[o].status = "SETTLED"
          PROVE  \E j \in Runs, b \in Books :
                    o \in batch'[j][b].orders /\ \E q \in Processes : transfers'[j][b][q] > 0
      <3>1. CASE order[o].status = "SETTLED"
        BY <2>1, <2>2, <3>1 DEF SettledAfterPayout
      <3>2. CASE /\ payout[p].at = "paid"
                 /\ o \in batch[payout[p].run][payout[p].book].orders
        <4>1. payout[p].run \in Runs /\ payout[p].book \in Books
          BY <1>4, DistributionWrites
        <4>2. transfers[payout[p].run][payout[p].book][p] > 0
          BY <3>2 DEF PaidBehind
        <4>. QED
          BY <2>1, <2>2, <3>2, <4>1, <4>2
      <3>. QED
        BY <1>4, <2>5, <3>1, <3>2, SettlingWrites
    <2>6. ASSUME NEW q \in Processes, payout'[q].at = "paid"
          PROVE  transfers'[payout'[q].run][payout'[q].book][q] > 0
      <3>1. CASE q = p
        <4>1. /\ payout'[p].run = payout[p].run /\ payout'[p].book = payout[p].book
              /\ payout[p].run \in Runs /\ payout[p].book \in Books
          BY <1>4, <2>6, <3>1, DistributionWrites
        <4>2. transfers[payout[p].run][payout[p].book][p] \in Nat
          BY <4>1 DEF MadeInv, TypeOK
        <4>3. transfers'[payout[p].run][payout[p].book][p] =
                 transfers[payout[p].run][payout[p].book][p] + 1
          BY <1>4, <2>6, <3>1, <4>1, TransferWrites
        <4>. QED
          BY <3>1, <4>1, <4>2, <4>3
      <3>2. CASE q # p
        <4>1. payout'[q] = payout[q]
          BY <1>4, <3>2, DistributionWrites
        <4>2. payout[q].run \in Runs /\ payout[q].book \in Books
          BY <2>6, <4>1 DEF MadeInv, OnBatch
        <4>. QED
          BY <2>1, <2>6, <4>1, <4>2 DEF PaidBehind
      <3>. QED
        BY <3>1, <3>2
    <2>7. SettledAfterPayout'
      BY <2>4, <2>5 DEF SettledAfterPayout
    <2>8. PaidBehind'
      BY <2>6 DEF PaidBehind
    <2>. QED
      BY <2>7, <2>8 DEF SettledInv
  <1>. QED
    BY <1>1, <1>2, <1>3, <1>4, NextCases

LEMMA InitSettled == Init => SettledInv
  BY DEF Init, Idle, SettledInv, SettledAfterPayout, PaidBehind

\* SettledAfterPayout of the runs: whatever approvals, runs, lost answers and
\* crashes write over each other, orders are settled with a batch that was paid.
THEOREM NoSettlementUnpaid == Spec => []SettledAfterPayout
  <1>1. SettledInv => SettledAfterPayout
    BY DEF SettledInv
  <1>. QED
    BY <1>1, InitMade, StepMade, InitSettled, SettledStep, PTL DEF Spec

-----------------------------------------------------------------------------
\* A batch nobody has marked has not been paid, nor has a process paid the
\* batch it is about to pay, or a run one it has not come to.
Untouched ==
    \A j \in Runs, b \in Books : batch[j][b].status \in {"NONE", "PENDING"} =>
        \A p \in Processes : transfers[j][b][p] = 0

Unpaid ==
    \A p \in Processes : payout[p].at \in {"pending", "processing"} =>
        transfers[payout[p].run][payout[p].book][p] = 0

TodoUnpaid ==
    \A j \in Runs : \A b \in job[j].todo : transfers[j][b][j] = 0

Marked ==
    \A p \in Processes : payout[p].at \in {"processing", "paid", "failed"} =>
        batch[payout[p].run][payout[p].book].status \notin {"NONE", "PENDING"}

OnceInv == PaidOnceByEach /\ Untouched /\ Unpaid /\ TodoUnpaid /\ Marked

LEMMA OnceKept ==
    ASSUME MadeInv, OnceInv, UNCHANGED transfers,
           \A j \in Runs, b \in Books : batch'[j][b].status \in {"NONE", "PENDING"} =>
               batch[j][b].status \in {"NONE", "PENDING"},
           \A p \in Processes : payout'[p].at # "idle" => payout'[p] = payout[p],
           \A p \in Processes : payout[p].at # "idle" =>
               batch'[payout[p].run][payout[p].book] = batch[payout[p].run][payout[p].book],
           \A j \in Runs : \A b \in job'[j].todo : transfers[j][b][j] = 0
    PROVE  OnceInv'
  <1>1. PaidOnceByEach'
    BY DEF OnceInv, PaidOnceByEach
  <1>2. Untouched'
    BY DEF OnceInv, Untouched
  <1>3. Unpaid'
    BY DEF OnceInv, Unpaid
  <1>4. TodoUnpaid'
    BY DEF TodoUnpaid
  <1>5. Marked'
    BY DEF OnceInv, Marked
  <1>. QED
    BY <1>1, <1>2, <1>3, <1>4, <1>5 DEF OnceInv

LEMMA BeginOnce ==
    ASSUME MadeInv, OnceInv, NEW p \in Processes, NEW j \in Runs, NEW b \in Books,
           Begins(p, j, b)
    PROVE  OnceInv'
  <1>1. UNCHANGED <<batch, transfers>>
    BY BeginWrites
  <1>2. payout'[p] = [at |-> "pending", run |-> j, book |-> b]
    BY BeginWrites
  <1>3. \A q \in Processes : q # p => payout'[q] = payout[q]
    BY BeginWrites
  <1>4. \A k \in Runs : job'[k].todo \subseteq job[k].todo
    BY BeginWrites
  <1>5. transfers[j][b][p] = 0
    <2>1. CASE p \in Runs
      <3>1. p = j /\ b \in job[j].todo
        BY <2>1, BeginWrites
      <3>. QED
        BY <3>1 DEF OnceInv, TodoUnpaid
    <2>2. CASE p \notin Runs
      <3>1. batch[j][b].status = "PENDING"
        BY <2>2 DEF Begins, ReadApproval
      <3>. QED
        BY <3>1 DEF OnceInv, Untouched
    <2>. QED
      BY <2>1, <2>2
  <1>6. PaidOnceByEach' /\ Untouched'
    BY <1>1 DEF OnceInv, PaidOnceByEach, Untouched
  <1>7. Unpaid'
    BY <1>1, <1>2, <1>3, <1>5 DEF OnceInv, Unpaid
  <1>8. TodoUnpaid'
    BY <1>1, <1>4 DEF OnceInv, TodoUnpaid
  <1>9. Marked'
    BY <1>1, <1>2, <1>3 DEF OnceInv, Marked
  <1>. QED
    BY <1>6, <1>7, <1>8, <1>9 DEF OnceInv

LEMMA DistributionOnce ==
    ASSUME MadeInv, OnceInv, NEW p \in Processes, Distribution(p)
    PROVE  OnceInv'
  <1>. DEFINE r == payout[p].run
              c == payout[p].book
  <1>1. r \in Runs /\ c \in Books /\ payout[p].at # "idle" /\ UNCHANGED job
    BY DistributionWrites
  <1>2. \A j \in Runs, b \in Books, q \in Processes : transfers[j][b][q] \in Nat
    BY DEF MadeInv, TypeOK
  <1>3. \A j \in Runs, b \in Books : batch'[j][b].status \in {"NONE", "PENDING"} =>
           batch'[j][b].status = batch[j][b].status
    BY DistributionWrites
  <1>4. ASSUME NEW q \in Processes, q # p, payout'[q].at # "idle"
        PROVE  payout'[q] = payout[q] /\ payout[q].run \in Runs /\ payout[q].book \in Books
    BY <1>4, DistributionWrites DEF MadeInv, OnBatch
  <1>5. payout'[p].at # "idle" => payout'[p].run = r /\ payout'[p].book = c
    BY DistributionWrites
  <1>6. /\ payout'[p].at # "pending"
        /\ payout'[p].at = "processing" => payout[p].at = "pending"
        /\ payout'[p].at \in {"processing", "paid", "failed"} =>
              batch'[r][c].status \notin {"NONE", "PENDING"}
    <2>1. CASE MarkProcessing(p)
      <3>1. payout[p].at = "pending" /\ payout'[p].at = "processing"
        BY <2>1, PayoutTyped DEF MarkProcessing
      <3>2. batch'[r][c].status = "PROCESSING"
        BY <1>1, <2>1, StatusTyped DEF MarkProcessing
      <3>. QED
        BY <3>1, <3>2
    <2>2. ASSUME payout[p].at \in {"processing", "paid"}, UNCHANGED batch,
                 NEW s \in {"paid", "failed"}, Step(p, s)
          PROVE  <1>6!:
      <3>1. payout'[p].at = s
        BY <2>2, PayoutTyped
      <3>2. batch'[r][c].status \notin {"NONE", "PENDING"}
        BY <2>2 DEF OnceInv, Marked
      <3>. QED
        BY <3>1, <3>2
    <2>3. CASE Return(p)
      BY <2>3, PayoutTyped
    <2>4. CASE Transfer(p)
      BY <2>2, <2>4 DEF Transfer
    <2>5. CASE Finalize(p)
      BY <2>2, <2>3, <2>5 DEF Finalize
    <2>6. CASE RecordFailure(p)
      BY <2>3, <2>6 DEF RecordFailure
    <2>. QED
      BY <2>1, <2>4, <2>5, <2>6 DEF Distribution
  <1>7. Marked'
    <2>1. ASSUME NEW q \in Processes, payout'[q].at \in {"processing", "paid", "failed"}
          PROVE  batch'[payout'[q].run][payout'[q].book].status \notin {"NONE", "PENDING"}
      <3>1. CASE q = p
        BY <1>5, <1>6, <2>1, <3>1
      <3>2. CASE q # p
        BY <1>3, <1>4, <2>1, <3>2 DEF OnceInv, Marked
      <3>. QED
        BY <3>1, <3>2
    <2>. QED
      BY <2>1 DEF Marked
  <1>8. CASE UNCHANGED transfers
    <2>1. PaidOnceByEach' /\ TodoUnpaid'
      BY <1>1, <1>8 DEF OnceInv, PaidOnceByEach, TodoUnpaid
    <2>2. Untouched'
      BY <1>3, <1>8 DEF OnceInv, Untouched
    <2>3. Unpaid'
      <3>1. ASSUME NEW q \in Processes, payout'[q].at \in {"pending", "processing"}
            PROVE  transfers[payout'[q].run][payout'[q].book][q] = 0
        <4>1. CASE q = p
          BY <1>5, <1>6, <3>1, <4>1 DEF OnceInv, Unpaid
        <4>2. CASE q # p
          BY <1>4, <3>1, <4>2 DEF OnceInv, Unpaid
        <4>. QED
          BY <4>1, <4>2
      <3>. QED
        BY <1>8, <3>1 DEF Unpaid
    <2>. QED
      BY <1>7, <2>1, <2>2, <2>3 DEF OnceInv
  <1>9. CASE ~UNCHANGED transfers
    <2>1. payout[p].at = "processing" /\ payout'[p].at \in {"paid", "failed"}
      BY <1>9, TransferWrites
    <2>2. \A j \in Runs, b \in Books, q \in Processes :
             transfers'[j][b][q] = IF j = r /\ b = c /\ q = p
                                   THEN transfers[j][b][q] + 1 ELSE transfers[j][b][q]
      BY <1>9, TransferWrites
    <2>3. transfers[r][c][p] = 0 /\ batch[r][c].status \notin {"NONE", "PENDING"}
      BY <2>1 DEF OnceInv, Unpaid, Marked
    <2>4. p \in Runs => r = p /\ c \notin job[p].todo
      BY <1>1 DEF MadeInv, OnBatch
    <2>5. PaidOnceByEach'
      <3>1. ASSUME NEW j \in Runs, NEW b \in Books, NEW q \in Processes
            PROVE  /\ transfers'[j][b][q] <= 1
                   /\ transfers'[j][b][q] > 0 /\ q \in Runs => q = j
        <4>1. CASE j = r /\ b = c /\ q = p
          <5>1. transfers'[j][b][q] = 1
            BY <2>2, <2>3, <4>1
          <5>. QED
            BY <2>4, <4>1, <5>1
        <4>2. CASE ~(j = r /\ b = c /\ q = p)
          <5>1. transfers'[j][b][q] = transfers[j][b][q]
            BY <2>2, <4>2
          <5>. QED
            BY <5>1 DEF OnceInv, PaidOnceByEach
        <4>. QED
          BY <4>1, <4>2
      <3>. QED
        BY <3>1 DEF PaidOnceByEach
    <2>6. Untouched'
      <3>1. ASSUME NEW j \in Runs, NEW b \in Books, NEW q \in Processes,
                   batch'[j][b].status \in {"NONE", "PENDING"}
            PROVE  transfers'[j][b][q] = 0
        <4>1. batch[j][b].status \in {"NONE", "PENDING"}
          BY <1>3, <3>1
        <4>2. ~(j = r /\ b = c)
          BY <2>3, <4>1
        <4>. QED
          BY <2>2, <4>1, <4>2 DEF OnceInv, Untouched
      <3>. QED
        BY <3>1 DEF Untouched
    <2>7. Unpaid'
      <3>1. ASSUME NEW q \in Processes, payout'[q].at \in {"pending", "processing"}
            PROVE  transfers'[payout'[q].run][payout'[q].book][q] = 0
        <4>1. q # p
          BY <2>1, <3>1
        <4>2. payout'[q] = payout[q] /\ payout[q].run \in Runs /\ payout[q].book \in Books
          BY <1>4, <3>1, <4>1
        <4>. QED
          BY <2>2, <3>1, <4>1, <4>2 DEF OnceInv, Unpaid
      <3>. QED
        BY <3>1 DEF Unpaid
    <2>8. TodoUnpaid'
      <3>1. ASSUME NEW j \in Runs, NEW b \in job[j].todo
            PROVE  transfers'[j][b][j] = 0
        <4>1. b \in Books /\ j \in Processes
          BY DEF MadeInv, TypeOK, JobState, Processes
        <4>2. ~(j = r /\ b = c /\ j = p)
          BY <2>4
        <4>. QED
          BY <2>2, <3>1, <4>1, <4>2 DEF OnceInv, TodoUnpaid
      <3>. QED
        BY <1>1, <3>1 DEF TodoUnpaid
    <2>. QED
      BY <1>7, <2>5, <2>6, <2>7, <2>8 DEF OnceInv
  <1>. QED
    BY <1>8, <1>9

LEMMA OnceStep ==
    ASSUME MadeInv, OnceInv, [Next]_vars
    PROVE  OnceInv'
  <1>1. CASE Quiet
    <2>1. \A j \in Runs : \A b \in job'[j].todo : transfers[j][b][j] = 0
      BY <1>1, QuietWrites DEF OnceInv, TodoUnpaid
    <2>2. UNCHANGED <<batch, transfers>>
      BY <1>1, QuietWrites
    <2>3. \A p \in Processes : payout'[p].at # "idle" => payout'[p] = payout[p]
      BY <1>1, QuietWrites
    <2>. QED
      BY <2>1, <2>2, <2>3, OnceKept
  <1>2. ASSUME NEW i \in Runs, CreateBatches(i)
        PROVE  OnceInv'
    <2>1. UNCHANGED <<payout, transfers>> /\ \A b \in Books : batch[i][b].status = "NONE"
      BY <1>2, CreateWrites
    <2>2. \A k \in Runs : k # i => batch'[k] = batch[k] /\ job'[k] = job[k]
      BY <1>2, CreateWrites, MakeTyped
    <2>3. \A p \in Processes : payout[p].at # "idle" =>
             payout[p].run \in Runs /\ payout[p].run # i
      BY <1>2, CreateWrites DEF MadeInv, OnBatch
    <2>4. \A j \in Runs, b \in Books : batch'[j][b].status \in {"NONE", "PENDING"} =>
             batch[j][b].status \in {"NONE", "PENDING"}
      BY <2>1, <2>2
    <2>5. ASSUME NEW j \in Runs, NEW b \in job'[j].todo
          PROVE  transfers[j][b][j] = 0
      <3>1. CASE j = i
        <4>1. b \in Books /\ j \in Processes
          BY <1>2, <3>1, CreateWrites, MakeTyped DEF Processes
        <4>. QED
          BY <2>1, <3>1, <4>1 DEF OnceInv, Untouched
      <3>2. CASE j # i
        BY <2>2, <3>2 DEF OnceInv, TodoUnpaid
      <3>. QED
        BY <3>1, <3>2
    <2>. QED
      BY <2>1, <2>2, <2>3, <2>4, <2>5, OnceKept
  <1>3. ASSUME NEW p \in Processes, NEW j \in Runs, NEW b \in Books, Begins(p, j, b)
        PROVE  OnceInv'
    BY <1>3, BeginOnce
  <1>4. ASSUME NEW p \in Processes, Distribution(p)
        PROVE  OnceInv'
    BY <1>4, DistributionOnce
  <1>. QED
    BY <1>1, <1>2, <1>3, <1>4, NextCases

LEMMA InitOnce == Init => OnceInv
  <1>. SUFFICES ASSUME Init PROVE OnceInv
    OBVIOUS
  <1>1. \A j \in Runs, b \in Books, p \in Processes : transfers[j][b][p] = 0
    BY DEF Init
  <1>2. PaidOnceByEach /\ Untouched
    BY <1>1 DEF PaidOnceByEach, Untouched
  <1>3. Unpaid /\ TodoUnpaid /\ Marked
    BY DEF Init, Idle, Unpaid, TodoUnpaid, Marked
  <1>. QED
    BY <1>2, <1>3 DEF OnceInv

\* PaidOnceByEach of the runs: the job and an approval may each pay a batch,
\* but neither pays it twice, and runs of the job keep to their own batches.
THEOREM PayoutOnceEach == Spec => []PaidOnceByEach
  <1>1. OnceInv => PaidOnceByEach
    BY DEF OnceInv
  <1>. QED
    BY <1>1, InitMade, StepMade, InitOnce, OnceStep, PTL DEF Spec

-----------------------------------------------------------------------------
\* The dates of orders and runs, and what a run has done about its date: the
\* orders in time for it are picked or listed, and at the end listed.
OrderDates ==
    \A o \in Orders \ refunds : order[o].status \in {"PAY_RECEIVED", "PENDING_SETTLE"} =>
        order[o].receivedOn >= 2 /\ order[o].receivedOn <= today

RunDates == \A j \in Runs : job[j].at # "new" => job[j].date < today

Picked ==
    \A j \in Runs : job[j].at \in {"screen", "create"} =>
        \A o \in Orders : InTime(o) /\ order[o].receivedOn = job[j].date =>
            o \in job[j].picked \cup Listed

Covered ==
    \A j \in Runs : job[j].at \in {"distribute", "done"} =>
        \A o \in Orders : InTime(o) /\ order[o].receivedOn = job[j].date => o \in Listed

RefundsKnown ==
    \A o \in Orders : order[o].status \in {"REFUNDING", "REFUNDED"} => o \in refunds

DatesInv == RefundsKnown /\ OrderDates /\ RunDates /\ Picked /\ Covered /\ ListedNextDay

\* What a run has done about its date, j the only run that moves.
LEMMA RunsKept ==
    ASSUME MadeInv, DatesInv, today' = today, Listed \subseteq Listed', UNCHANGED <<order, refunds>>,
           NEW j \in Runs, \A k \in Runs : k # j => job'[k] = job[k],
           job'[j].at # "new" => job'[j].date < today,
           job'[j].at \in {"screen", "create"} =>
               \A o \in Orders : InTime(o) /\ order[o].receivedOn = job'[j].date =>
                   o \in job'[j].picked \cup Listed',
           job'[j].at \in {"distribute", "done"} =>
               \A o \in Orders : InTime(o) /\ order[o].receivedOn = job'[j].date =>
                   o \in Listed'
    PROVE  DatesInv'
  <1>1. \A o \in Orders : InTime(o)' <=> InTime(o)
    BY DEF InTime
  <1>2. RefundsKnown' /\ OrderDates' /\ ListedNextDay'
    BY <1>1 DEF DatesInv, RefundsKnown, OrderDates, ListedNextDay
  <1>3. RunDates'
    BY DEF DatesInv, RunDates
  <1>4. Picked'
    BY <1>1 DEF DatesInv, Picked
  <1>5. Covered'
    BY <1>1 DEF DatesInv, Covered
  <1>. QED
    BY <1>2, <1>3, <1>4, <1>5 DEF DatesInv

LEMMA ListedKept ==
    ASSUME UNCHANGED batch
    PROVE  Listed' = Listed
  BY DEF Listed

LEMMA CollectionDates ==
    ASSUME MadeInv, DatesInv, NEW o \in Orders, Collection(o)
    PROVE  DatesInv'
  <1>. today \in Nat /\ today >= 2 /\ order \in [Orders -> OrderRow] /\ order[o] \in OrderRow
    BY SettlementParameters DEF MadeInv, TypeOK
  <1>1. UNCHANGED <<today, refunds, batch, job>> /\ Listed' = Listed
    BY ListedKept DEF Collection, Receive, ConfirmTransfer
  <1>2. \A q \in Orders : q # o => order'[q] = order[q] /\ (InTime(q)' <=> InTime(q))
    BY DEF Collection, Receive, ConfirmTransfer, InTime
  <1>3. o \notin refunds => order'[o].receivedOn >= 2 /\ order'[o].receivedOn <= today
    BY DEF Collection, Receive, ConfirmTransfer, DatesInv, OrderDates, OrderRow
  <1>4. InTime(o)' => order'[o].receivedOn = today
    BY DEF Collection, Receive, ConfirmTransfer, InTime, OrderRow
  <1>5. OrderDates'
    BY <1>1, <1>2, <1>3 DEF DatesInv, OrderDates
  <1>6. RunDates' /\ \A j \in Runs : job[j].at # "new" => job[j].date # today
    BY <1>1, SettlementParameters DEF DatesInv, RunDates, MadeInv, TypeOK, JobState, Days
  <1>7. Picked'
    BY <1>1, <1>2, <1>4, <1>6 DEF DatesInv, Picked
  <1>8. Covered'
    BY <1>1, <1>2, <1>4, <1>6 DEF DatesInv, Covered
  <1>9. ListedNextDay'
    BY <1>1, <1>2, <1>4 DEF DatesInv, ListedNextDay
  <1>10. RefundsKnown'
    <2>1. order'[o].status \in {"PAY_RECEIVED", "PENDING_SETTLE"}
      BY DEF Collection, Receive, ConfirmTransfer, OrderRow
    <2>. QED
      BY <1>1, <1>2, <2>1 DEF DatesInv, RefundsKnown
  <1>. QED
    BY <1>5, <1>6, <1>7, <1>8, <1>9, <1>10 DEF DatesInv

\* An order in refund is no longer one that is in time.
LEMMA RefundingDates ==
    ASSUME MadeInv, DatesInv, NEW o \in Orders, Refunding(o)
    PROVE  DatesInv'
  <1>. order \in [Orders -> OrderRow]
    BY DEF MadeInv, TypeOK
  <1>1. UNCHANGED <<today, batch, job>> /\ Listed' = Listed
    BY ListedKept DEF Refunding, RequestRefund, RejectRefund, CompleteRefund
  <1>2. refunds \subseteq refunds' /\ o \in refunds' /\ \A q \in Orders : q # o =>
            order'[q] = order[q] /\ (q \in refunds' <=> q \in refunds)
    BY DEF Refunding, RequestRefund, RejectRefund, CompleteRefund, DatesInv, RefundsKnown
  <1>3. \A q \in Orders : InTime(q)' => q # o /\ InTime(q) /\ order'[q] = order[q]
    BY <1>2 DEF InTime
  <1>4. RefundsKnown'
    BY <1>2 DEF DatesInv, RefundsKnown
  <1>5. OrderDates'
    BY <1>1, <1>2 DEF DatesInv, OrderDates
  <1>6. RunDates'
    BY <1>1 DEF DatesInv, RunDates
  <1>7. Picked'
    BY <1>1, <1>3 DEF DatesInv, Picked
  <1>8. Covered'
    BY <1>1, <1>3 DEF DatesInv, Covered
  <1>9. ListedNextDay'
    BY <1>1, <1>3 DEF DatesInv, ListedNextDay
  <1>. QED
    BY <1>4, <1>5, <1>6, <1>7, <1>8, <1>9 DEF DatesInv

LEMMA CreationDates ==
    ASSUME MadeInv, SettledInv, DatesInv, NEW j \in Runs, Creation(j) \/ CrashRun(j)
    PROVE  DatesInv'
  <1>. job \in [Runs -> JobState] /\ job[j] \in JobState /\ today \in Nat /\ today >= 2
    BY SettlementParameters DEF MadeInv, TypeOK
  <1>1. CASE ListPending(j)
    <2>. DEFINE s == IF Pending(SettleDate) = {} THEN "done" ELSE "screen"
    <2>1. UNCHANGED <<today, order, refunds, batch>> /\ Listed' = Listed
      BY <1>1, ListedKept DEF ListPending
    <2>2. job' = [job EXCEPT ![j] = [job[j] EXCEPT !.at = s, !.date = SettleDate,
                                                   !.picked = Pending(SettleDate)]]
      BY <1>1 DEF ListPending
    <2>3. SettleDate < today
      BY DEF SettleDate
    <2>4. job'[j].at = s /\ job'[j].date = SettleDate /\ job'[j].picked = Pending(SettleDate)
          /\ \A k \in Runs : k # j => job'[k] = job[k]
      BY <2>2 DEF JobState
    <2>5. ASSUME NEW o \in Orders, InTime(o), order[o].receivedOn = SettleDate
          PROVE  o \in Pending(SettleDate) \/ o \in Listed
      BY <2>5 DEF InTime, Pending, SettledInv, SettledAfterPayout, Listed
    <2>6. s = "done" => Pending(SettleDate) = {}
      OBVIOUS
    <2>. QED
      BY <2>1, <2>3, <2>4, <2>5, <2>6, RunsKept
  <1>2. CASE Screen(j)
    <2>. DEFINE s == IF job[j].picked \subseteq Listed THEN "done" ELSE "create"
    <2>1. UNCHANGED <<today, order, refunds, batch>> /\ Listed' = Listed /\ job[j].at = "screen"
      BY <1>2, ListedKept DEF Screen
    <2>2. job' = [job EXCEPT ![j] = [job[j] EXCEPT !.at = s, !.picked = job[j].picked \ Listed]]
      BY <1>2 DEF Screen
    <2>3. job'[j].at = s /\ job'[j].date = job[j].date /\ job'[j].picked = job[j].picked \ Listed
          /\ \A k \in Runs : k # j => job'[k] = job[k]
      BY <2>2 DEF JobState
    <2>4. \A o \in Orders : InTime(o) /\ order[o].receivedOn = job[j].date =>
             o \in job[j].picked \cup Listed
      BY <2>1 DEF DatesInv, Picked
    <2>5. job[j].date < today
      BY <2>1 DEF DatesInv, RunDates
    <2>6. s = "done" => job[j].picked \subseteq Listed
      OBVIOUS
    <2>. QED
      BY <2>1, <2>3, <2>4, <2>5, <2>6, RunsKept
  <1>3. CASE CreateBatches(j)
    <2>1. UNCHANGED <<today, order, refunds>> /\ job[j].at = "create"
      BY <1>3 DEF CreateBatches
    <2>2. job'[j].at = "distribute" /\ job'[j].date = job[j].date
          /\ \A k \in Runs : k # j => job'[k] = job[k]
      BY <1>3, CreateWrites, MakeTyped
    <2>3. Listed \subseteq Listed'
      <3>1. \A b \in Books : batch[j][b].orders = {}
        BY <1>3, CreateWrites
      <3>2. \A k \in Runs : k # j => batch'[k] = batch[k]
        BY <1>3, CreateWrites, MakeTyped
      <3>. QED
        BY <3>1, <3>2 DEF Listed
    <2>4. job[j].picked \subseteq Listed'
      <3>1. \A b \in Books : batch'[j][b].orders = PickedOf(j, b)
        BY <1>3, CreateWrites, MakeTyped
      <3>2. \A o \in job[j].picked : BookOf[o] \in Books /\ o \in PickedOf(j, BookOf[o])
        BY SettlementParameters DEF PickedOf, JobState
      <3>. QED
        BY <3>1, <3>2 DEF Listed
    <2>5. \A o \in Orders : InTime(o) /\ order[o].receivedOn = job[j].date => o \in Listed'
      BY <2>1, <2>3, <2>4 DEF DatesInv, Picked
    <2>6. job[j].date < today
      BY <2>1 DEF DatesInv, RunDates
    <2>. QED
      BY <2>1, <2>2, <2>3, <2>5, <2>6, RunsKept
  <1>4. CASE LoseBatches(j)
    <2>1. UNCHANGED <<today, order, refunds, batch>> /\ Listed' = Listed /\ job[j].at = "create"
      BY <1>4, ListedKept DEF LoseBatches
    <2>2. job'[j].at = "dead" /\ job'[j].date = job[j].date
          /\ \A k \in Runs : k # j => job'[k] = job[k]
      BY <1>4 DEF LoseBatches, JobState
    <2>3. job[j].date < today
      BY <2>1 DEF DatesInv, RunDates
    <2>. QED
      BY <2>1, <2>2, <2>3, RunsKept
  <1>5. CASE CrashRun(j)
    <2>1. UNCHANGED <<today, order, refunds, batch>> /\ Listed' = Listed /\ job[j].at # "new"
      BY <1>5, ListedKept DEF CrashRun
    <2>2. PICK s \in {"done", "dead"} :
             /\ s = "done" => job[j].at = "distribute"
             /\ job' = [job EXCEPT ![j] = [job[j] EXCEPT !.at = s, !.picked = {}, !.todo = {}]]
      BY <1>5 DEF CrashRun
    <2>3. job'[j].at = s /\ job'[j].date = job[j].date
          /\ \A k \in Runs : k # j => job'[k] = job[k]
      BY <2>2 DEF JobState
    <2>4. s = "done" => \A o \in Orders : InTime(o) /\ order[o].receivedOn = job[j].date =>
             o \in Listed
      BY <2>2 DEF DatesInv, Covered
    <2>5. job[j].date < today
      BY <2>1 DEF DatesInv, RunDates
    <2>. QED
      BY <2>1, <2>3, <2>4, <2>5, RunsKept
  <1>. QED
    BY <1>1, <1>2, <1>3, <1>4, <1>5 DEF Creation

\* Steps that leave the dates and what runs picked alone.
LEMMA PassiveDates ==
    ASSUME MadeInv, DatesInv, UNCHANGED <<today, refunds>>,
           \A j \in Runs, b \in Books : batch'[j][b].orders = batch[j][b].orders,
           \A j \in Runs : /\ job'[j].at = job[j].at /\ job'[j].date = job[j].date
                           /\ job'[j].picked = job[j].picked,
           \A o \in Orders : /\ order'[o].receivedOn = order[o].receivedOn
                             /\ order'[o].confirmedOn = order[o].confirmedOn
                             /\ \/ order'[o].status = order[o].status
                                \/ order'[o].status = "SETTLED" /\ o \in Listed
    PROVE  DatesInv'
  <1>1. Listed' = Listed
    BY DEF Listed
  <1>2. \A o \in Orders : InTime(o)' => InTime(o) \/ o \in Listed
    BY DEF InTime
  <1>3. OrderDates'
    BY DEF DatesInv, OrderDates
  <1>4. RunDates'
    BY DEF DatesInv, RunDates
  <1>5. Picked'
    BY <1>1, <1>2 DEF DatesInv, Picked
  <1>6. Covered'
    BY <1>1, <1>2 DEF DatesInv, Covered
  <1>7. ListedNextDay'
    BY <1>1, <1>2 DEF DatesInv, ListedNextDay
  <1>8. RefundsKnown'
    BY DEF DatesInv, RefundsKnown
  <1>. QED
    BY <1>3, <1>4, <1>5, <1>6, <1>7, <1>8 DEF DatesInv

LEMMA DatesStep ==
    ASSUME MadeInv, SettledInv, DatesInv, [Next]_vars
    PROVE  DatesInv'
  <1>. today \in Nat /\ order \in [Orders -> OrderRow]
    BY SettlementParameters DEF MadeInv, TypeOK
  <1>1. CASE Midnight
    <2>1. UNCHANGED <<order, refunds, batch, job>> /\ today' = today + 1 /\ Listed' = Listed
      BY <1>1, ListedKept DEF Midnight
    <2>2. OrderDates'
      <3>1. \A o \in Orders : order[o].receivedOn \in Nat
        BY SettlementParameters DEF OrderRow, Days
      <3>. QED
        BY <2>1, <3>1 DEF DatesInv, OrderDates
    <2>3. RunDates'
      <3>1. \A j \in Runs : job[j].date \in Nat
        BY SettlementParameters DEF MadeInv, TypeOK, JobState, Days
      <3>. QED
        BY <2>1, <3>1 DEF DatesInv, RunDates
    <2>4. Picked' /\ Covered'
      BY <2>1 DEF DatesInv, Picked, Covered, InTime
    <2>5. ASSUME NEW o \in Orders, InTime(o), today + 1 > order[o].receivedOn + 1
          PROVE  o \in Listed
      <3>1. CASE order[o].status = "SETTLED"
        BY <3>1 DEF SettledInv, SettledAfterPayout, Listed
      <3>2. CASE order[o].status = "PENDING_SETTLE" /\ order[o].receivedOn = today - 1
        <4>1. order[o].receivedOn >= 2 /\ today # 2
          BY <2>5, <3>2 DEF DatesInv, OrderDates, InTime
        <4>2. PICK j \in Runs : job[j].date = today - 1 /\ job[j].at \in {"distribute", "done"}
          BY <1>1, <4>1 DEF Midnight, SettledYesterday
        <4>. QED
          BY <2>5, <3>2, <4>2 DEF DatesInv, Covered
      <3>3. CASE order[o].receivedOn # today - 1
        <4>1. order[o].receivedOn \in Nat
          BY SettlementParameters DEF OrderRow, Days
        <4>2. today > order[o].receivedOn + 1
          BY <2>5, <3>3, <4>1
        <4>. QED
          BY <2>5, <4>2 DEF DatesInv, ListedNextDay
      <3>. QED
        BY <2>5, <3>1, <3>2, <3>3 DEF InTime
    <2>6. ListedNextDay'
      BY <2>1, <2>5 DEF ListedNextDay, InTime
    <2>7. RefundsKnown'
      BY <2>1 DEF DatesInv, RefundsKnown
    <2>. QED
      BY <2>2, <2>3, <2>4, <2>6, <2>7 DEF DatesInv
  <1>2. CASE UtcMidnight \/ UNCHANGED vars \/ \E w \in Operators : CrashOperator(w)
    <2>1. UNCHANGED <<today, order, refunds, batch, job>>
      BY <1>2 DEF UtcMidnight, CrashOperator, vars
    <2>. QED
      BY <2>1, PassiveDates
  <1>3. ASSUME NEW o \in Orders, Collection(o)
        PROVE  DatesInv'
    BY <1>3, CollectionDates
  <1>7. ASSUME NEW o \in Orders, Refunding(o)
        PROVE  DatesInv'
    BY <1>7, RefundingDates
  <1>4. ASSUME NEW j \in Runs, Creation(j) \/ CrashRun(j)
        PROVE  DatesInv'
    BY <1>4, CreationDates
  <1>5. ASSUME NEW j \in Runs, NEW b \in Books,
               TakeBatch(j, b) \/ \E w \in Operators : ReadApproval(w, j, b)
        PROVE  DatesInv'
    <2>1. PICK p \in Processes : Begins(p, j, b)
      BY <1>5, SomeBegins
    <2>2. UNCHANGED <<today, order, refunds, batch>>
      BY <2>1, BeginWrites
    <2>3. \A k \in Runs : /\ job'[k].at = job[k].at /\ job'[k].date = job[k].date
                          /\ job'[k].picked = job[k].picked
      BY <2>1, BeginWrites
    <2>. QED
      BY <2>2, <2>3, PassiveDates
  <1>6. ASSUME NEW p \in Processes, Distribution(p)
        PROVE  DatesInv'
    <2>1. /\ UNCHANGED <<today, refunds, job>>
          /\ payout[p].run \in Runs /\ payout[p].book \in Books
          /\ \A j \in Runs, b \in Books : batch'[j][b].orders = batch[j][b].orders
      BY <1>6, DistributionWrites
    <2>2. ASSUME NEW o \in Orders
          PROVE  /\ order'[o].receivedOn = order[o].receivedOn
                 /\ order'[o].confirmedOn = order[o].confirmedOn
                 /\ \/ order'[o].status = order[o].status
                    \/ order'[o].status = "SETTLED" /\ o \in Listed
      <3>1. /\ order'[o].receivedOn = order[o].receivedOn
            /\ order'[o].confirmedOn = order[o].confirmedOn
            /\ order'[o].status \in {order[o].status, "SETTLED"}
        BY <1>6, DistributionWrites
      <3>2. order'[o].status = "SETTLED" => order[o].status = "SETTLED" \/ o \in Listed
        BY <1>6, <2>1, SettlingWrites DEF Listed
      <3>. QED
        BY <3>1, <3>2
    <2>. QED
      BY <2>1, <2>2, PassiveDates
  <1>. QED
    BY <1>1, <1>2, <1>3, <1>4, <1>5, <1>6, <1>7 DEF Next

LEMMA InitDates == Init => DatesInv
  <1>. SUFFICES ASSUME Init PROVE DatesInv
    OBVIOUS
  <1>1. \A o \in Orders : order[o].status = "PENDING_PAY"
    BY DEF Init
  <1>2. \A j \in Runs : job[j].at = "new"
    BY DEF Init
  <1>. QED
    BY <1>1, <1>2
    DEF DatesInv, RefundsKnown, OrderDates, RunDates, Picked, Covered, ListedNextDay, InTime

\* ListedNextDay of the runs: whichever runs crash, lose their batches or take
\* another date, an order confirmed the day it came in, and never in refund, is
\* listed the next.
THEOREM NoneOverlooked == Spec => []ListedNextDay
  <1>1. DatesInv => ListedNextDay
    BY DEF DatesInv
  <1>. QED
    BY <1>1, InitMade, StepMade, InitSettled, SettledStep, InitDates, DatesStep, PTL DEF Spec
=============================================================================
