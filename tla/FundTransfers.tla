--------------------------- MODULE FundTransfers ---------------------------
(***************************************************************************)
(* Transfers between nostro accounts.  The generic create, which most of   *)
(* them come from, asks neither that the amount is positive nor that the   *)
(* two accounts differ.  The generic update, which may set the status and  *)
(* the amount of a row, is left out.                                       *)
(***************************************************************************)
EXTENDS Books

CONSTANTS Transfers,      \* FundTransfer rows
          From, To,       \* [Transfers -> Accounts]
          TransferSum,    \* [Transfers -> amount], of either sign
          MaxCalls        \* bound: bank calls for one row

ASSUME TransferParameters ==
    /\ From \in [Transfers -> Accounts]
    /\ To \in [Transfers -> Accounts]
    /\ TransferSum \in [Transfers -> Int]
    /\ MaxCalls \in Nat

VARIABLES transfer,   \* [Transfers -> status]
          moved,      \* [Transfers -> transfers the bank has made]
          shifted     \* [Transfers -> times the two balances were changed]

transferVars == <<transfer, moved, shifted>>

TransferStatuses == {"PENDING", "SUCCESS", "FAILED"}
TransferSteps == {"transfer", "shift"}

TransfersTypeOK ==
    /\ transfer \in [Transfers -> TransferStatuses]
    /\ moved \in [Transfers -> Nat]
    /\ shifted \in [Transfers -> Nat]

TransfersInit ==
    /\ transfer = [t \in Transfers |-> "PENDING"]
    /\ moved = [t \in Transfers |-> 0]
    /\ shifted = [t \in Transfers |-> 0]

-----------------------------------------------------------------------------
\* execute: the status is that of the row as the view read it.
ReadTransfer(w, t) ==
    /\ transfer[t] = "PENDING"
    /\ Begin(w, "transfer", t)
    /\ UNCHANGED <<nostro, va, recharged, overlapped, admin, transferVars>>

\* The row is locked, its status not looked at again, and the bank called.  If
\* the bank refuses, FAILED is saved and rolled back with the transaction.
CallTransfer(w) ==
    LET t == job[w].on
    IN  /\ job[w].at = "transfer"
        /\ ~ Locked(t, {"shift"})
        /\ \/ /\ moved[t] < MaxCalls
              /\ moved' = [moved EXCEPT ![t] = @ + 1]
              /\ Go(w, "shift")
           \/ Return(w) /\ UNCHANGED moved
        /\ UNCHANGED <<nostro, va, recharged, overlapped, admin, transfer, shifted>>

\* update_balance, a DEBIT of one account and a CREDIT of the other; only the
\* DEBIT is asked about, so a negative sum is taken from the other unasked.
ShiftBalances(t) ==
    nostro' = [a \in Accounts |->
                  [nostro[a] EXCEPT !.balance = @ - (IF a = From[t] THEN TransferSum[t] ELSE 0)
                                                  + (IF a = To[t] THEN TransferSum[t] ELSE 0)]]

\* A variant with a bug: the transaction commits the status before it finds
\* that the balance does not suffice.
ShiftAfterStatus(w) ==
    LET t == job[w].on
    IN  /\ job[w].at = "shift"
        /\ transfer' = [transfer EXCEPT ![t] = "SUCCESS"]
        /\ IF Covers(From[t], TransferSum[t])
           THEN /\ ShiftBalances(t)
                /\ shifted' = [shifted EXCEPT ![t] = @ + 1]
           ELSE UNCHANGED <<nostro, shifted>>
        /\ Return(w)
        /\ UNCHANGED <<va, recharged, overlapped, admin, moved>>

\* Both balances are changed under their locks and SUCCESS is saved, or the
\* balance does not suffice and everything but the bank's transfer is undone.
\* Two opposite transfers lock the accounts in opposite orders: the one the
\* database aborts ends in Crash.
Shift(w) ==
    LET t == job[w].on
    IN  /\ job[w].at = "shift"
        /\ \/ /\ Covers(From[t], TransferSum[t])
              /\ ShiftBalances(t)
              /\ shifted' = [shifted EXCEPT ![t] = @ + 1]
              /\ transfer' = [transfer EXCEPT ![t] = "SUCCESS"]
           \/ ~ Covers(From[t], TransferSum[t]) /\ UNCHANGED <<nostro, shifted, transfer>>
        /\ Return(w)
        /\ UNCHANGED <<va, recharged, overlapped, admin, moved>>

TransferHandlers ==
    \/ \E w \in Workers, t \in Transfers : ReadTransfer(w, t)
    \/ \E w \in Workers : CallTransfer(w) \/ Shift(w)
=============================================================================
