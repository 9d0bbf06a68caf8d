-------------------------------- MODULE Payout --------------------------------
(***************************************************************************)
(* Paying one driver.  A settlement nets what a period earned him against  *)
(* the share of cash fares he still owes and against older debts, and      *)
(* credits his wallet; finance reserves payouts against a settlement and   *)
(* the wallet, and confirms or fails each after the bank transfer.         *)
(*                                                                         *)
(* A call is one transaction that locks rows one after the other, may wait *)
(* for each, reads what it locked and commits.  What a locked row holds    *)
(* nobody else changes, so everything is read at the commit; only the      *)
(* calculation of a settlement reads before its transaction.               *)
(***************************************************************************)
EXTENDS Integers, Sequences, FiniteSets, Functions

CONSTANTS
    Settlements,    \* periods of one driver; days that do not overlap
    Payouts,        \* rows, and idempotency keys
    Sessions,       \* transactions in flight
    Absent,         \* no payout, settlement or session
    Confirming,     \* cashConfirmationRequired()
    MaxEarned,      \* bound: what the wallet rides of a period earn him
    MaxWithdrawals, \* bound: withdrawal requests
    MaxMoves        \* bound: status changes of a settlement batch

ASSUME FiniteAssumption == IsFiniteSet(Settlements) /\ IsFiniteSet(Payouts)
ASSUME AbsentAssumption ==
    Absent \notin Sessions \cup Payouts \cup Settlements \cup {"wallet"}
ASSUME RowsAssumption ==
    /\ Payouts \cap Settlements = {}
    /\ "wallet" \notin Payouts \cup Settlements
ASSUME PayoutBoundAssumption ==
    /\ Confirming \in BOOLEAN
    /\ MaxEarned \in Nat /\ MaxWithdrawals \in Nat /\ MaxMoves \in Nat

VARIABLES
    earned,         \* earned[s]: of wallet rides of the period, constant
    cash,           \* cash[s]: our share of its cash rides, one unit each
    recovered,      \* recovered[s]: what confirmations took of cash[s]
    settlement,     \* settlement[s] = [status, net, adjustments]
    payout,         \* payout[p] = [status, of, amount]
    walletBalance,  \* of the driver's wallet, may be negative
    locked,         \* lockedBalance
    withdrawals,    \* requests made; nothing in the code ever processes one
    call,           \* call[c]: what c does and which rows it has yet to lock
    holder,         \* holder[row]: the call that locked it
    moves

periodVars == <<earned, cash, recovered>>
walletVars == <<walletBalance, locked, withdrawals>>
lockVars   == <<call, holder>>
payoutVars ==
    <<earned, cash, recovered, settlement, payout, walletBalance, locked,
      withdrawals, call, holder, moves>>

-----------------------------------------------------------------------------
Rows == Payouts \cup Settlements \cup {"wallet"}

\* "PENDING" stands for APPROVED and PROCESSING too, which are as payable.
Statuses == {"PENDING", "FAILED"}

Unsettled == [status |-> "none", net |-> 0, adjustments |-> 0]
NoPayout  == [status |-> "none", of |-> Absent, amount |-> 0]
NoCall == [kind |-> "none", payout |-> Absent, settlement |-> Absent,
         amount |-> 0, adjustments |-> 0, wants |-> <<>>]

Least(a, b) == IF a < b THEN a ELSE b
Greatest(a, b) == IF a < b THEN b ELSE a

SumOf(P) == SumFunctionOnSet([p \in Payouts |-> payout[p].amount], P)

\* sumCommittedForSettlement: everything that did not fail.
CommittedPayouts(s) == {p \in Payouts : payout[p].of = s /\ payout[p].status # "FAILED"}

\* sumCompletedForSettlement
Completed(s) == {p \in Payouts : payout[p].of = s /\ payout[p].status = "COMPLETED"}

Existing == {s \in Settlements : settlement[s].status # "none"}

\* cumulativeNetPayable, less than nothing or nothing.
Carried == Least(0, SumFunction([s \in Settlements |-> settlement[s].net]))

PayoutInit ==
    /\ earned \in [Settlements -> 0..MaxEarned]
    /\ cash \in [Settlements -> 0..1]
    /\ recovered = [s \in Settlements |-> 0]
    /\ settlement = [s \in Settlements |-> Unsettled]
    /\ payout = [p \in Payouts |-> NoPayout]
    /\ walletBalance = 0
    /\ locked = 0
    /\ withdrawals = 0
    /\ call = [c \in Sessions |-> NoCall]
    /\ holder = [row \in Rows |-> Absent]
    /\ moves = 0

Free(row) == holder[row] = Absent

-----------------------------------------------------------------------------
(* Around the payouts.                                                     *)

\* confirmCash: the driver owes our share of a fare he took in cash.
ConfirmCash(s) ==
    /\ Confirming
    /\ recovered[s] < cash[s]
    /\ Free("wallet")
    /\ recovered' = [recovered EXCEPT ![s] = @ + 1]
    /\ walletBalance' = walletBalance - 1
    /\ UNCHANGED <<earned, cash, settlement, payout, locked, withdrawals,
                   lockVars, moves>>

\* DriverWithdrawalService.create
RequestWithdrawal ==
    /\ withdrawals < MaxWithdrawals
    /\ Free("wallet")
    /\ 1 <= walletBalance - locked
    /\ locked' = locked + 1
    /\ withdrawals' = withdrawals + 1
    /\ UNCHANGED <<periodVars, settlement, payout, walletBalance, lockVars, moves>>

(* Mutant of UpdateSettlementStatus: a paid settlement is moved as well. *)
UpdateSettlementStatusPaid(s, status) ==
    /\ moves < MaxMoves
    /\ settlement[s].status # "none"
    /\ Free(s)
    /\ settlement' = [settlement EXCEPT ![s].status = status]
    /\ moves' = moves + 1
    /\ UNCHANGED <<periodVars, payout, walletVars, lockVars>>

\* updateSettlementStatus: the workflow of a batch, of which this driver's
\* settlement is one; it never touches one that is paid.
UpdateSettlementStatus(s, status) ==
    /\ moves < MaxMoves
    /\ settlement[s].status \notin {"none", "PAID"}
    /\ Free(s)
    /\ settlement' = [settlement EXCEPT ![s].status = status]
    /\ moves' = moves + 1
    /\ UNCHANGED <<periodVars, payout, walletVars, lockVars>>

-----------------------------------------------------------------------------
(* The calls.                                                              *)

\* calculateSettlement of a period with rides, before its transaction: what
\* the period comes to, and the debt of older ones.
BeginSettle(c, s) ==
    /\ call[c] = NoCall
    /\ settlement[s].status = "none"
    /\ earned[s] + cash[s] > 0
    /\ call' = [call EXCEPT ![c] =
           [NoCall EXCEPT !.kind = "settle", !.settlement = s,
                        !.amount = earned[s] - (cash[s] - recovered[s]),
                        !.adjustments = Carried]]
    /\ UNCHANGED <<periodVars, settlement, payout, walletVars, holder, moves>>

\* Its transaction: the unique key on the period lets one run in, and only
\* what is positive moves money.
CreateSettlement(c) ==
    LET s == call[c].settlement
        net == call[c].amount + call[c].adjustments
    IN  /\ call[c].kind = "settle"
        /\ settlement[s].status = "none"
        /\ Free("wallet")
        /\ settlement' = [settlement EXCEPT ![s] =
               [status |-> "PENDING", net |-> net,
                adjustments |-> call[c].adjustments]]
        /\ walletBalance' = walletBalance + Greatest(0, net)
        /\ call' = [call EXCEPT ![c] = NoCall]
        /\ UNCHANGED <<periodVars, payout, locked, withdrawals, holder, moves>>

\* executePayout starts at the settlement: it has no payout to lock.
BeginExecute(c, p, s, a) ==
    /\ call[c] = NoCall
    /\ payout[p].status = "none"
    /\ settlement[s].status # "none"
    /\ call' = [call EXCEPT ![c] =
           [NoCall EXCEPT !.kind = "execute", !.payout = p, !.settlement = s,
                        !.amount = a, !.wants = <<s, "wallet">>]]
    /\ UNCHANGED <<periodVars, settlement, payout, walletVars, holder, moves>>

(* Mutant of BeginConfirm: the wallet before the settlement. *)
BeginConfirmBackwards(c, p) ==
    /\ call[c] = NoCall
    /\ payout[p].status = "INITIATED"
    /\ call' = [call EXCEPT ![c] =
           [NoCall EXCEPT !.kind = "confirm", !.payout = p,
                        !.settlement = payout[p].of,
                        !.wants = <<p, "wallet", payout[p].of>>]]
    /\ UNCHANGED <<periodVars, settlement, payout, walletVars, holder, moves>>

\* confirmPayout
BeginConfirm(c, p) ==
    /\ call[c] = NoCall
    /\ payout[p].status = "INITIATED"
    /\ call' = [call EXCEPT ![c] =
           [NoCall EXCEPT !.kind = "confirm", !.payout = p,
                        !.settlement = payout[p].of,
                        !.wants = <<p, payout[p].of, "wallet">>]]
    /\ UNCHANGED <<periodVars, settlement, payout, walletVars, holder, moves>>

\* failPayout
BeginFail(c, p) ==
    /\ call[c] = NoCall
    /\ payout[p].status = "INITIATED"
    /\ call' = [call EXCEPT ![c] =
           [NoCall EXCEPT !.kind = "fail", !.payout = p, !.wants = <<p, "wallet">>]]
    /\ UNCHANGED <<periodVars, settlement, payout, walletVars, holder, moves>>

\* lockForUpdate
Lock(c) ==
    /\ call[c].wants # <<>>
    /\ Free(Head(call[c].wants))
    /\ holder' = [holder EXCEPT ![Head(call[c].wants)] = c]
    /\ call' = [call EXCEPT ![c].wants = Tail(@)]
    /\ UNCHANGED <<periodVars, settlement, payout, walletVars, moves>>

\* A transaction has every lock it asked for.
Ready(c, kind) == call[c].kind = kind /\ call[c].wants = <<>>

\* It ends, and its locks with it.
Leave(c) ==
    /\ call' = [call EXCEPT ![c] = NoCall]
    /\ holder' = [row \in Rows |-> IF holder[row] = c THEN Absent ELSE holder[row]]

\* A check refuses it, its idempotency key is taken, or its process dies.
RollBack(c) ==
    /\ call[c] # NoCall
    /\ Leave(c)
    /\ UNCHANGED <<periodVars, settlement, payout, walletVars, moves>>

(* Mutant of ExecutePayout: what other payouts hold counts as available. *)
ExecutePayoutOnBalance(c) ==
    LET p == call[c].payout
        s == call[c].settlement
        a == call[c].amount
    IN  /\ Ready(c, "execute")
        /\ settlement[s].status \notin {"PAID", "FAILED"}
        /\ a <= settlement[s].net - SumOf(CommittedPayouts(s))
        /\ a <= walletBalance
        /\ payout[p].status = "none"
        /\ locked' = locked + a
        /\ payout' = [payout EXCEPT ![p] =
               [status |-> "INITIATED", of |-> s, amount |-> a]]
        /\ Leave(c)
        /\ UNCHANGED <<periodVars, settlement, walletBalance, withdrawals, moves>>

\* Within what the settlement owes and has not promised, and within what the
\* wallet holds and has not promised.
ExecutePayout(c) ==
    LET p == call[c].payout
        s == call[c].settlement
        a == call[c].amount
    IN  /\ Ready(c, "execute")
        /\ settlement[s].status \notin {"PAID", "FAILED"}
        /\ a <= settlement[s].net - SumOf(CommittedPayouts(s))
        /\ a <= walletBalance - locked
        /\ payout[p].status = "none"
        /\ locked' = locked + a
        /\ payout' = [payout EXCEPT ![p] =
               [status |-> "INITIATED", of |-> s, amount |-> a]]
        /\ Leave(c)
        /\ UNCHANGED <<periodVars, settlement, walletBalance, withdrawals, moves>>

\* markSettlementPaidIfCovered
Covered(s, p) ==
    SumOf(Completed(s) \cup {p}) >= settlement[s].net

(* Mutant of ConfirmPayout: the hold stays when the money leaves. *)
ConfirmPayoutStillHeld(c) ==
    LET p == call[c].payout
        s == call[c].settlement
    IN  /\ Ready(c, "confirm")
        /\ payout[p].status = "INITIATED"
        /\ payout[p].amount <= walletBalance
        /\ walletBalance' = walletBalance - payout[p].amount
        /\ payout' = [payout EXCEPT ![p].status = "COMPLETED"]
        /\ settlement' = [settlement EXCEPT ![s].status =
               IF Covered(s, p) THEN "PAID" ELSE @]
        /\ Leave(c)
        /\ UNCHANGED <<periodVars, locked, withdrawals, moves>>

\* The transfer was made: hold and money leave together, never below zero.
ConfirmPayout(c) ==
    LET p == call[c].payout
        s == call[c].settlement
    IN  /\ Ready(c, "confirm")
        /\ payout[p].status = "INITIATED"
        /\ payout[p].amount <= walletBalance
        /\ walletBalance' = walletBalance - payout[p].amount
        /\ locked' = locked - payout[p].amount
        /\ payout' = [payout EXCEPT ![p].status = "COMPLETED"]
        /\ settlement' = [settlement EXCEPT ![s].status =
               IF Covered(s, p) THEN "PAID" ELSE @]
        /\ Leave(c)
        /\ UNCHANGED <<periodVars, withdrawals, moves>>

\* The transfer was not made.
FailPayout(c) ==
    LET p == call[c].payout
    IN  /\ Ready(c, "fail")
        /\ payout[p].status = "INITIATED"
        /\ locked' = locked - payout[p].amount
        /\ payout' = [payout EXCEPT ![p].status = "FAILED"]
        /\ Leave(c)
        /\ UNCHANGED <<periodVars, settlement, walletBalance, withdrawals, moves>>

-----------------------------------------------------------------------------
PayoutAmounts == 1..MaxEarned

PayoutNext ==
    \/ RequestWithdrawal
    \/ \E s \in Settlements : ConfirmCash(s)
    \/ \E s \in Settlements, status \in Statuses : UpdateSettlementStatus(s, status)
    \/ \E c \in Sessions, s \in Settlements : BeginSettle(c, s)
    \/ \E c \in Sessions, p \in Payouts : BeginConfirm(c, p) \/ BeginFail(c, p)
    \/ \E c \in Sessions, p \in Payouts, s \in Settlements, a \in PayoutAmounts :
           BeginExecute(c, p, s, a)
    \/ \E c \in Sessions : \/ Lock(c) \/ CreateSettlement(c) \/ ExecutePayout(c)
                          \/ ConfirmPayout(c) \/ FailPayout(c) \/ RollBack(c)

PayoutSpec == PayoutInit /\ [][PayoutNext]_payoutVars

-----------------------------------------------------------------------------
(* Properties that hold.                                                   *)

SettlementRows ==
    [status : Statuses \cup {"none", "PAID"}, net : Int, adjustments : Int]
PayoutRows ==
    [status : {"none", "INITIATED", "COMPLETED", "FAILED"},
     of : Settlements \cup {Absent}, amount : Nat]
Calls ==
    [kind : {"none", "settle", "execute", "confirm", "fail"},
     payout : Payouts \cup {Absent}, settlement : Settlements \cup {Absent},
     amount : Int, adjustments : Int, wants : Seq(Rows)]

\* Every variable keeps its type.
PayoutTypeOK ==
    /\ earned \in [Settlements -> 0..MaxEarned]
    /\ cash \in [Settlements -> 0..1]
    /\ recovered \in [Settlements -> 0..1]
    /\ settlement \in [Settlements -> SettlementRows]
    /\ payout \in [Payouts -> PayoutRows]
    /\ walletBalance \in Int
    /\ locked \in Nat
    /\ withdrawals \in 0..MaxWithdrawals
    /\ call \in [Sessions -> Calls]
    /\ holder \in [Rows -> Sessions \cup {Absent}]
    /\ moves \in 0..MaxMoves

\* What is held in the wallet is what payouts in progress and withdrawal
\* requests are for, and the wallet is what settlements brought, less what was
\* transferred and less what confirmations took: no hold is lost or outlives
\* its payout, each settlement is credited once and each payout debited once,
\* whatever calls overlap.
MoneyAccountedFor ==
    /\ locked = withdrawals
                + SumOf({p \in Payouts : payout[p].status = "INITIATED"})
    /\ walletBalance =
         SumFunction([s \in Settlements |->
                          Greatest(0, settlement[s].net) - recovered[s]])
         - SumOf({p \in Payouts : payout[p].status = "COMPLETED"})

\* A settlement is PAID exactly when completed transfers cover it, and no
\* workflow of its batch reopens it.
PaidIffCovered ==
    \A s \in Settlements :
        settlement[s].status = "PAID" <=>
            Completed(s) # {} /\ SumOf(Completed(s)) >= settlement[s].net

\* A call waits for whoever holds the row it wants next.
Waits(c, S) ==
    /\ call[c].wants # <<>>
    /\ holder[Head(call[c].wants)] \in S

\* No calls wait for each other in a circle, of which the database would have
\* to kill one.
NoDeadlock ==
    \A S \in SUBSET Sessions : S # {} => \E c \in S : ~Waits(c, S)

\* What the settlements that exist owe, and how far each payout is.
Due == [s \in Existing |-> settlement[s].net]
Stage == [p \in Payouts |->
    [at |-> CASE payout[p].status = "none" -> "none"
              [] payout[p].status = "INITIATED" -> "held"
              [] payout[p].status = "COMPLETED" -> "paid"
              [] payout[p].status = "FAILED" -> "dropped",
     of |-> payout[p].of, amount |-> payout[p].amount]]

Account == INSTANCE PayoutPromise WITH
    Nothing <- Absent, MaxAmount <- MaxEarned, due <- Due, funds <- walletBalance,
    pledged <- withdrawals, stage <- Stage

\* The calls, row by row, implement PayoutPromise, where each is one step.
KeepsPayoutPromise == Account!Spec

=============================================================================
