------------------------------ MODULE Collection ------------------------------
(***************************************************************************)
(* Collecting the fares of one rider.  A WALLET ride is charged to the     *)
(* rider's balance, up to MaxAttempts times, and then becomes a receivable *)
(* that is settled late or written off; any other ride is acknowledged by  *)
(* its driver, or by the sweep after a grace period.                       *)
(*                                                                         *)
(* Every call takes the Redis lock of the ride, reads the ride without a   *)
(* row lock, and decides in one transaction.  The lock expires after 30 s, *)
(* under a call that is slow; what a call read is then out of date.        *)
(***************************************************************************)
EXTENDS Integers, FiniteSets

CONSTANTS
    Rides,          \* of one rider
    Callers,        \* sweeps, consumers, riders, drivers, the write-off job
    Nobody,
    MaxAttempts,    \* paymentConfig.collectionMaxAttempts
    MaxCredit,      \* bound: fares that are put into the wallet
    MaxFaults       \* bound: crashes and expired locks of running calls

ASSUME RidesAssumption == IsFiniteSet(Rides)
ASSUME NobodyAssumption == Nobody \notin Callers \cup Rides
ASSUME AttemptsAssumption == MaxAttempts \in Nat \ {0}
ASSUME BoundAssumption == MaxCredit \in Nat /\ MaxFaults \in Nat

VARIABLES
    confirming,     \* cashConfirmationRequired()
    method,         \* method[r] \in {"WALLET", "CASH"}; CARD and UPI are as CASH
    payment,        \* rides.payment_status; "none" before completion
    failed,         \* failed[r]: FAILED rows of ride_payments
    succeeded,      \* succeeded[r]: SUCCEEDED rows
    writtenOff,     \* writtenOff[r]: WRITTEN_OFF rows
    posted,         \* posted[r]: ledger groups, by what they record
    receipt,        \* receipt[r]: the payment state it shows, or "none"
    balance,        \* of the rider's wallet, in fares
    credited,       \* fares put into it so far
    lock,           \* lock[r]: holder of payment:collect:<ride>
    call,           \* call[c]: what c is doing
    notified,       \* rides whose last failure was published
    overlapped,     \* rides two calls worked on at once
    faults

rowVars    == <<payment, failed, succeeded, writtenOff>>
moneyVars  == <<posted, balance, credited>>
historyVars == <<notified, overlapped>>
vars == <<confirming, method, payment, failed, succeeded, writtenOff, posted,
          receipt, balance, credited, lock, call, notified, overlapped, faults>>

-----------------------------------------------------------------------------
\* "trip": fare to driver and platform; "share": a cash driver owes ours;
\* "receivable": the same recognised against the rider's debt; "settled" and
\* "bad_debt": the two ways such a debt is cleared.
Groups == {"trip", "share", "receivable", "settled", "bad_debt"}

Kinds == {"collect", "confirm", "settle", "write_off"}

Idle == [kind |-> "none", ride |-> Nobody, at |-> "idle", failedSoFar |-> 0]

Working(r) == {c \in Callers : call[c].ride = r}

Fault == faults < MaxFaults /\ faults' = faults + 1

At(c, kind, place) == call[c].kind = kind /\ call[c].at = place

Goto(c, place) == call' = [call EXCEPT ![c].at = place]

Post(r, group) == posted' = [posted EXCEPT ![r][group] = @ + 1]

\* projectCollectionState, as a receipt shows it.
Projection(r, status) ==
    CASE status = "PAID" -> "PAID"
      [] status = "FAILED" -> IF writtenOff[r] = 1 THEN "WRITTEN_OFF" ELSE "UNPAID"
      [] OTHER -> "AWAITING"

\* generateReceipt: the first one stays.
IssueReceipt(r, status) ==
    receipt' = [receipt EXCEPT ![r] = IF @ = "none" THEN Projection(r, status)
                                      ELSE @]

Init ==
    /\ confirming \in BOOLEAN
    /\ method \in [Rides -> {"WALLET", "CASH"}]
    /\ payment = [r \in Rides |-> "none"]
    /\ failed = [r \in Rides |-> 0]
    /\ succeeded = [r \in Rides |-> 0]
    /\ writtenOff = [r \in Rides |-> 0]
    /\ posted = [r \in Rides |-> [g \in Groups |-> 0]]
    /\ receipt = [r \in Rides |-> "none"]
    /\ balance = 0
    /\ credited = 0
    /\ lock = [r \in Rides |-> Nobody]
    /\ call = [c \in Callers |-> Idle]
    /\ notified = {}
    /\ overlapped = {}
    /\ faults = 0

-----------------------------------------------------------------------------
(* Around the calls.                                                       *)

\* completeRide: what the driver has been given in hand is PAID at once,
\* unless somebody has to confirm it.
CompleteRide(r) ==
    /\ payment[r] = "none"
    /\ IF method[r] = "CASH" /\ ~confirming
       THEN payment' = [payment EXCEPT ![r] = "PAID"] /\ Post(r, "trip")
       ELSE payment' = [payment EXCEPT ![r] = "PENDING"] /\ UNCHANGED posted
    /\ UNCHANGED <<confirming, method, failed, succeeded, writtenOff, receipt,
                   balance, credited, lock, call, historyVars, faults>>

\* creditInTx
Credit ==
    /\ credited < MaxCredit
    /\ credited' = credited + 1
    /\ balance' = balance + 1
    /\ UNCHANGED <<confirming, method, rowVars, posted, receipt, lock, call,
                   historyVars, faults>>

\* Somebody opens the receipt, or the consumer of ride.completed finds
\* nothing to collect.
ViewReceipt(r) ==
    /\ IssueReceipt(r, payment[r])
    /\ UNCHANGED <<confirming, method, rowVars, moneyVars, lock, call,
                   historyVars, faults>>

-----------------------------------------------------------------------------
(* The calls.                                                              *)

\* What a call of each kind goes on with; the caller or the sweep looks at
\* this before it calls, and the call again when it has the lock.
Eligible(kind, r) ==
    CASE kind = "collect"   -> payment[r] = "PENDING" /\ method[r] = "WALLET"
      [] kind = "confirm"   -> /\ payment[r] = "PENDING" /\ method[r] = "CASH"
                               /\ confirming /\ succeeded[r] = 0
      [] kind = "settle"    -> /\ payment[r] = "FAILED" /\ method[r] = "WALLET"
                               /\ writtenOff[r] = 0
      [] kind = "write_off" -> payment[r] = "FAILED"

Acquire(c, kind, r) ==
    /\ call[c] = Idle
    /\ Eligible(kind, r)
    /\ lock[r] = Nobody
    /\ lock' = [lock EXCEPT ![r] = c]
    /\ call' = [call EXCEPT ![c] = [kind |-> kind, ride |-> r, at |-> "locked",
                                    failedSoFar |-> 0]]
    /\ overlapped' = IF Working(r) = {} THEN overlapped ELSE overlapped \cup {r}
    /\ UNCHANGED <<confirming, method, rowVars, moneyVars, receipt, notified,
                   faults>>

\* The ride is read, without a row lock; the write-off reads nothing yet.
ReadRide(c) ==
    LET kind == call[c].kind IN
    /\ call[c].at = "locked"
    /\ Goto(c, IF ~Eligible(kind, call[c].ride) THEN "done"
               ELSE IF kind = "collect" THEN "counting" ELSE "ready")
    /\ UNCHANGED <<confirming, method, rowVars, moneyVars, receipt, lock,
                   historyVars, faults>>

\* countAttempts
CountAttempts(c) ==
    /\ At(c, "collect", "counting")
    /\ call' = [call EXCEPT ![c].at = "ready",
                            ![c].failedSoFar = failed[call[c].ride]]
    /\ UNCHANGED <<confirming, method, rowVars, moneyVars, receipt, lock,
                   historyVars, faults>>

\* claimPaymentStatusIf: conditional, so of two claims one wins.
Claim(r, from, to) ==
    /\ payment[r] = from
    /\ payment' = [payment EXCEPT ![r] = to]

\* The transaction finds that somebody else was first.
AlreadySettled(c, kind, from) ==
    /\ At(c, kind, "ready")
    /\ payment[call[c].ride] # from
    /\ Goto(c, "done")
    /\ UNCHANGED <<confirming, method, rowVars, moneyVars, receipt, lock,
                   historyVars, faults>>

\* The one SUCCEEDED row the partial unique index admits.
InsertSucceeded(r) ==
    /\ succeeded[r] = 0
    /\ succeeded' = [succeeded EXCEPT ![r] = 1]

(* Mutant of RecordSuccess: the debit comes first, and a lost claim keeps it. *)
RecordSuccessDebitFirst(c) ==
    LET r == call[c].ride IN
    /\ At(c, "collect", "ready")
    /\ balance > 0
    /\ balance' = balance - 1
    /\ IF payment[r] = "PENDING"
       THEN /\ Claim(r, "PENDING", "PAID")
            /\ InsertSucceeded(r)
            /\ Post(r, "trip")
            /\ IssueReceipt(r, "PAID")
       ELSE UNCHANGED <<payment, succeeded, posted, receipt>>
    /\ Goto(c, "done")
    /\ UNCHANGED <<confirming, method, failed, writtenOff, credited, lock,
                   historyVars, faults>>

\* recordSuccess: claim, debit, row, ledger group and receipt, or nothing.
RecordSuccess(c) ==
    LET r == call[c].ride IN
    /\ At(c, "collect", "ready")
    /\ balance > 0
    /\ Claim(r, "PENDING", "PAID")
    /\ balance' = balance - 1
    /\ InsertSucceeded(r)
    /\ Post(r, "trip")
    /\ IssueReceipt(r, "PAID")
    /\ Goto(c, "done")
    /\ UNCHANGED <<confirming, method, failed, writtenOff, credited, lock,
                   historyVars, faults>>

\* The debit throws InsufficientBalanceError, and the claim rolls back.
Decline(c) ==
    /\ At(c, "collect", "ready")
    /\ payment[call[c].ride] = "PENDING"
    /\ balance = 0
    /\ Goto(c, "declined")
    /\ UNCHANGED <<confirming, method, rowVars, moneyVars, receipt, lock,
                   historyVars, faults>>

WillRetry(c) == call[c].failedSoFar + 1 < MaxAttempts

(* Mutant of RecordFailure: the receivable is posted by whoever comes. *)
RecordFailureUnclaimed(c) ==
    LET r == call[c].ride IN
    /\ At(c, "collect", "declined")
    /\ failed' = [failed EXCEPT ![r] = @ + 1]
    /\ IF WillRetry(c) THEN UNCHANGED <<payment, posted, receipt, notified>>
       ELSE /\ notified' = notified \cup {r}
            /\ payment' = [payment EXCEPT ![r] = IF @ = "PENDING" THEN "FAILED" ELSE @]
            /\ Post(r, "receivable")
            /\ IssueReceipt(r, "FAILED")
    /\ Goto(c, "done")
    /\ UNCHANGED <<confirming, method, succeeded, writtenOff, balance, credited,
                   lock, overlapped, faults>>

(* Mutant of RecordFailure: every failure is announced as the last. *)
RecordFailureAlarming(c) ==
    LET r == call[c].ride IN
    /\ At(c, "collect", "declined")
    /\ failed' = [failed EXCEPT ![r] = @ + 1]
    /\ notified' = notified \cup {r}
    /\ IF ~WillRetry(c) /\ payment[r] = "PENDING"
       THEN /\ Claim(r, "PENDING", "FAILED")
            /\ Post(r, "receivable")
            /\ IssueReceipt(r, "FAILED")
       ELSE UNCHANGED <<payment, posted, receipt>>
    /\ Goto(c, "done")
    /\ UNCHANGED <<confirming, method, succeeded, writtenOff, balance, credited,
                   lock, overlapped, faults>>

\* recordFailure: the attempt is recorded; the last one, as counted before
\* the charge, gives the fare to the receivables if it is still owed, and
\* says so in either case.
RecordFailure(c) ==
    LET r == call[c].ride IN
    /\ At(c, "collect", "declined")
    /\ failed' = [failed EXCEPT ![r] = @ + 1]
    /\ IF WillRetry(c) THEN UNCHANGED <<payment, posted, receipt, notified>>
       ELSE /\ notified' = notified \cup {r}
            /\ IF payment[r] = "PENDING"
               THEN /\ Claim(r, "PENDING", "FAILED")
                    /\ Post(r, "receivable")
                    /\ IssueReceipt(r, "FAILED")
               ELSE UNCHANGED <<payment, posted, receipt>>
    /\ Goto(c, "done")
    /\ UNCHANGED <<confirming, method, succeeded, writtenOff, balance, credited,
                   lock, overlapped, faults>>

\* confirmCash: the driver owes what is not his, into the negative.
ConfirmCash(c) ==
    LET r == call[c].ride IN
    /\ At(c, "confirm", "ready")
    /\ Claim(r, "PENDING", "PAID")
    /\ InsertSucceeded(r)
    /\ Post(r, "share")
    /\ IssueReceipt(r, "PAID")
    /\ Goto(c, "done")
    /\ UNCHANGED <<confirming, method, failed, writtenOff, balance, credited,
                   lock, historyVars, faults>>

(* Mutant of SettleReceivable: the write-off is not looked for again. *)
SettleReceivableBlind(c) ==
    LET r == call[c].ride IN
    /\ At(c, "settle", "ready")
    /\ Goto(c, "done")
    /\ IF balance > 0 /\ payment[r] = "FAILED"
       THEN /\ Claim(r, "FAILED", "PAID")
            /\ balance' = balance - 1
            /\ InsertSucceeded(r)
            /\ Post(r, "settled")
       ELSE UNCHANGED <<payment, balance, succeeded, posted>>
    /\ UNCHANGED <<confirming, method, failed, writtenOff, receipt, credited,
                   lock, historyVars, faults>>

\* settleReceivable, under the row lock the write-off takes: the debt is
\* cleared, or there is none left, or the wallet is empty.
SettleReceivable(c) ==
    LET r == call[c].ride IN
    /\ At(c, "settle", "ready")
    /\ Goto(c, "done")
    /\ IF writtenOff[r] = 0 /\ balance > 0 /\ payment[r] = "FAILED"
       THEN /\ Claim(r, "FAILED", "PAID")
            /\ balance' = balance - 1
            /\ InsertSucceeded(r)
            /\ Post(r, "settled")
       ELSE UNCHANGED <<payment, balance, succeeded, posted>>
    /\ UNCHANGED <<confirming, method, failed, writtenOff, receipt, credited,
                   lock, historyVars, faults>>

\* writeOffLocked: every precondition again, under the row lock.
WriteOff(c) ==
    LET r == call[c].ride IN
    /\ At(c, "write_off", "ready")
    /\ Goto(c, "done")
    /\ IF payment[r] = "FAILED" /\ writtenOff[r] = 0 /\ succeeded[r] = 0
       THEN writtenOff' = [writtenOff EXCEPT ![r] = 1] /\ Post(r, "bad_debt")
       ELSE UNCHANGED <<writtenOff, posted>>
    /\ UNCHANGED <<confirming, method, payment, failed, succeeded, receipt,
                   balance, credited, lock, historyVars, faults>>

\* release: by token, so only the lock the call still holds.
Release(c) ==
    LET r == call[c].ride IN
    /\ call[c].at = "done"
    /\ lock' = [lock EXCEPT ![r] = IF @ = c THEN Nobody ELSE @]
    /\ call' = [call EXCEPT ![c] = Idle]
    /\ UNCHANGED <<confirming, method, rowVars, moneyVars, receipt, historyVars,
                   faults>>

(* Mutant of LockExpires: the lock is taken without an expiry. *)
LockNeverExpires(r) == FALSE /\ UNCHANGED vars

\* 30 s: an error if the holder is still at work.
LockExpires(r) ==
    /\ lock[r] # Nobody
    /\ IF call[lock[r]].ride = r THEN Fault ELSE UNCHANGED faults
    /\ lock' = [lock EXCEPT ![r] = Nobody]
    /\ UNCHANGED <<confirming, method, rowVars, moneyVars, receipt, call,
                   historyVars>>

\* The process dies; its lock stays until it expires.
Die(c) ==
    /\ call[c] # Idle
    /\ Fault
    /\ call' = [call EXCEPT ![c] = Idle]
    /\ UNCHANGED <<confirming, method, rowVars, moneyVars, receipt, lock,
                   historyVars>>

-----------------------------------------------------------------------------
Proceed(c) ==
    \/ ReadRide(c)
    \/ CountAttempts(c)
    \/ RecordSuccess(c)
    \/ Decline(c)
    \/ RecordFailure(c)
    \/ ConfirmCash(c)
    \/ AlreadySettled(c, "collect", "PENDING")
    \/ AlreadySettled(c, "confirm", "PENDING")
    \/ SettleReceivable(c)
    \/ WriteOff(c)
    \/ Release(c)

Next ==
    \/ Credit
    \/ \E r \in Rides : CompleteRide(r) \/ ViewReceipt(r) \/ LockExpires(r)
    \/ \E c \in Callers, kind \in Kinds, r \in Rides : Acquire(c, kind, r)
    \/ \E c \in Callers : Proceed(c) \/ Die(c)

Spec == Init /\ [][Next]_vars

\* A call that was begun goes on, a lock whose holder died expires, and the
\* sweep keeps calling for whatever is owed.
FairSpec ==
    /\ Spec
    /\ \A c \in Callers : WF_vars(Proceed(c))
    /\ \A r \in Rides :
           /\ WF_vars(LockExpires(r))
           /\ WF_vars(\E c \in Callers : Acquire(c, "collect", r)
                                         \/ Acquire(c, "confirm", r))

-----------------------------------------------------------------------------
(* Properties that hold.                                                   *)

\* Every variable keeps its type; the wallet is never overdrawn, and a ride
\* has at most one row that says it was paid and one that says it never will.
TypeOK ==
    /\ confirming \in BOOLEAN
    /\ method \in [Rides -> {"WALLET", "CASH"}]
    /\ payment \in [Rides -> {"none", "PENDING", "PAID", "FAILED"}]
    /\ failed \in [Rides -> Nat]
    /\ succeeded \in [Rides -> {0, 1}]
    /\ writtenOff \in [Rides -> {0, 1}]
    /\ posted \in [Rides -> [Groups -> Nat]]
    /\ receipt \in [Rides -> {"none", "AWAITING", "PAID", "UNPAID", "WRITTEN_OFF"}]
    /\ balance \in Nat
    /\ credited \in 0..MaxCredit
    /\ lock \in [Rides -> Callers \cup {Nobody}]
    /\ call \in [Callers ->
           [kind : Kinds \cup {"none"}, ride : Rides \cup {Nobody},
            at : {"idle", "locked", "counting", "ready", "declined", "done"},
            failedSoFar : Nat]]
    /\ notified \subseteq Rides
    /\ overlapped \subseteq Rides
    /\ faults \in 0..MaxFaults

\* A ride's earnings are recognised once, when its obligation is decided, by
\* one group; the rider's debt stands in the ledger exactly while the ride is
\* FAILED and not written off, and is cleared once.
LedgerFitsObligation ==
    \A r \in Rides :
        /\ posted[r]["trip"] + posted[r]["share"] + posted[r]["receivable"] =
               IF payment[r] \in {"PAID", "FAILED"} THEN 1 ELSE 0
        /\ posted[r]["receivable"] - posted[r]["settled"] - posted[r]["bad_debt"] =
               IF payment[r] = "FAILED" /\ writtenOff[r] = 0 THEN 1 ELSE 0

\* What left the wallet is what wallet rides were paid with, whatever rides,
\* retries and settlements draw on it at once.
WalletPaidForRides ==
    credited - balance =
        Cardinality({r \in Rides : method[r] = "WALLET" /\ payment[r] = "PAID"})

\* A fare goes to the receivables only after every attempt was made; and unless
\* two calls overlapped, no further attempt is made, and the rider is told that
\* collection failed for good exactly when it did.
FinalAfterBudget ==
    \A r \in Rides :
        /\ payment[r] = "FAILED" => failed[r] >= MaxAttempts
        /\ r \notin overlapped =>
              /\ failed[r] <= MaxAttempts
              /\ r \in notified <=> posted[r]["receivable"] = 1

ObligationAs(status, written, receivables) ==
    CASE status = "none"    -> "none"
      [] status = "PENDING" -> "owed"
      [] status = "FAILED"  -> IF written = 1 THEN "written_off" ELSE "receivable"
      [] status = "PAID"    -> IF receivables = 0 THEN "paid"
                               ELSE IF written = 0 THEN "paid_late" ELSE "both"

obligation ==
    [r \in Rides |-> ObligationAs(payment[r], writtenOff[r], posted[r]["receivable"])]

Promise == INSTANCE ObligationPromise

\* The calls implement ObligationPromise: whatever locks expire, an obligation
\* ends once, and what was written off is never charged.
KeepsPromise == Promise!Spec

\* While the sweep runs, every completed ride gets an outcome.
EveryFareDecided ==
    \A r \in Rides : payment[r] = "PENDING" ~> payment[r] \in {"PAID", "FAILED"}
=============================================================================
