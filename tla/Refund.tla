------------------------------- MODULE Refund -------------------------------
(***************************************************************************)
(* The refunds of one captured payment.  A refund's amount is taken out of *)
(* the balance the payment once filled and held in REFUND_IN_TRANSIT; then *)
(* the provider is asked, under a lease on the refund's row and under the  *)
(* refund's id as reference; its answer settles the refund or undoes the   *)
(* reservation; what stays unanswered is asked again.                      *)
(*                                                                         *)
(* A transaction that locks its rows before it reads them is one step.     *)
(* Talking to the provider is four: claim the lease, look the refund up,   *)
(* create it, apply the answer.  The administration's decisions read the   *)
(* row, then write it by id: two steps, with the decision in between in    *)
(* flight.  The 60 s lease lapses at any time: two requests of 15 s fit    *)
(* into it, but a process may pause, and reconciliation stamps each row    *)
(* of its batch with the moment the batch began.                           *)
(*                                                                         *)
(* The provider is Razorpay: a second create under one reference is a      *)
(* second refund.                                                          *)
(***************************************************************************)
EXTENDS Integers, FiniteSets, Functions

CONSTANTS
    Refunds,
    Callers,        \* request handlers and the reconciliation job
    Admins,
    Reviewed,       \* bound: the refunds the administration takes up
    Nothing,        \* no refund
    Purposes,       \* what the payment may have been for
    Captured,       \* its amount
    MaxDecisions,   \* bound: decisions before a refund is sent
    MaxFaults       \* bound: crashes, lost replies, errors, overtakings

ASSUME RefundsAssumption == IsFiniteSet(Refunds)
ASSUME NothingAssumption == Nothing \notin Refunds
ASSUME ReviewedAssumption == Reviewed \subseteq Refunds
ASSUME CapturedAssumption == Captured \in Nat
ASSUME BoundAssumption == MaxDecisions \in Nat /\ MaxFaults \in Nat

VARIABLES
    purpose,    \* the purpose of the payment
    status,     \* status[r] of the refund's row; "none": no row
    amount,     \* amount[r]
    workflow,   \* workflow[r]: what the administration made of it
    leased,     \* leased[r]: last_dispatch_at is less than 60 s ago
    decision,   \* decision[d]: what administrator d decided on a row he read
    balance,    \* what is left of the payment where it was credited
    inTransit,  \* inTransit[r]: position of REFUND_IN_TRANSIT under r
    clearing,   \* clearing[r]: what r took out of GATEWAY_CLEARING
    talk,       \* talk[c]: caller c's conversation with the provider
    made,       \* made[r]: refunds the provider created under r
    verdict,    \* verdict[r]: the status the provider reports for r
    overruled,  \* refunds decided after their amount was reserved
    overtaken,  \* refunds two callers talked to the provider about
    misread,    \* refunds whose lookup the provider refused
    decisions,  \* taken so far
    faults

rowVars      == <<status, amount, workflow>>
moneyVars    == <<balance, inTransit, clearing>>
providerVars == <<made, verdict>>
historyVars  == <<overruled, overtaken, misread, decisions>>
vars == <<purpose, status, amount, workflow, leased, decision, balance,
          inTransit, clearing, talk, made, verdict, overruled, overtaken,
          misread, decisions, faults>>

-----------------------------------------------------------------------------
Amounts == 1..Captured

(* Mutant of CommittedStatuses: a refund in flight is not yet counted. *)
CommittedSettled == {"SUCCEEDED"}

\* Money already promised back: COMMITTED_STATUSES.
CommittedStatuses == {"PENDING", "PROCESSING", "SUCCEEDED"}

SumOver(S) == SumFunctionOnSet(amount, S)

Committed(r) == SumOver({q \in Refunds \ {r} : status[q] \in CommittedStatuses})

\* assertRefundable: within what is left, a subscription in full or not at all.
Refundable(r, a) ==
    /\ a + Committed(r) <= Captured
    /\ purpose = "subscription" => a = Captured /\ Committed(r) = 0

Fault == faults < MaxFaults /\ faults' = faults + 1

Idle == [at |-> "idle", refund |-> Nothing, outcome |-> "none"]
Quiet == [kind |-> "none", refund |-> Nothing, amount |-> 0]

TalkingAbout(r) == {c \in Callers : talk[c].refund = r}

Init ==
    /\ purpose \in Purposes
    /\ status = [r \in Refunds |-> "none"]
    /\ amount = [r \in Refunds |-> 0]
    /\ workflow = [r \in Refunds |-> "requested"]
    /\ leased = [r \in Refunds |-> FALSE]
    /\ decision = [d \in Admins |-> Quiet]
    /\ balance = Captured
    /\ inTransit = [r \in Refunds |-> 0]
    /\ clearing = [r \in Refunds |-> 0]
    /\ talk = [c \in Callers |-> Idle]
    /\ made = [r \in Refunds |-> 0]
    /\ verdict = [r \in Refunds |-> "none"]
    /\ overruled = {}
    /\ overtaken = {}
    /\ misread = {}
    /\ decisions = 0
    /\ faults = 0

-----------------------------------------------------------------------------
(* Asking for a refund, and reserving its amount.                          *)

\* reserveInTx: out of the balance, into transit, PROCESSING.
Reserve(r, a) ==
    /\ Refundable(r, a)
    /\ purpose # "subscription" => balance >= a
    /\ balance' = balance - a
    /\ inTransit' = [inTransit EXCEPT ![r] = @ + a]
    /\ status' = [status EXCEPT ![r] = "PROCESSING"]

\* processRefund: row and reservation commit together, under the lock of the
\* payment.  A repeated key finds the row and goes on to Claim.
ProcessRefund(r, a) ==
    /\ status[r] = "none"
    /\ Reserve(r, a)
    /\ amount' = [amount EXCEPT ![r] = a]
    /\ UNCHANGED <<purpose, workflow, leased, decision, clearing, talk,
                   providerVars, historyVars, faults>>

\* The administration's createRefund: a row to be reviewed, nothing checked.
CreateForReview(r, a) ==
    /\ r \in Reviewed /\ status[r] = "none"
    /\ status' = [status EXCEPT ![r] = "PENDING"]
    /\ amount' = [amount EXCEPT ![r] = a]
    /\ UNCHANGED <<purpose, workflow, leased, decision, moneyVars, talk,
                   providerVars, historyVars, faults>>

\* What the balance is for: rides of its owner.
Spend ==
    /\ purpose # "subscription"
    /\ balance > 0
    /\ balance' = balance - 1
    /\ UNCHANGED <<purpose, rowVars, leased, decision, inTransit, clearing,
                   talk, providerVars, historyVars, faults>>

-----------------------------------------------------------------------------
(* The review: each decision checks the row it read and writes it by id.   *)

Decide(d, r, kind, a) ==
    /\ r \in Reviewed /\ status[r] # "none"
    /\ decision[d] = Quiet
    /\ IF kind \in {"dispatch", "complete"} THEN UNCHANGED decisions
       ELSE decisions < MaxDecisions /\ decisions' = decisions + 1
    /\ decision' = [decision EXCEPT ![d] = [kind |-> kind, refund |-> r,
                                           amount |-> a]]
    /\ UNCHANGED <<purpose, rowVars, leased, moneyVars, talk, providerVars,
                   overruled, overtaken, misread, faults>>

StartReview(d, r) ==
    /\ workflow[r] \in {"requested", "under_review"}
    /\ Decide(d, r, "review", 0)

ApproveRefund(d, r, a) ==
    /\ workflow[r] \in {"requested", "under_review", "approved"}
    /\ Decide(d, r, "approve", a)

RejectRefund(d, r) ==
    /\ workflow[r] \notin {"completed", "rejected"}
    /\ status[r] \notin {"PROCESSING", "SUCCEEDED"}
    /\ Decide(d, r, "reject", 0)

MarkRefundProcessing(d, r) ==
    /\ workflow[r] \in {"approved", "processing"}
    /\ Decide(d, r, "process", 0)

\* A refund not yet paid is first sent to the provider.
MarkRefundCompleted(d, r) ==
    \/ /\ status[r] = "SUCCEEDED"
       /\ Decide(d, r, "complete", 0)
    \/ /\ status[r] # "SUCCEEDED"
       /\ workflow[r] \notin {"requested", "under_review"}
       /\ Decide(d, r, "dispatch", 0)

WorkflowAfter ==
    [review |-> "under_review", approve |-> "approved", reject |-> "rejected",
     process |-> "processing", complete |-> "completed"]

\* The write of a decision, whatever became of the row since it was read.
WriteDecision(d) ==
    LET r == decision[d].refund
        kind == decision[d].kind
    IN
    /\ kind \in DOMAIN WorkflowAfter
    /\ workflow' = [workflow EXCEPT ![r] = WorkflowAfter[kind]]
    /\ amount' = [amount EXCEPT ![r] = IF kind = "approve"
                                       THEN decision[d].amount ELSE @]
    /\ status' = [status EXCEPT ![r] = IF kind = "reject" THEN "FAILED" ELSE @]
    /\ overruled' = IF /\ status[r] \in {"PROCESSING", "SUCCEEDED"}
                       /\ <<amount', status'>> # <<amount, status>>
                    THEN overruled \cup {r} ELSE overruled
    /\ decision' = [decision EXCEPT ![d] =
                       IF kind = "process" /\ status[r] # "SUCCEEDED"
                       THEN [@ EXCEPT !.kind = "dispatch"] ELSE Quiet]
    /\ UNCHANGED <<purpose, leased, moneyVars, talk, providerVars, overtaken,
                   misread, decisions, faults>>

(* Mutant of Dispatch: a refund that was rejected meanwhile is reserved. *)
DispatchAny(d) ==
    LET r == decision[d].refund IN
    /\ decision[d].kind = "dispatch"
    /\ decision' = [decision EXCEPT ![d] = Quiet]
    /\ \/ Reserve(r, amount[r])
       \/ UNCHANGED <<status, balance, inTransit>>
    /\ UNCHANGED <<purpose, amount, workflow, leased, clearing, talk,
                   providerVars, historyVars, faults>>

\* dispatch: reserves what is still PENDING, under the locks of the refund and
\* the payment, or refuses.  Asking the provider is Claim, by any caller.
Dispatch(d) ==
    LET r == decision[d].refund IN
    /\ decision[d].kind = "dispatch"
    /\ decision' = [decision EXCEPT ![d] = Quiet]
    /\ \/ /\ status[r] = "PENDING"
          /\ Reserve(r, amount[r])
       \/ UNCHANGED <<status, balance, inTransit>>
    /\ UNCHANGED <<purpose, amount, workflow, leased, clearing, talk,
                   providerVars, historyVars, faults>>

-----------------------------------------------------------------------------
(* Asking the provider.                                                    *)

(* Mutant of Claimable: the comparison with the lease is reversed. *)
ClaimableReversed(r) == status[r] = "PROCESSING" /\ leased[r]

\* claimDispatch, one conditional update: after a reservation, for a repeated
\* key, by the review, or by reconciliation.
Claimable(r) == status[r] = "PROCESSING" /\ ~leased[r]

Claim(c, r) ==
    /\ talk[c] = Idle
    /\ Claimable(r)
    /\ leased' = [leased EXCEPT ![r] = TRUE]
    /\ talk' = [talk EXCEPT ![c] = [at |-> "looking", refund |-> r,
                                    outcome |-> "none"]]
    /\ IF TalkingAbout(r) = {} THEN UNCHANGED <<overtaken, faults>>
       ELSE Fault /\ overtaken' = overtaken \cup {r}
    /\ UNCHANGED <<purpose, rowVars, decision, moneyVars, providerVars,
                   overruled, misread, decisions>>

LeaseLapses(r) ==
    /\ leased[r]
    /\ leased' = [leased EXCEPT ![r] = FALSE]
    /\ UNCHANGED <<purpose, rowVars, decision, moneyVars, talk, providerVars,
                   historyVars, faults>>

Answer(c, outcome) ==
    talk' = [talk EXCEPT ![c].at = "answered", ![c].outcome = outcome]

(* Mutant of Find: every attempt creates, none looks. *)
FindNothing(c) ==
    /\ talk[c].at = "looking"
    /\ talk' = [talk EXCEPT ![c].at = "creating"]
    /\ UNCHANGED <<purpose, rowVars, leased, decision, moneyVars,
                   providerVars, historyVars, faults>>

\* findRefund: what the provider has under our reference, or nothing.
Find(c) ==
    LET r == talk[c].refund IN
    /\ talk[c].at = "looking"
    /\ IF verdict[r] = "none" THEN talk' = [talk EXCEPT ![c].at = "creating"]
       ELSE Answer(c, verdict[r])
    /\ UNCHANGED <<purpose, rowVars, leased, decision, moneyVars,
                   providerVars, historyVars, faults>>

\* A lookup that fails: by a timeout or a 5xx, or by a 4xx.
FindFails(c) ==
    /\ talk[c].at = "looking"
    /\ Fault
    /\ \/ Answer(c, "UNKNOWN") /\ UNCHANGED misread
       \/ Answer(c, "REJECTED") /\ misread' = misread \cup {talk[c].refund}
    /\ UNCHANGED <<purpose, rowVars, leased, decision, moneyVars,
                   providerVars, overruled, overtaken, decisions>>

\* The provider creates a refund, which it carries out at once or later.
Make(r) ==
    /\ made' = [made EXCEPT ![r] = @ + 1]
    /\ \E v \in {"PENDING", "SUCCEEDED"} :
           verdict' = [verdict EXCEPT ![r] = IF @ = "none" THEN v ELSE @]

Create(c) ==
    LET r == talk[c].refund IN
    /\ talk[c].at = "creating"
    /\ Make(r)
    /\ Answer(c, verdict'[r])
    /\ UNCHANGED <<purpose, rowVars, leased, decision, moneyVars,
                   historyVars, faults>>

(* Mutant of CreateUnheard: a timeout is taken for a refusal. *)
CreateUnheardRefused(c) ==
    /\ talk[c].at = "creating"
    /\ Fault
    /\ Make(talk[c].refund)
    /\ Answer(c, "REJECTED")
    /\ UNCHANGED <<purpose, rowVars, leased, decision, moneyVars, historyVars>>

\* The reply is lost: the refund exists, the caller sees a timeout.
CreateUnheard(c) ==
    /\ talk[c].at = "creating"
    /\ Fault
    /\ Make(talk[c].refund)
    /\ Answer(c, "UNKNOWN")
    /\ UNCHANGED <<purpose, rowVars, leased, decision, moneyVars, historyVars>>

\* A 4xx is a refusal for good, anything else leaves the outcome unknown.
CreateFails(c) ==
    /\ talk[c].at = "creating"
    /\ \/ Answer(c, "REJECTED") /\ UNCHANGED faults
       \/ Answer(c, "UNKNOWN") /\ Fault
    /\ UNCHANGED <<purpose, rowVars, leased, decision, moneyVars,
                   providerVars, historyVars>>

\* The provider carries a pending refund out, or cannot.
ProviderDecides(r) ==
    /\ verdict[r] = "PENDING"
    /\ \E v \in {"SUCCEEDED", "FAILED"} :
           verdict' = [verdict EXCEPT ![r] = v]
    /\ UNCHANGED <<purpose, rowVars, leased, decision, moneyVars, talk, made,
                   historyVars, faults>>

\* settleInTx: REFUND_IN_TRANSIT to GATEWAY_CLEARING.
SettleInTx(r) ==
    /\ inTransit' = [inTransit EXCEPT ![r] = @ - amount[r]]
    /\ clearing' = [clearing EXCEPT ![r] = @ + amount[r]]
    /\ status' = [status EXCEPT ![r] = "SUCCEEDED"]
    /\ UNCHANGED balance

\* failInTx: the reservation goes back where it came from.
FailInTx(r) ==
    /\ inTransit' = [inTransit EXCEPT ![r] = @ - amount[r]]
    /\ balance' = balance + amount[r]
    /\ status' = [status EXCEPT ![r] = "FAILED"]
    /\ UNCHANGED clearing

(* Mutant of ApplyOutcome: the status is not read again under the lock. *)
ApplyOutcomeAgain(c) ==
    LET r == talk[c].refund IN
    /\ talk[c].at = "answered"
    /\ talk' = [talk EXCEPT ![c] = Idle]
    /\ CASE talk[c].outcome \in {"UNKNOWN", "PENDING"}
                -> UNCHANGED <<status, moneyVars>>
         [] OTHER -> IF talk[c].outcome = "SUCCEEDED" THEN SettleInTx(r)
                     ELSE FailInTx(r)
    /\ UNCHANGED <<purpose, amount, workflow, leased, decision, providerVars,
                   historyVars, faults>>

\* applyOutcome, under the lock of the row: an answer that is not final, or
\* that comes after another one, changes nothing.
ApplyOutcome(c) ==
    LET r == talk[c].refund IN
    /\ talk[c].at = "answered"
    /\ talk' = [talk EXCEPT ![c] = Idle]
    /\ CASE status[r] # "PROCESSING" \/ talk[c].outcome \in {"UNKNOWN", "PENDING"}
                -> UNCHANGED <<status, moneyVars>>
         [] OTHER -> IF talk[c].outcome = "SUCCEEDED" THEN SettleInTx(r)
                     ELSE FailInTx(r)
    /\ UNCHANGED <<purpose, amount, workflow, leased, decision, providerVars,
                   historyVars, faults>>

\* The process dies, or its outcome cannot be recorded.
Abandon(c) ==
    /\ talk[c] # Idle
    /\ Fault
    /\ talk' = [talk EXCEPT ![c] = Idle]
    /\ UNCHANGED <<purpose, rowVars, leased, decision, moneyVars,
                   providerVars, historyVars>>

-----------------------------------------------------------------------------
Review(d) ==
    \/ \E r \in Refunds :
           \/ StartReview(d, r)
           \/ \E a \in Amounts : ApproveRefund(d, r, a)
           \/ RejectRefund(d, r)
           \/ MarkRefundProcessing(d, r)
           \/ MarkRefundCompleted(d, r)
    \/ WriteDecision(d)
    \/ Dispatch(d)

Answered(c) == Find(c) \/ Create(c) \/ ApplyOutcome(c)

Failing(c) ==
    FindFails(c) \/ CreateUnheard(c) \/ CreateFails(c) \/ Abandon(c)

Next ==
    \/ Spend
    \/ \E r \in Refunds :
           \/ \E a \in Amounts : ProcessRefund(r, a) \/ CreateForReview(r, a)
           \/ LeaseLapses(r)
           \/ ProviderDecides(r)
           \/ \E c \in Callers : Claim(c, r)
    \/ \E d \in Admins : Review(d)
    \/ \E c \in Callers : Answered(c) \/ Failing(c)

Spec == Init /\ [][Next]_vars

\* The job keeps asking, leases lapse, conversations end, and the provider
\* decides what it has accepted.
FairSpec ==
    /\ Spec
    /\ \A c \in Callers : WF_vars(Answered(c))
    /\ \A r \in Refunds :
           /\ WF_vars(LeaseLapses(r))
           /\ WF_vars(ProviderDecides(r))
           /\ WF_vars(\E c \in Callers : Claim(c, r))

-----------------------------------------------------------------------------
(* Properties that hold.                                                   *)

\* Every variable keeps its type; no refund overdraws a balance.
TypeOK ==
    /\ purpose \in Purposes
    /\ status \in [Refunds -> {"none", "PENDING", "PROCESSING",
                            "SUCCEEDED", "FAILED"}]
    /\ amount \in [Refunds -> 0..Captured]
    /\ workflow \in [Refunds -> {"requested", "under_review", "approved",
                                 "rejected", "processing", "completed"}]
    /\ leased \in [Refunds -> BOOLEAN]
    /\ decision \in [Admins ->
           [kind : DOMAIN WorkflowAfter \cup {"none", "dispatch"},
            refund : Refunds \cup {Nothing}, amount : 0..Captured]]
    /\ balance \in Int /\ (purpose # "subscription" => balance >= 0)
    /\ inTransit \in [Refunds -> Int]
    /\ clearing \in [Refunds -> Int]
    /\ talk \in [Callers ->
           [at : {"idle", "looking", "creating", "answered"},
            refund : Refunds \cup {Nothing},
            outcome : {"none", "PENDING", "SUCCEEDED", "FAILED", "REJECTED",
                       "UNKNOWN"}]]
    /\ made \in [Refunds -> Nat]
    /\ verdict \in [Refunds -> {"none", "PENDING", "SUCCEEDED", "FAILED"}]
    /\ overruled \subseteq Refunds
    /\ overtaken \subseteq Refunds
    /\ misread \subseteq Refunds
    /\ decisions \in 0..MaxDecisions
    /\ faults \in 0..MaxFaults

\* What the ledger holds under a refund is what its status says: all of it in
\* transit while the provider is asked, all of it cleared once it has paid,
\* nothing otherwise.  Answers that come twice, late or after one another
\* neither settle nor undo a reservation twice; only an administrator's
\* decision on a refund already reserved can part the two.
LedgerFitsStatus ==
    \A r \in Refunds \ overruled :
        /\ inTransit[r] = IF status[r] = "PROCESSING" THEN amount[r] ELSE 0
        /\ clearing[r] = IF status[r] = "SUCCEEDED" THEN amount[r] ELSE 0

\* The refunds whose amount was promised to the provider.
Promised == {r \in Refunds : status[r] \in {"PROCESSING", "SUCCEEDED"}}

\* However requests and reviews of one payment interleave, what was promised
\* to the provider never exceeds what the payment brought in.
NeverOverCaptured == overruled = {} => SumOver(Promised) <= Captured

\* The provider refunds once per row, whatever replies are lost and however
\* often the refund is asked for again, unless a caller outlived its lease.
RefundedOnce ==
    \A r \in Refunds : made[r] > 1 => r \in overtaken

\* Money goes back to the balance only if the provider did not pay it out:
\* a timeout, a 5xx or a crash after the provider accepted never undoes the
\* reservation.
NeverReturnedAndPaid ==
    \A r \in Refunds \ (overruled \cup overtaken \cup misread) :
        status[r] = "FAILED" => verdict[r] \in {"none", "FAILED"}

\* A refund is recorded as paid only when the provider has paid it.
PaidMeansPaid ==
    \A r \in Refunds : status[r] = "SUCCEEDED" => verdict[r] = "SUCCEEDED"

\* What a row says of the money is what the provider did with it.
RecordFitsProvider == PaidMeansPaid /\ NeverReturnedAndPaid

standing ==
    [r \in Refunds |->
        IF r \in overruled THEN "overruled"
        ELSE [none |-> "none", PENDING |-> "asked", PROCESSING |-> "set_aside",
              SUCCEEDED |-> "repaid", FAILED |-> "closed"][status[r]]]

Promise == INSTANCE RefundPromise

\* The calls above implement RefundPromise: a refund moves one way, and ends
\* once.
KeepsPromise == Promise!Spec

\* No refund waits for ever: while the job keeps asking and the provider
\* decides, every reserved refund is settled or undone.
EveryRefundResolves ==
    \A r \in Refunds :
        status[r] = "PROCESSING" ~> status[r] \in {"SUCCEEDED", "FAILED"}
=============================================================================
