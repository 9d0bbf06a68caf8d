-------------------------------- MODULE Intent --------------------------------
(***************************************************************************)
(* Paying through a gateway.  A driver's intent owns one order at the      *)
(* provider; payments are made for the order, and each may fail, be        *)
(* captured, and be refunded there.  What the provider says of a payment   *)
(* reaches the gate by three ways, each late, repeated or not at all:      *)
(* webhooks, the verification of a checkout, and the job (or staff) that   *)
(* asks about an intent.  The gate decides under the lock of the intent    *)
(* that owns the order; nothing else moves money.                          *)
(***************************************************************************)
EXTENDS Naturals, FiniteSetsExt

CONSTANTS
    Intents,
    Callers,        \* requests that verify or confirm
    Job,            \* the reconciliation job, a caller
    Nothing,
    BATCH_SIZE,     \* intents that one run of the job selects
    MaxPayments     \* bound: payments at the provider, numbered as created

ASSUME CallersAssumption == Job \in Callers
ASSUME BatchAssumption == BATCH_SIZE \in Nat \ {0}
ASSUME NothingAssumption == Nothing \notin Intents \cup 1..MaxPayments
ASSUME BoundAssumption == MaxPayments \in Nat

Payments == 1..MaxPayments

VARIABLES
    order,          \* order[p]: the intent whose order p is for, or Nothing
    fits,           \* fits[p]: amount and currency are the intent's
    money,          \* money[p]: what p is at the provider
    repaid,         \* payments that a refund of ours gives back
    heard,          \* gateway_events: the webhooks that were handled
    books,          \* what the gate writes, see Init
    call,           \* call[c]: what c learnt from the provider
    batch           \* intents that this run of the job has yet to ask about

provider == <<order, fits, money, repaid>>
vars == <<provider, heard, books, call, batch>>

-----------------------------------------------------------------------------
\* What the provider says of payments: their status, by payment.
RecordsOf(P) == [p \in P |-> money[p]]

Idle == [kind |-> "none", records |-> [p \in {} |-> "none"]]

\* A webhook event of a payment: an id of its own, and the status it tells.
\* A capture is told twice, by payment.captured and by order.paid.
Events == Payments \X {"failed", "captured", "paid"}
Told(event) == IF event[2] = "failed" THEN "failed" ELSE "captured"

\* status: of the intents; EXPIRED, CANCELLED and PROCESSING are written by
\*   nothing.
\* row: the payment_transactions row of a payment, which INV-2 makes unique.
\* cases: payment_review_cases, unique by kind and payment.
\* effects: ledger groups with the wallet credit or the activation event.
Init ==
    /\ order = [p \in Payments |-> Nothing]
    /\ fits = [p \in Payments |-> TRUE]
    /\ money = [p \in Payments |-> "none"]
    /\ repaid = {}
    /\ heard = {}
    /\ books = [status  |-> [i \in Intents |-> "none"],
                row     |-> [p \in Payments |-> "none"],
                cases   |-> {},
                effects |-> [i \in Intents |-> 0]]
    /\ call = [c \in Callers |-> Idle]
    /\ batch = {}

-----------------------------------------------------------------------------
(* The provider.                                                           *)

\* A payment is made for an order of ours, or of nobody: of an order whose
\* intent was never inserted.
Pay(p, i, fit) ==
    /\ money[p] = "none"
    /\ \A q \in Payments : q < p => money[q] # "none"
    /\ IF i \in Intents THEN books.status[i] # "none" ELSE fit
    /\ order' = [order EXCEPT ![p] = i]
    /\ fits' = [fits EXCEPT ![p] = fit]
    /\ money' = [money EXCEPT ![p] = "created"]
    /\ UNCHANGED <<repaid, heard, books, call, batch>>

Settle(p, to) ==
    /\ money[p] = "created"
    /\ money' = [money EXCEPT ![p] = to]
    /\ UNCHANGED <<order, fits, repaid, heard, books, call, batch>>

\* Refunded by us, which only an applied payment is, or at the provider.
GiveBack(p, byUs) ==
    /\ money[p] = "captured"
    /\ byUs => books.row[p] = "SUCCEEDED"
    /\ money' = [money EXCEPT ![p] = "refunded"]
    /\ repaid' = IF byUs THEN repaid \cup {p} ELSE repaid
    /\ UNCHANGED <<order, fits, heard, books, call, batch>>

WasCaptured(p) == money[p] \in {"captured", "refunded"}

(* Mutant of OrderPayments: the last payment of the order, whatever came
   before it. *)
OrderPaymentsLast(i) ==
    LET own == {p \in Payments : order[p] = i /\ money[p] # "none"}
    IN  RecordsOf(IF own = {} THEN {} ELSE {Max(own)})

\* selectOrderPayments: every captured payment, else one that is pending, else
\* the last, each with the status it has now.
OrderPayments(i) ==
    LET own      == {p \in Payments : order[p] = i /\ money[p] # "none"}
        captured == {p \in own : money[p] = "captured"}
        pending  == {p \in own : money[p] = "created"}
    IN  RecordsOf(IF captured # {} THEN captured
                  ELSE IF pending # {} THEN {Min(pending)}
                  ELSE IF own # {} THEN {Max(own)} ELSE {})

-----------------------------------------------------------------------------
(* The gate: applyConfirmation with decidePaymentApplication.              *)

HoldKinds == {"AMOUNT_MISMATCH", "MULTIPLE_CAPTURES"}

(* Mutant of Hold: an intent that is decided has nothing to review. *)
HoldUndecided(b, i, p, kind) ==
    IF b.status[i] \in {"SUCCEEDED", "MANUAL_REVIEW"} THEN b
    ELSE [b EXCEPT
             !.row[p]    = IF @ = "none" /\ kind \in HoldKinds THEN "CAPTURED_REVIEW" ELSE @,
             !.status[i] = IF kind \in HoldKinds THEN "MANUAL_REVIEW" ELSE @,
             !.cases     = @ \cup {<<kind, p>>}]

\* holdForReview: a hold row unless the payment has a row, MANUAL_REVIEW unless
\* the intent is decided, and a case unless there is one.
Hold(b, i, p, kind) ==
    [b EXCEPT
        !.row[p]    = IF @ = "none" /\ kind \in HoldKinds THEN "CAPTURED_REVIEW" ELSE @,
        !.status[i] = IF kind \in HoldKinds /\ @ \in {"PENDING", "FAILED"}
                      THEN "MANUAL_REVIEW" ELSE @,
        !.cases     = @ \cup {<<kind, p>>}]

\* The status moves, the payment gets its row, and the effect is posted: a
\* wallet credit, or the event that activates a subscription.
Apply(b, i, p) ==
    [b EXCEPT !.status[i] = "SUCCEEDED", !.row[p] = "SUCCEEDED", !.effects[i] = @ + 1]

(* Mutant of JudgeCapture: the payment decides, not the intent's status. *)
JudgeCaptureByPayment(b, i, p, right) ==
    CASE ~right                       -> Hold(b, i, p, "AMOUNT_MISMATCH")
      [] right /\ b.row[p] # "none"   -> b
      [] right /\ b.row[p] = "none"   -> Apply(b, i, p)

JudgeCapture(b, i, p, right) ==
    CASE ~right                                  -> Hold(b, i, p, "AMOUNT_MISMATCH")
      [] right /\ b.row[p] # "none"              -> b
      [] right /\ b.row[p] = "none"
         /\ b.status[i] \in {"PENDING", "FAILED"}  -> Apply(b, i, p)
      [] OTHER                                   -> Hold(b, i, p, "MULTIPLE_CAPTURES")

(* Mutant of Judge: a failure that comes late fails any intent. *)
JudgeFailingLate(b, i, p, seen, right) ==
    CASE seen = "captured" -> JudgeCapture(b, i, p, right)
      [] seen = "failed"   -> [b EXCEPT !.status[i] = "FAILED"]
      [] seen = "refunded" /\ p \notin repaid -> Hold(b, i, p, "EXTERNAL_REFUND")
      [] OTHER -> b

\* Payment p of order i, of which the provider said `seen`; right: the amounts
\* and the currency in what it said are those of the intent.
Judge(b, i, p, seen, right) ==
    CASE seen = "captured" -> JudgeCapture(b, i, p, right)
      [] seen = "failed" /\ b.status[i] = "PENDING" -> [b EXCEPT !.status[i] = "FAILED"]
      [] seen = "refunded" /\ p \notin repaid -> Hold(b, i, p, "EXTERNAL_REFUND")
      [] OTHER -> b

\* Every record of one answer, in one transaction, the oldest payment first.
JudgeAll(b, records) ==
    LET upTo[n \in 0..MaxPayments] ==
            IF n = 0 THEN b
            ELSE IF n \in DOMAIN records
            THEN Judge(upTo[n - 1], order[n], n, records[n], fits[n])
            ELSE upTo[n - 1]
    IN  upTo[MaxPayments]

-----------------------------------------------------------------------------
(* The calls.                                                              *)

\* createIntent inserts the intent once the provider made its order; a replay
\* of its idempotency key finds it.
CreateIntent(i) ==
    /\ books.status[i] = "none"
    /\ books' = [books EXCEPT !.status[i] = "PENDING"]
    /\ UNCHANGED <<provider, heard, call, batch>>

\* handleGatewayWebhook: the event may come late, again, or never; its id is
\* recorded in the transaction of the gate.  order.paid also tells what was paid
\* for the whole order, which is more than the intent's amount (alone = FALSE)
\* if another payment of the order was captured too.
HandleWebhook(e, alone) ==
    LET p == e[1] IN
    /\ IF Told(e) = "failed" THEN money[p] = "failed" ELSE WasCaptured(p)
    /\ ~alone => /\ e[2] = "paid"
                 /\ \E q \in Payments \ {p} : order[q] = order[p] /\ WasCaptured(q)
    /\ e \notin heard
    /\ heard' = heard \cup {e}
    /\ books' = IF order[p] \in Intents
                THEN Judge(books, order[p], p, Told(e), fits[p] /\ alone)
                ELSE IF Told(e) = "captured"
                     THEN [books EXCEPT !.cases = @ \cup {<<"UNKNOWN_ORDER", p>>}]
                     ELSE books
    /\ UNCHANGED <<provider, call, batch>>

\* verifyCheckout up to its transaction: the signature, which a failed payment
\* never gets, the order, and the provider's record.
BeginVerify(c, p) ==
    /\ c # Job
    /\ call[c] = Idle
    /\ order[p] \in Intents
    /\ money[p] \notin {"none", "failed"}
    /\ call' = [call EXCEPT ![c] = [kind |-> "verify", records |-> RecordsOf({p})]]
    /\ UNCHANGED <<provider, heard, books, batch>>

\* confirmIntent up to its transaction, for staff.
BeginConfirm(c, i) ==
    /\ c # Job
    /\ call[c] = Idle
    /\ books.status[i] \notin {"none", "SUCCEEDED"}
    /\ DOMAIN OrderPayments(i) # {}
    /\ call' = [call EXCEPT ![c] = [kind |-> "confirm", records |-> OrderPayments(i)]]
    /\ UNCHANGED <<provider, heard, books, batch>>

\* A run of the job selects pending intents, in no order: at most BATCH_SIZE.
StartRun ==
    LET pending == {i \in Intents : books.status[i] = "PENDING"} IN
    /\ call[Job] = Idle
    /\ batch = {}
    /\ \E selected \in SUBSET pending :
          /\ Cardinality(selected) = IF Cardinality(pending) <= BATCH_SIZE
                                     THEN Cardinality(pending) ELSE BATCH_SIZE
          /\ batch' = selected
    /\ UNCHANGED <<provider, heard, books, call>>

\* The job confirms the intents it selected, one by one.
BeginReconcile(i) ==
    LET asks == books.status[i] # "SUCCEEDED" /\ DOMAIN OrderPayments(i) # {} IN
    /\ call[Job] = Idle
    /\ i \in batch
    /\ batch' = batch \ {i}
    /\ call' = [call EXCEPT ![Job] =
                  IF asks THEN [kind |-> "confirm", records |-> OrderPayments(i)] ELSE @]
    /\ UNCHANGED <<provider, heard, books>>

\* The transaction of any of them.
Conclude(c) ==
    /\ call[c] # Idle
    /\ books' = JudgeAll(books, call[c].records)
    /\ call' = [call EXCEPT ![c] = Idle]
    /\ UNCHANGED <<provider, heard, batch>>

\* The provider does not answer in time, or the transaction fails.
Abandon(c) ==
    /\ call[c] # Idle
    /\ call' = [call EXCEPT ![c] = Idle]
    /\ UNCHANGED <<provider, heard, books, batch>>

\* The process of the job dies; its lock expires.
Die ==
    /\ batch # {} \/ call[Job] # Idle
    /\ batch' = {}
    /\ call' = [call EXCEPT ![Job] = Idle]
    /\ UNCHANGED <<provider, heard, books>>

Next ==
    \/ \E p \in Payments, i \in Intents \cup {Nothing}, fit \in BOOLEAN : Pay(p, i, fit)
    \/ \E p \in Payments, to \in {"captured", "failed"} : Settle(p, to)
    \/ \E p \in Payments, byUs \in BOOLEAN : GiveBack(p, byUs)
    \/ \E i \in Intents : CreateIntent(i) \/ BeginReconcile(i)
    \/ \E e \in Events, alone \in BOOLEAN : HandleWebhook(e, alone)
    \/ StartRun \/ Die
    \/ \E c \in Callers, p \in Payments : BeginVerify(c, p)
    \/ \E c \in Callers, i \in Intents : BeginConfirm(c, i)
    \/ \E c \in Callers : Conclude(c) \/ Abandon(c)

Spec == Init /\ [][Next]_vars

\* The job keeps being run, and for no intent it selects again and again is
\* every run cut short, every answer of the provider lost or every transaction
\* rolled back.
FairSpec ==
    /\ Spec
    /\ WF_vars(StartRun)
    /\ \A i \in Intents :
          /\ SF_vars(BeginReconcile(i))
          /\ SF_vars(/\ \E p \in DOMAIN call[Job].records : order[p] = i
                     /\ Conclude(Job))

-----------------------------------------------------------------------------
(* Properties.                                                             *)

BookStates ==
    [status  : [Intents -> {"none", "PENDING", "FAILED", "SUCCEEDED", "MANUAL_REVIEW"}],
     row     : [Payments -> {"none", "SUCCEEDED", "CAPTURED_REVIEW"}],
     cases   : SUBSET ((HoldKinds \cup {"EXTERNAL_REFUND", "UNKNOWN_ORDER"}) \X Payments),
     effects : [Intents -> Nat]]

Calls ==
    [kind : {"none", "verify", "confirm"},
     records : UNION {[P -> {"created", "captured", "failed", "refunded"}] :
                          P \in SUBSET Payments}]

TypeOK ==
    /\ order \in [Payments -> Intents \cup {Nothing}]
    /\ fits \in [Payments -> BOOLEAN]
    /\ money \in [Payments -> {"none", "created", "captured", "failed", "refunded"}]
    /\ repaid \in SUBSET Payments
    /\ heard \in SUBSET Events
    /\ books \in BookStates
    /\ call \in [Callers -> Calls]
    /\ batch \in SUBSET Intents

Paid(i) == {p \in Payments : order[p] = i /\ books.row[p] = "SUCCEEDED"}

\* An intent has its effect once, exactly when it succeeded, and for one
\* payment that was made for it, captured, and of the right amount: however
\* the three ways to the gate race (INV-1, INV-3).
EffectForOnePayment ==
    \A i \in Intents :
        /\ books.effects[i] = Cardinality(Paid(i))
        /\ books.effects[i] = IF books.status[i] = "SUCCEEDED" THEN 1 ELSE 0
        /\ \A p \in Paid(i) : money[p] \in {"captured", "refunded"} /\ fits[p]

\* A capture that a webhook told us of is applied, or it is held and Finance
\* has a case for it, whatever else was said of it before.
HeardIsTracked ==
    \A p \in Payments :
        (<<p, "captured">> \in heard \/ <<p, "paid">> \in heard) =>
            \/ books.row[p] = "SUCCEEDED"
            \/ books.row[p] = "CAPTURED_REVIEW" /\ \E k \in HoldKinds : <<k, p>> \in books.cases
            \/ order[p] = Nothing /\ <<"UNKNOWN_ORDER", p>> \in books.cases

standing ==
    [i \in Intents |->
        [none |-> "none", PENDING |-> "open", FAILED |-> "failed",
         SUCCEEDED |-> "paid", MANUAL_REVIEW |-> "review"][books.status[i]]]

fate ==
    [p \in Payments |->
        CASE books.row[p] = "SUCCEEDED"       -> [is |-> "applied", on |-> order[p]]
          [] books.row[p] = "CAPTURED_REVIEW" -> [is |-> "held", on |-> order[p]]
          [] OTHER -> IF <<"UNKNOWN_ORDER", p>> \in books.cases
                      THEN [is |-> "held", on |-> Nothing]
                      ELSE [is |-> "untracked", on |-> Nothing]]

Promise == INSTANCE IntentPromise

\* The gate implements IntentPromise: whatever arrives late, again or out of
\* order, one payment pays an intent, and the others are held for Finance.
KeepsPromise == Promise!Spec

Captured(i) == {p \in Payments : order[p] = i /\ money[p] = "captured"}

\* A pending intent that was paid for is decided, though no webhook arrives
\* and no checkout is verified, unless the money is given back first.  It takes
\* a BATCH_SIZE that no number of pending intents exceeds.
PaidIsDecided ==
    \A i \in Intents :
        books.status[i] = "PENDING" /\ Captured(i) # {}
            ~> books.status[i] # "PENDING" \/ Captured(i) = {}

=============================================================================
