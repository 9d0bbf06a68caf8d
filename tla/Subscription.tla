----------------------------- MODULE Subscription -----------------------------
(***************************************************************************)
(* A driver buys periods of work.  A purchase is decided under the lock of *)
(* the driver's row, asks the provider for an order outside of any         *)
(* transaction, and then points the pending period at the intent of that   *)
(* order.  The payment is confirmed elsewhere, as IntentPromise says; its  *)
(* event, delivered at least once by the outbox, activates the period that *)
(* points at the intent then.  Refunds, the expiry job and the choice of a *)
(* payment model change the same rows meanwhile.                           *)
(***************************************************************************)
EXTENDS Naturals, Sequences, FiniteSets

CONSTANTS
    Keys,           \* idempotency keys of purchases; a key names its intent
    Callers,        \* requests of the driver in flight
    Workers,        \* deliveries of an event in flight
    Nothing,
    MaxPeriods      \* bound: rows of driver_subscriptions

ASSUME NothingAssumption == Nothing \notin Keys /\ Nothing \notin 1..MaxPeriods

Periods == 1..MaxPeriods

VARIABLES
    period,         \* period[n]: status and payment_intent_id of a row
    standing,       \* standing[k]: of the intent, as in IntentPromise
    offered,        \* intents whose checkout was sent to the driver
    refunded,       \* intents that were refunded
    inbox,          \* events not settled yet, as <<kind, intent>>
    choice,         \* payment_model and pending_payment_model
    call,           \* call[c]: what a request decided, or Nothing
    delivery,       \* delivery[w]: <<intent, period>> read, or Nothing
    paidBy,         \* history: intents whose event activated a period
    reused          \* history: intents given to a period when already paid, or
                    \* while another row pointed at them

subscriptionVars ==
    <<period, standing, offered, refunded, inbox, choice, call, delivery, paidBy, reused>>

Statuses == {"none", "PENDING_PAYMENT", "ACTIVE", "EXPIRED", "REFUNDED"}

SubscriptionInit ==
    /\ period = [n \in Periods |-> [status |-> "none", intent |-> Nothing]]
    /\ standing = [k \in Keys |-> "none"]
    /\ offered = {}
    /\ refunded = {}
    /\ inbox = {}
    /\ choice = [model |-> "none", staged |-> FALSE]
    /\ call = [c \in Callers |-> Nothing]
    /\ delivery = [w \in Workers |-> Nothing]
    /\ paidBy = [n \in Periods |-> <<>>]
    /\ reused = {}

With(status) == {n \in Periods : period[n].status = status}

-----------------------------------------------------------------------------
(* The purchase.                                                           *)

\* An intent that the driver may still pay, or paid.
Reusable(n) == period[n].intent \in Keys /\ standing[period[n].intent] \in {"open", "paid"}

(* Mutant of Pending: a period whose intent cannot be paid is not looked for. *)
PendingReusable == {n \in With("PENDING_PAYMENT") : Reusable(n)}

\* findPending
Pending == With("PENDING_PAYMENT")

\* The first transaction of purchase, under the driver's row lock.  Activation
\* writes the driver's row too, so it comes wholly before or after.  While a
\* period is active a purchase only stages a plan.  The idempotency record of a
\* key keeps other requests with it out for two minutes while one is in flight and
\* for a day after its answer: by the time a key comes again it may have lapsed.
BeginPurchase(c, k) ==
    /\ call[c] = Nothing
    /\ With("ACTIVE") = {}
    /\ \/ \E n \in Pending :
             \/ /\ Reusable(n)
                /\ offered' = offered \cup {period[n].intent}
                /\ UNCHANGED <<period, call>>
             \/ /\ ~Reusable(n)
                /\ call' = [call EXCEPT ![c] = [period |-> n, key |-> k, at |-> "decided"]]
                /\ UNCHANGED <<period, offered>>
       \/ /\ Pending = {}
          /\ \E n \in Periods :
                /\ period[n].status = "none"
                /\ \A m \in Periods : m < n => period[m].status # "none"
                /\ period' = [period EXCEPT ![n].status = "PENDING_PAYMENT"]
                /\ call' = [call EXCEPT ![c] = [period |-> n, key |-> k, at |-> "decided"]]
          /\ UNCHANGED offered
    /\ UNCHANGED <<standing, refunded, inbox, choice, delivery, paidBy, reused>>

\* createIntent: the order at the provider and the row of the intent, unless an
\* earlier request with this key left one, whatever became of that one.
RegisterIntent(c) ==
    /\ call[c] # Nothing /\ call[c].at = "decided"
    /\ standing' = [standing EXCEPT ![call[c].key] = IF @ = "none" THEN "open" ELSE @]
    /\ call' = [call EXCEPT ![c].at = "registered"]
    /\ UNCHANGED <<period, offered, refunded, inbox, choice, delivery, paidBy, reused>>

\* The intent was paid for something already, or another row points at it.
Taken(k, n) == standing[k] = "paid" \/ \E m \in Periods \ {n} : period[m].intent = k

\* The second transaction: the row by its id, whatever became of it.  The
\* response may be lost on its way.
AttachIntent(c, heard) ==
    LET k == call[c].key IN
    /\ call[c] # Nothing /\ call[c].at = "registered"
    /\ period' = [period EXCEPT ![call[c].period].intent = k]
    /\ reused' = IF Taken(k, call[c].period) THEN reused \cup {k} ELSE reused
    /\ offered' = IF heard THEN offered \cup {k} ELSE offered
    /\ call' = [call EXCEPT ![c] = Nothing]
    /\ UNCHANGED <<standing, refunded, inbox, choice, delivery, paidBy>>

\* The provider or the process fails: the record of the key is dropped or lapses.
AbandonPurchase(c) ==
    /\ call[c] # Nothing /\ call[c].at \in {"decided", "registered"}
    /\ call' = [call EXCEPT ![c] = Nothing]
    /\ UNCHANGED <<period, standing, offered, refunded, inbox, choice, delivery,
                   paidBy, reused>>

-----------------------------------------------------------------------------
(* The payment, seen from here.                                            *)

\* What IntentPromise lets an intent do once its checkout was sent.
Payable(k) == k \in offered /\ standing[k] \in {"open", "failed"}

PaymentFails(k) ==
    /\ Payable(k)
    /\ \E to \in {"failed", "review"} :
          /\ standing[k] # to
          /\ standing' = [standing EXCEPT ![k] = to]
    /\ UNCHANGED <<period, offered, refunded, inbox, choice, call,
                   delivery, paidBy, reused>>

\* applyConfirmation publishes the event in its transaction.
PaymentSucceeds(k) ==
    /\ Payable(k)
    /\ standing' = [standing EXCEPT ![k] = "paid"]
    /\ inbox' = inbox \cup {<<"completed", k>>}
    /\ UNCHANGED <<period, offered, refunded, choice, call, delivery, paidBy, reused>>

\* The provider confirmed a refund of the payment.
RefundSucceeds(k) ==
    /\ standing[k] = "paid"
    /\ k \notin refunded
    /\ refunded' = refunded \cup {k}
    /\ inbox' = inbox \cup {<<"refunded", k>>}
    /\ UNCHANGED <<period, standing, offered, choice, call, delivery, paidBy, reused>>

-----------------------------------------------------------------------------
(* The consumer, of events delivered once or more, in any order.           *)

\* onPaymentCompleted up to its transaction.  No period points at the intent:
\* it throws, and the outbox tries again, or gives up.
ReadPeriod(w, k) ==
    /\ <<"completed", k>> \in inbox
    /\ delivery[w] = Nothing
    /\ \E n \in Periods :
          /\ period[n].intent = k
          /\ IF period[n].status = "PENDING_PAYMENT"
             THEN /\ delivery' = [delivery EXCEPT ![w] = <<k, n>>]
                  /\ UNCHANGED inbox
             ELSE /\ inbox' = inbox \ {<<"completed", k>>}
                  /\ UNCHANGED delivery
    /\ UNCHANGED <<period, standing, offered, refunded, choice, call, paidBy, reused>>

GiveUp(k) ==
    /\ <<"completed", k>> \in inbox
    /\ \A n \in Periods : period[n].intent # k
    /\ inbox' = inbox \ {<<"completed", k>>}
    /\ UNCHANGED <<period, standing, offered, refunded, choice, call,
                   delivery, paidBy, reused>>

(* Mutant of Activate: the status that was read is trusted. *)
ActivateAsRead(w) ==
    LET k == delivery[w][1]
        n == delivery[w][2]
    IN  /\ delivery[w] # Nothing
        /\ period' = [period EXCEPT ![n].status = "ACTIVE"]
        /\ choice' = [model |-> "SUBSCRIPTION", staged |-> FALSE]
        /\ paidBy' = [paidBy EXCEPT ![n] = Append(@, k)]
        /\ delivery' = [delivery EXCEPT ![w] = Nothing]
        /\ inbox' = inbox \ {<<"completed", k>>}
        /\ UNCHANGED <<standing, offered, refunded, call, reused>>

\* Its transaction: activateIfPending and updatePaymentModel.
Activate(w) ==
    LET k == delivery[w][1]
        n == delivery[w][2]
    IN  /\ delivery[w] # Nothing
        /\ IF period[n].status = "PENDING_PAYMENT"
           THEN /\ period' = [period EXCEPT ![n].status = "ACTIVE"]
                /\ choice' = [model |-> "SUBSCRIPTION", staged |-> FALSE]
                /\ paidBy' = [paidBy EXCEPT ![n] = Append(@, k)]
           ELSE UNCHANGED <<period, choice, paidBy>>
        /\ delivery' = [delivery EXCEPT ![w] = Nothing]
        /\ inbox' = inbox \ {<<"completed", k>>}
        /\ UNCHANGED <<standing, offered, refunded, call, reused>>

\* The relay does not record that it delivered the event, or the process dies
\* before the transaction: the event comes again.
Redeliver(k) ==
    /\ \E n \in Periods : \E i \in 1..Len(paidBy[n]) : paidBy[n][i] = k
    /\ <<"completed", k>> \notin inbox
    /\ inbox' = inbox \cup {<<"completed", k>>}
    /\ UNCHANGED <<period, standing, offered, refunded, choice, call,
                   delivery, paidBy, reused>>

(* Mutant of DeliveryLost: the event was settled when it was read. *)
DeliveryLostSettled(w) ==
    /\ delivery[w] # Nothing
    /\ delivery' = [delivery EXCEPT ![w] = Nothing]
    /\ inbox' = inbox \ {<<"completed", delivery[w][1]>>}
    /\ UNCHANGED <<period, standing, offered, refunded, choice, call, paidBy, reused>>

DeliveryLost(w) ==
    /\ delivery[w] # Nothing
    /\ delivery' = [delivery EXCEPT ![w] = Nothing]
    /\ UNCHANGED <<period, standing, offered, refunded, inbox, choice,
                   call, paidBy, reused>>

\* onRefundProcessed: endForRefund.
EndForRefund(k) ==
    /\ <<"refunded", k>> \in inbox
    /\ period' = [n \in Periods |->
                    IF period[n].intent = k /\ period[n].status \in {"ACTIVE", "PENDING_PAYMENT"}
                    THEN [period[n] EXCEPT !.status = "REFUNDED"] ELSE period[n]]
    /\ inbox' = inbox \ {<<"refunded", k>>}
    /\ UNCHANGED <<standing, offered, refunded, choice, call, delivery, paidBy, reused>>

-----------------------------------------------------------------------------
(* The expiry job, and the choice of a model.                              *)

Expire(n) ==
    /\ period[n].status = "ACTIVE"
    /\ period' = [period EXCEPT ![n].status = "EXPIRED"]
    /\ choice' = IF choice.staged THEN [model |-> "COMMISSION", staged |-> FALSE] ELSE choice
    /\ UNCHANGED <<standing, offered, refunded, inbox, call, delivery, paidBy, reused>>

\* select and requestSwitch of COMMISSION read first and write after, unlocked.
BeginSwitch(c) ==
    /\ call[c] = Nothing
    /\ choice.model # "COMMISSION"
    /\ call' = [call EXCEPT ![c] =
                  [key |-> Nothing,
                   at |-> IF choice.model = "SUBSCRIPTION" /\ With("ACTIVE") # {}
                          THEN "staging" ELSE "switching"]]
    /\ UNCHANGED <<period, standing, offered, refunded, inbox, choice,
                   delivery, paidBy, reused>>

EndSwitch(c) ==
    /\ call[c] # Nothing /\ call[c].at \in {"staging", "switching"}
    /\ choice' = IF call[c].at = "staging" THEN [choice EXCEPT !.staged = TRUE]
                 ELSE [model |-> "COMMISSION", staged |-> FALSE]
    /\ call' = [call EXCEPT ![c] = Nothing]
    /\ UNCHANGED <<period, standing, offered, refunded, inbox, delivery, paidBy, reused>>

SubscriptionNext ==
    \/ \E c \in Callers, k \in Keys : BeginPurchase(c, k)
    \/ \E c \in Callers, heard \in BOOLEAN : AttachIntent(c, heard)
    \/ \E c \in Callers :
          RegisterIntent(c) \/ AbandonPurchase(c) \/ BeginSwitch(c) \/ EndSwitch(c)
    \/ \E k \in Keys : PaymentFails(k) \/ PaymentSucceeds(k) \/ RefundSucceeds(k)
    \/ \E w \in Workers, k \in Keys : ReadPeriod(w, k)
    \/ \E w \in Workers : Activate(w) \/ DeliveryLost(w)
    \/ \E k \in Keys : GiveUp(k) \/ Redeliver(k) \/ EndForRefund(k)
    \/ \E n \in Periods : Expire(n)

SubscriptionSpec == SubscriptionInit /\ [][SubscriptionNext]_subscriptionVars

-----------------------------------------------------------------------------
(* Properties.                                                             *)

Purchases == [period : Periods, key : Keys, at : {"decided", "registered"}]
Switches == [key : {Nothing}, at : {"staging", "switching"}]

\* Every variable keeps its type; no period is activated twice.
SubscriptionTypeOK ==
    /\ period \in [Periods -> [status : Statuses, intent : Keys \cup {Nothing}]]
    /\ standing \in [Keys -> {"none", "open", "paid", "failed", "review"}]
    /\ offered \subseteq Keys /\ refunded \subseteq Keys
    /\ reused \subseteq Keys
    /\ inbox \subseteq {"completed", "refunded"} \X Keys
    /\ choice \in [model : {"none", "SUBSCRIPTION", "COMMISSION"}, staged : BOOLEAN]
    /\ call \in [Callers -> {Nothing} \cup Purchases \cup Switches]
    /\ delivery \in [Workers -> {Nothing} \cup (Keys \X Periods)]
    /\ paidBy \in [Periods -> {<<>>} \cup {<<k>> : k \in Keys}]

\* A driver has at most one period that is pending or active, however many
\* purchases, deliveries and refunds overlap: neither partial unique index is
\* ever hit, so an activation that was paid for never fails on one.
OneOpenPeriod == Cardinality(With("PENDING_PAYMENT") \cup With("ACTIVE")) <= 1

\* A period was worked on, or is, only if it was activated, once, by the event
\* of an intent that was paid: not when an event comes twice, nor after a refund,
\* nor when the row was pointed elsewhere.  The intent activated nothing else,
\* unless a key used again gave it to a period once it was taken.
PeriodPaidOnce ==
    /\ \A n \in Periods :
          /\ period[n].status \in {"ACTIVE", "EXPIRED"} => Len(paidBy[n]) = 1
          /\ period[n].status \in {"none", "PENDING_PAYMENT"} => paidBy[n] = <<>>
          /\ Len(paidBy[n]) <= 1
          /\ \A i \in 1..Len(paidBy[n]) : standing[paidBy[n][i]] = "paid"
    /\ \A m, n \in Periods :
          m # n /\ paidBy[m] # <<>> /\ paidBy[m] = paidBy[n] => paidBy[m][1] \in reused

\* A pending period that points at a paid intent will be served: the event that
\* activates it is yet to be settled, and finds that period and no other, unless
\* the intent was taken already when the period got it.  A delivery that dies, a
\* row that is pointed elsewhere or a second purchase leaves no payment unserved.
PaidPeriodHasEvent ==
    \A n \in Periods, k \in Keys :
        period[n] = [status |-> "PENDING_PAYMENT", intent |-> k] /\ standing[k] = "paid"
            => \/ k \in reused
               \/ /\ <<"completed", k>> \in inbox
                  /\ \A m \in Periods \ {n} : period[m].intent # k
=============================================================================
