---------------------------- MODULE RideLifecycle ----------------------------
(***************************************************************************)
(* A ride from acceptance to its end, with what it shares with others: the *)
(* driver's status row, his commission wallet, and the two unique indexes  *)
(* meant to give a driver and a rider one active ride each.                *)
(*                                                                         *)
(* Every call is a database transaction at READ COMMITTED.  One whose rows *)
(* are locked from its first read is one step.  One that writes what it    *)
(* decided on an unlocked read is two: accept reads the driver's rides,    *)
(* status and balance; going offline and suspending read the status; a     *)
(* booking reads the rider's rides and requests before its transaction.    *)
(*                                                                         *)
(* Geofences, PINs, vehicles and fares are left out: they only refuse, and *)
(* a model in which every call may come at any time covers refusals.       *)
(***************************************************************************)
EXTENDS Integers, FiniteSets

CONSTANTS
    Requests, Drivers, Customers,
    Nobody,         \* no driver, or no rider
    Fee,            \* the commission of a ride
    MaxPaidIn,      \* bound: what recharges may pay into one wallet
    MaxTakenOut     \* bound: what refunds may take out of one wallet

ASSUME NobodyAssumption == Nobody \notin Drivers \cup Customers
ASSUME RequestsAssumption == IsFiniteSet(Requests)
ASSUME FeeAssumption == Fee \in Nat \ {0}
ASSUME BoundAssumption == MaxPaidIn \in Nat /\ MaxTakenOut \in Nat

VARIABLES
    request,    \* request[q]: its status; "matched" once it has a ride
    customer,   \* customer[q]: the rider who booked q
    booking,    \* booking[c]: what createRequest of c has read so far
    accepting,  \* accepting[q]: the driver whose accept holds q's row lock
    ride,       \* ride[q]: status of q's ride ("none": there is none)
    driver,     \* driver[q]: the driver of q's ride
    pinned,     \* pinned[q]: q's ride is charged commission
    bill,       \* bill[q]: what its completion did about the commission
    overtaken,  \* history, overtaken[q]: rides of the driver accepting q that
                \* reached the dropoff, or were completed, while the call ran
    online,     \* online[d]: the driver's status row
    suspended,  \* suspended[d]: drivers.is_suspended
    statusCall, \* statusCall[d]: the status change holding d's row lock
    model,      \* model[d]: the driver's payment model now
    balance,    \* balance[d]: the commission wallet
    paidIn,     \* paidIn[d]: sum of its recharges
    takenOut,   \* takenOut[d]: sum of its refunds, given back or not
    putBack     \* putBack[d]: sum of the refunds given back

requestVars == <<request, customer, booking>>
rideVars    == <<accepting, ride, driver, pinned, bill, overtaken>>
statusVars  == <<online, suspended, statusCall>>
walletVars  == <<model, balance, paidIn, takenOut, putBack>>
vars == <<request, customer, booking, accepting, ride, driver, pinned, bill,
          overtaken, online, suspended, statusCall, model, balance, paidIn, takenOut,
          putBack>>

-----------------------------------------------------------------------------
Cancelled ==
    {"CANCELLED_BY_CUSTOMER", "CANCELLED_BY_DRIVER", "CANCELLED_BY_SYSTEM"}

ALLOWED_TRANSITIONS ==
    [ACCEPTED          |-> {"DRIVER_ARRIVING", "DRIVER_ARRIVED"} \cup Cancelled,
     DRIVER_ARRIVING   |-> {"DRIVER_ARRIVED"} \cup Cancelled,
     DRIVER_ARRIVED    |-> {"IN_PROGRESS"} \cup Cancelled,
     IN_PROGRESS       |-> {"DRIVER_AT_DROPOFF", "COMPLETED"}
                           \cup (Cancelled \ {"CANCELLED_BY_DRIVER"}),
     DRIVER_AT_DROPOFF |-> {"COMPLETED"}
                           \cup (Cancelled \ {"CANCELLED_BY_DRIVER"})]

\* The statuses findActiveByDriver and findActiveByCustomer look for.
ActiveStatus == {"ACCEPTED", "DRIVER_ARRIVING", "DRIVER_ARRIVED",
                 "IN_PROGRESS", "DRIVER_AT_DROPOFF"}

\* The statuses the two partial unique indexes cover.
IndexedStatus == {"ACCEPTED", "DRIVER_ARRIVING", "DRIVER_ARRIVED",
                  "IN_PROGRESS"}

RideStatus == ActiveStatus \cup {"COMPLETED"} \cup Cancelled

RidesOf(d) == {q \in Requests : driver[q] = d /\ ride[q] \in ActiveStatus}
TripsOf(c) == {q \in Requests : customer[q] = c /\ ride[q] \in ActiveStatus}
OpenOf(c)  == {q \in Requests : customer[q] = c /\ request[q] = "open"}

Init ==
    /\ request = [q \in Requests |-> "none"]
    /\ customer = [q \in Requests |-> Nobody]
    /\ booking = [c \in Customers |-> "idle"]
    /\ accepting = [q \in Requests |-> Nobody]
    /\ ride = [q \in Requests |-> "none"]
    /\ driver = [q \in Requests |-> Nobody]
    /\ pinned = [q \in Requests |-> FALSE]
    /\ bill = [q \in Requests |-> "none"]
    /\ overtaken = [q \in Requests |-> {}]
    /\ online = [d \in Drivers |-> "OFFLINE"]
    /\ suspended = [d \in Drivers |-> FALSE]
    /\ statusCall = [d \in Drivers |-> "idle"]
    /\ model = [d \in Drivers |-> "COMMISSION"]
    /\ balance = [d \in Drivers |-> 0]
    /\ paidIn = [d \in Drivers |-> 0]
    /\ takenOut = [d \in Drivers |-> 0]
    /\ putBack = [d \in Drivers |-> 0]

-----------------------------------------------------------------------------
(* Booking: two reads before the transaction, then the insert, which the   *)
(* index on open requests guards.                                          *)

CheckRides(c) ==
    /\ booking[c] = "idle"
    /\ TripsOf(c) = {}
    /\ booking' = [booking EXCEPT ![c] = "noRide"]
    /\ UNCHANGED <<request, customer, rideVars, statusVars, walletVars>>

CheckRequests(c) ==
    /\ booking[c] = "noRide"
    /\ OpenOf(c) = {}
    /\ booking' = [booking EXCEPT ![c] = "noRequest"]
    /\ UNCHANGED <<request, customer, rideVars, statusVars, walletVars>>

InsertRequest(q, c) ==
    /\ booking[c] = "noRequest"
    /\ request[q] = "none"
    /\ OpenOf(c) = {}
    /\ request' = [request EXCEPT ![q] = "open"]
    /\ customer' = [customer EXCEPT ![q] = c]
    /\ booking' = [booking EXCEPT ![c] = "idle"]
    /\ UNCHANGED <<rideVars, statusVars, walletVars>>

\* A check fails, the insert hits the index, or the process stops.
BookingFails(c) ==
    /\ booking[c] # "idle"
    /\ booking' = [booking EXCEPT ![c] = "idle"]
    /\ UNCHANGED <<request, customer, rideVars, statusVars, walletVars>>

\* cancelRequest or the expiry job; an accept that holds the row keeps it out.
CloseRequest(q) ==
    /\ request[q] = "open"
    /\ accepting[q] = Nobody
    /\ request' = [request EXCEPT ![q] = "closed"]
    /\ UNCHANGED <<customer, booking, rideVars, statusVars, walletVars>>

-----------------------------------------------------------------------------
(* Acceptance.                                                             *)

\* hasSufficientBalance locks nothing: it compares, and the wallet moves on.
CanPay(d) == model[d] = "COMMISSION" => balance[d] >= Fee

\* Mutant of BeginAccept: the driver's rides are not looked up.
BeginAcceptBusy(q, d) ==
    /\ request[q] = "open"
    /\ accepting[q] = Nobody
    /\ online[d] = "ONLINE"
    /\ CanPay(d)
    /\ accepting' = [accepting EXCEPT ![q] = d]
    /\ pinned' = [pinned EXCEPT ![q] = model[d] = "COMMISSION"]
    /\ UNCHANGED <<requestVars, ride, driver, bill, overtaken, statusVars, walletVars>>

BeginAccept(q, d) ==
    /\ request[q] = "open"
    /\ accepting[q] = Nobody
    /\ RidesOf(d) = {}
    /\ online[d] = "ONLINE"
    /\ CanPay(d)
    /\ accepting' = [accepting EXCEPT ![q] = d]
    /\ pinned' = [pinned EXCEPT ![q] = model[d] = "COMMISSION"]
    /\ UNCHANGED <<requestVars, ride, driver, bill, overtaken, statusVars, walletVars>>

\* Mutant of FitsIndexes: the driver's index is missing.
FitsCustomerIndex(q) ==
    \A p \in Requests :
        ride[p] \in IndexedStatus => customer[p] # customer[q]

\* The insert of a ride passes both unique indexes.
FitsIndexes(q) ==
    \A p \in Requests :
        ride[p] \in IndexedStatus =>
            /\ driver[p] # accepting[q]
            /\ customer[p] # customer[q]

CommitAccept(q) ==
    /\ accepting[q] # Nobody
    /\ FitsIndexes(q)
    /\ request' = [request EXCEPT ![q] = "matched"]
    /\ ride' = [ride EXCEPT ![q] = "ACCEPTED"]
    /\ driver' = [driver EXCEPT ![q] = accepting[q]]
    /\ online' = [online EXCEPT ![accepting[q]] = "ON_TRIP"]
    /\ accepting' = [accepting EXCEPT ![q] = Nobody]
    /\ UNCHANGED <<customer, booking, pinned, bill, overtaken, suspended,
                   statusCall, walletVars>>

\* An index refuses the ride, a later check fails, or the process stops.
AbortAccept(q) ==
    /\ accepting[q] # Nobody
    /\ accepting' = [accepting EXCEPT ![q] = Nobody]
    /\ pinned' = [pinned EXCEPT ![q] = FALSE]
    /\ overtaken' = [overtaken EXCEPT ![q] = {}]
    /\ UNCHANGED <<requestVars, ride, driver, bill, statusVars, walletVars>>

-----------------------------------------------------------------------------
(* The ride, each transition under the lock of its row.                    *)

\* Mutant of Transition: the table is not consulted.
TransitionAnywhere(q, to) ==
    /\ ride[q] \in ActiveStatus
    /\ ride' = [ride EXCEPT ![q] = to]

\* lockAndValidate and updateStatusIf
Transition(q, to) ==
    /\ ride[q] \in ActiveStatus
    /\ to \in ALLOWED_TRANSITIONS[ride[q]]
    /\ ride' = [ride EXCEPT ![q] = to]

MarkDriverArriving(q) ==
    /\ Transition(q, "DRIVER_ARRIVING")
    /\ UNCHANGED <<requestVars, accepting, driver, pinned, bill, overtaken,
                   statusVars, walletVars>>

MarkDriverArrived(q) ==
    /\ Transition(q, "DRIVER_ARRIVED")
    /\ UNCHANGED <<requestVars, accepting, driver, pinned, bill, overtaken,
                   statusVars, walletVars>>

StartRide(q) ==
    /\ Transition(q, "IN_PROGRESS")
    /\ UNCHANGED <<requestVars, accepting, driver, pinned, bill, overtaken,
                   statusVars, walletVars>>

\* The calls that read the driver's rides before q was among them.
Overtakes(q) ==
    overtaken' = [p \in Requests |->
                     IF accepting[p] = driver[q] THEN overtaken[p] \cup {q}
                                                 ELSE overtaken[p]]

\* From here on the driver's index does not see the ride.
MarkDriverArrivedAtDropoff(q) ==
    /\ Transition(q, "DRIVER_AT_DROPOFF")
    /\ Overtakes(q)
    /\ UNCHANGED <<requestVars, accepting, driver, pinned, bill, statusVars,
                   walletVars>>

DeductedCapped(q) ==
    /\ pinned[q]
    /\ bill[q] # "charged"
    /\ balance' = [balance EXCEPT ![driver[q]] = IF @ < Fee THEN 0 ELSE @ - Fee]
    /\ bill' = [bill EXCEPT ![q] = "charged"]

\* deductInTx under the wallet's lock: the whole commission, or nothing.
Deducted(q) ==
    /\ pinned[q]
    /\ bill[q] # "charged"
    /\ balance[driver[q]] >= Fee
    /\ balance' = [balance EXCEPT ![driver[q]] = @ - Fee]
    /\ bill' = [bill EXCEPT ![q] = "charged"]

InsufficientBalance(q) ==
    /\ pinned[q]
    /\ bill[q] # "charged"
    /\ balance[driver[q]] < Fee
    /\ bill' = [bill EXCEPT ![q] = "failed"]
    /\ UNCHANGED balance

\* a subscription ride, or a deduction already on record
NothingDue(q) ==
    /\ pinned[q] => bill[q] = "charged"
    /\ UNCHANGED <<balance, bill>>

CompleteRide(q) ==
    /\ Transition(q, "COMPLETED")
    /\ Deducted(q) \/ InsufficientBalance(q) \/ NothingDue(q)
    /\ Overtakes(q)
    /\ online' = [online EXCEPT ![driver[q]] = "ONLINE"]
    /\ UNCHANGED <<requestVars, accepting, driver, pinned, suspended,
                   statusCall, model, paidIn, takenOut, putBack>>

\* Mutant of CancelRide: the driver is not freed.
CancelRideOnly(q) ==
    /\ \E to \in Cancelled : Transition(q, to)
    /\ UNCHANGED <<requestVars, accepting, driver, pinned, bill, overtaken,
                   statusVars, walletVars>>

CancelRide(q) ==
    /\ \E to \in Cancelled : Transition(q, to)
    /\ online' = [online EXCEPT ![driver[q]] = "ONLINE"]
    /\ UNCHANGED <<requestVars, accepting, driver, pinned, bill, overtaken,
                   suspended, statusCall, walletVars>>

-----------------------------------------------------------------------------
(* The driver's status.  These calls lock the drivers row, which neither   *)
(* accept nor the end of a ride locks.                                     *)

SetOnline(d) ==
    /\ statusCall[d] = "idle"
    /\ ~suspended[d]
    /\ online' = [online EXCEPT ![d] = "ONLINE"]
    /\ UNCHANGED <<requestVars, rideVars, suspended, statusCall, walletVars>>

\* the driver's own call, or the heartbeat job's
BeginOffline(d) ==
    /\ statusCall[d] = "idle"
    /\ online[d] # "ON_TRIP"
    /\ statusCall' = [statusCall EXCEPT ![d] = "goOffline"]
    /\ UNCHANGED <<requestVars, rideVars, online, suspended, walletVars>>

SetOffline(d) ==
    /\ statusCall[d] = "goOffline"
    /\ online' = [online EXCEPT ![d] = "OFFLINE"]
    /\ statusCall' = [statusCall EXCEPT ![d] = "idle"]
    /\ UNCHANGED <<requestVars, rideVars, suspended, walletVars>>

BeginSuspend(d) ==
    /\ statusCall[d] = "idle"
    /\ statusCall' = [statusCall EXCEPT ![d] =
                          IF online[d] = "ONLINE" THEN "suspendOffline"
                                                  ELSE "suspendOnly"]
    /\ UNCHANGED <<requestVars, rideVars, online, suspended, walletVars>>

SetSuspended(d) ==
    /\ statusCall[d] \in {"suspendOffline", "suspendOnly"}
    /\ suspended' = [suspended EXCEPT ![d] = TRUE]
    /\ online' = IF statusCall[d] = "suspendOffline"
                   THEN [online EXCEPT ![d] = "OFFLINE"] ELSE online
    /\ statusCall' = [statusCall EXCEPT ![d] = "idle"]
    /\ UNCHANGED <<requestVars, rideVars, walletVars>>

Reactivate(d) ==
    /\ statusCall[d] = "idle"
    /\ suspended[d]
    /\ suspended' = [suspended EXCEPT ![d] = FALSE]
    /\ UNCHANGED <<requestVars, rideVars, online, statusCall, walletVars>>

-----------------------------------------------------------------------------
(* The commission wallet, each change under the wallet's row lock.         *)

\* PaymentModelService and the activation of a subscription: at any time.
SwitchModel(d) ==
    /\ \E m \in {"COMMISSION", "SUBSCRIPTION"} \ {model[d]} :
           model' = [model EXCEPT ![d] = m]
    /\ UNCHANGED <<requestVars, rideVars, statusVars, balance, paidIn,
                   takenOut, putBack>>

Recharge(d) ==
    \E amount \in 1..(MaxPaidIn - paidIn[d]) :
        /\ paidIn' = [paidIn EXCEPT ![d] = @ + amount]
        /\ balance' = [balance EXCEPT ![d] = @ + amount]
        /\ UNCHANGED <<requestVars, rideVars, statusVars, model, takenOut,
                       putBack>>

DebitForRefund(d) ==
    \E amount \in 1..(MaxTakenOut - takenOut[d]) :
        /\ balance[d] >= amount
        /\ takenOut' = [takenOut EXCEPT ![d] = @ + amount]
        /\ balance' = [balance EXCEPT ![d] = @ - amount]
        /\ UNCHANGED <<requestVars, rideVars, statusVars, model, paidIn,
                       putBack>>

\* the provider refuses the refund
RestoreRefundedCredit(d) ==
    \E amount \in 1..(takenOut[d] - putBack[d]) :
        /\ putBack' = [putBack EXCEPT ![d] = @ + amount]
        /\ balance' = [balance EXCEPT ![d] = @ + amount]
        /\ UNCHANGED <<requestVars, rideVars, statusVars, model, paidIn,
                       takenOut>>

-----------------------------------------------------------------------------
CustomerStep(c) == CheckRides(c) \/ CheckRequests(c) \/ BookingFails(c)

RequestStep(q) ==
    \/ \E c \in Customers : InsertRequest(q, c)
    \/ CloseRequest(q)
    \/ \E d \in Drivers : BeginAccept(q, d)
    \/ CommitAccept(q)
    \/ AbortAccept(q)

RideStep(q) ==
    \/ MarkDriverArriving(q)
    \/ MarkDriverArrived(q)
    \/ StartRide(q)
    \/ MarkDriverArrivedAtDropoff(q)
    \/ CompleteRide(q)
    \/ CancelRide(q)

StatusStep(d) ==
    \/ SetOnline(d)
    \/ BeginOffline(d)
    \/ SetOffline(d)
    \/ BeginSuspend(d)
    \/ SetSuspended(d)
    \/ Reactivate(d)

WalletStep(d) ==
    \/ SwitchModel(d)
    \/ Recharge(d)
    \/ DebitForRefund(d)
    \/ RestoreRefundedCredit(d)

Next ==
    \/ \E c \in Customers : CustomerStep(c)
    \/ \E q \in Requests : RequestStep(q) \/ RideStep(q)
    \/ \E d \in Drivers : StatusStep(d) \/ WalletStep(d)

Spec == Init /\ [][Next]_vars

-----------------------------------------------------------------------------
(* Properties that hold.                                                   *)

\* Every variable keeps its type, and no wallet goes below zero.
TypeOK ==
    /\ request \in [Requests -> {"none", "open", "matched", "closed"}]
    /\ customer \in [Requests -> Customers \cup {Nobody}]
    /\ booking \in [Customers -> {"idle", "noRide", "noRequest"}]
    /\ accepting \in [Requests -> Drivers \cup {Nobody}]
    /\ ride \in [Requests -> RideStatus \cup {"none"}]
    /\ driver \in [Requests -> Drivers \cup {Nobody}]
    /\ pinned \in [Requests -> BOOLEAN]
    /\ bill \in [Requests -> {"none", "charged", "failed"}]
    /\ overtaken \in [Requests -> SUBSET Requests]
    /\ online \in [Drivers -> {"OFFLINE", "ONLINE", "ON_TRIP"}]
    /\ suspended \in [Drivers -> BOOLEAN]
    /\ statusCall \in [Drivers -> {"idle", "goOffline", "suspendOffline",
                                   "suspendOnly"}]
    /\ model \in [Drivers -> {"COMMISSION", "SUBSCRIPTION"}]
    /\ balance \in [Drivers -> Nat]
    /\ paidIn \in [Drivers -> Nat]
    /\ takenOut \in [Drivers -> Nat]
    /\ putBack \in [Drivers -> Nat]

\* A driver has two rides that have not ended only if one of them reached the
\* dropoff, where the driver's index does not see it, while the call accepting
\* the other ran.  Accept checks for rides on an unlocked read: it takes both
\* this and the index, whatever the driver's other calls do to his status.
OneRidePerDriver ==
    \A d \in Drivers : \A p, q \in RidesOf(d) :
        p # q => q \in overtaken[p] \/ p \in overtaken[q]

\* Nobody is stuck on a trip: a driver whose status is ON_TRIP, who can
\* neither go offline nor be offered a ride, has a ride whose end frees him.
OnTripHasRide ==
    \A d \in Drivers : online[d] = "ON_TRIP" => RidesOf(d) # {}

\* The call that accepted q was overtaken by another ride of the driver, or q
\* overtook the call that accepted another.
Rivalled(q) ==
    \/ overtaken[q] # {}
    \/ \E p \in Requests : ride[p] # "none" /\ q \in overtaken[p]

\* Without a reservation, and with a balance nobody locks at acceptance, a
\* completion still finds the commission in the wallet, unless a refund took
\* money out of it or two rides were admitted on one balance: switching the
\* payment model, cancelled rides and accepts that overlap never spend it twice.
UnchargedOnlyAfterRefund ==
    \A q \in Requests :
        bill[q] = "failed" => takenOut[driver[q]] > 0 \/ Rivalled(q)

\* The wallet holds what was paid in and given back, less what refunds and
\* the charged rides of that driver took: no deduction is lost or doubled.
WalletAccountsForRides ==
    \A d \in Drivers :
        balance[d] = paidIn[d] + putBack[d] - takenOut[d]
            - Fee * Cardinality({q \in Requests :
                                     driver[q] = d /\ bill[q] = "charged"})

phase ==
    [q \in Requests |->
        CASE ride[q] = "none" -> "waiting"
          [] ride[q] \in {"ACCEPTED", "DRIVER_ARRIVING", "DRIVER_ARRIVED"}
                 -> "assigned"
          [] ride[q] \in {"IN_PROGRESS", "DRIVER_AT_DROPOFF"} -> "under_way"
          [] ride[q] = "COMPLETED" -> "done"
          [] OTHER -> "called_off"]

Promise == INSTANCE TripPromise

\* The calls above implement TripPromise: one driver, departure before
\* completion, ended means ended, and a bill at completion only.
KeepsTripPromise == Promise!Spec
=============================================================================
