----------------------------- MODULE DriverProofs -----------------------------
(***************************************************************************)
(* Safety of what a driver rides and pays: his rides, status and           *)
(* commission wallet (RideLifecycle), and the periods he buys instead of   *)
(* paying commission (Subscription), for any number of requests, drivers,  *)
(* riders, purchases and deliveries, any commission and any bounds.        *)
(*                                                                         *)
(* That a driver has two rides only across the hole in the index rests on  *)
(* DropoffOvertakes: a ride that is at the dropoff while a call of its     *)
(* driver decides to accept got there while that call ran.  That the       *)
(* commission is there rests on both.  That a period is paid for once      *)
(* rests on TiedToOne: whatever refers to an intent, the row that points   *)
(* at it, the delivery that read it or the activation it paid for, refers  *)
(* to one and the same period, unless a key used again took it further.    *)
(***************************************************************************)
EXTENDS RideLifecycle, Subscription, FiniteSetTheorems, TLAPS

-----------------------------------------------------------------------------
(* The rides of a driver.                                                  *)

RideMatchesRequest ==
    \A q \in Requests :
        /\ ride[q] = "none" <=> request[q] # "matched"
        /\ ride[q] # "none" => driver[q] \in Drivers
        /\ ride[q] # "COMPLETED" => bill[q] = "none"
        /\ accepting[q] # Nobody => request[q] = "open"

DropoffOvertakes ==
    \A p, q \in Requests :
        accepting[p] # Nobody /\ driver[q] = accepting[p] /\ ride[q] = "DRIVER_AT_DROPOFF"
            => q \in overtaken[p]

\* d has promised a commission, on a ride or in a call that is accepting one,
\* and the balance it was promised on was not seen by another ride's call.
Promised(d) ==
    \E q \in Requests : pinned[q] /\ ~Rivalled(q) /\ (q \in RidesOf(d) \/ accepting[q] = d)

Covered ==
    \A d \in Drivers : takenOut[d] = 0 /\ Promised(d) => balance[d] >= Fee

IInv ==
    /\ TypeOK
    /\ RideMatchesRequest
    /\ DropoffOvertakes
    /\ OneRidePerDriver
    /\ OnTripHasRide
    /\ Covered
    /\ UnchargedOnlyAfterRefund

(* The initial state: no request, every driver offline, every wallet empty. *)
LEMMA InitEstablishes == Init => IInv
<1> SUFFICES ASSUME Init PROVE IInv
  OBVIOUS
<1>1. TypeOK
  BY DEF Init, TypeOK
<1>2. \A d \in Drivers : RidesOf(d) = {}
  BY DEF Init, RidesOf, ActiveStatus
<1>3. RideMatchesRequest /\ DropoffOvertakes /\ UnchargedOnlyAfterRefund
  BY DEF Init, RideMatchesRequest, DropoffOvertakes, UnchargedOnlyAfterRefund
<1>4. OneRidePerDriver /\ OnTripHasRide
  BY <1>2 DEF Init, OneRidePerDriver, OnTripHasRide
<1>5. Covered
  BY DEF Init, Covered, Promised
<1>q. QED
  BY <1>1, <1>3, <1>4, <1>5 DEF IInv

(* What a transition does: the statuses it may leave, and no other ride.   *)
LEMMA TransitionEffect ==
  ASSUME TypeOK, NEW q \in Requests, NEW to \in RideStatus, Transition(q, to)
  PROVE  /\ ride[q] \in ActiveStatus
         /\ ride' \in [Requests -> RideStatus \cup {"none"}]
         /\ ride'[q] = to
         /\ \A p \in Requests \ {q} : ride'[p] = ride[p]
         /\ to = "DRIVER_ARRIVING" => ride[q] = "ACCEPTED"
         /\ to = "DRIVER_ARRIVED" => ride[q] \in {"ACCEPTED", "DRIVER_ARRIVING"}
         /\ to = "IN_PROGRESS" => ride[q] = "DRIVER_ARRIVED"
         /\ to = "DRIVER_AT_DROPOFF" => ride[q] = "IN_PROGRESS"
         /\ to = "COMPLETED" => ride[q] \in {"IN_PROGRESS", "DRIVER_AT_DROPOFF"}
<1>1. /\ ride[q] \in ActiveStatus
      /\ to \in ALLOWED_TRANSITIONS[ride[q]]
      /\ ride' = [ride EXCEPT ![q] = to]
  BY DEF Transition
<1>2. ride \in [Requests -> RideStatus \cup {"none"}]
  BY DEF TypeOK
<1>3. /\ ALLOWED_TRANSITIONS["ACCEPTED"] = {"DRIVER_ARRIVING", "DRIVER_ARRIVED"} \cup Cancelled
      /\ ALLOWED_TRANSITIONS["DRIVER_ARRIVING"] = {"DRIVER_ARRIVED"} \cup Cancelled
      /\ ALLOWED_TRANSITIONS["DRIVER_ARRIVED"] = {"IN_PROGRESS"} \cup Cancelled
      /\ ALLOWED_TRANSITIONS["IN_PROGRESS"] =
            {"DRIVER_AT_DROPOFF", "COMPLETED"} \cup (Cancelled \ {"CANCELLED_BY_DRIVER"})
      /\ ALLOWED_TRANSITIONS["DRIVER_AT_DROPOFF"] =
            {"COMPLETED"} \cup (Cancelled \ {"CANCELLED_BY_DRIVER"})
  BY DEF ALLOWED_TRANSITIONS
<1>4. /\ to = "DRIVER_ARRIVING" => ride[q] = "ACCEPTED"
      /\ to = "DRIVER_ARRIVED" => ride[q] \in {"ACCEPTED", "DRIVER_ARRIVING"}
      /\ to = "IN_PROGRESS" => ride[q] = "DRIVER_ARRIVED"
      /\ to = "DRIVER_AT_DROPOFF" => ride[q] = "IN_PROGRESS"
      /\ to = "COMPLETED" => ride[q] \in {"IN_PROGRESS", "DRIVER_AT_DROPOFF"}
  BY <1>1, <1>3 DEF ActiveStatus, Cancelled
<1>q. QED
  BY <1>1, <1>2, <1>4

(* Types, for the steps of booking and acceptance. *)
LEMMA RequestStepsKeepTypes ==
  ASSUME TypeOK, (\E c \in Customers : CustomerStep(c)) \/ (\E q \in Requests : RequestStep(q))
  PROVE  TypeOK'
<1> USE DEF TypeOK, requestVars, rideVars, statusVars, walletVars
<1>1. ASSUME NEW c \in Customers, CustomerStep(c) PROVE TypeOK'
  BY <1>1 DEF CustomerStep, CheckRides, CheckRequests, BookingFails
<1>2. ASSUME NEW q \in Requests, NEW c \in Customers, InsertRequest(q, c) PROVE TypeOK'
  BY <1>2 DEF InsertRequest
<1>3. ASSUME NEW q \in Requests, CloseRequest(q) PROVE TypeOK'
  BY <1>3 DEF CloseRequest
<1>4. ASSUME NEW q \in Requests, NEW d \in Drivers, BeginAccept(q, d) PROVE TypeOK'
  BY <1>4 DEF BeginAccept
<1>5. ASSUME NEW q \in Requests, CommitAccept(q) PROVE TypeOK'
  BY <1>5 DEF CommitAccept, RideStatus, ActiveStatus
<1>6. ASSUME NEW q \in Requests, AbortAccept(q) PROVE TypeOK'
  BY <1>6 DEF AbortAccept
<1>q. QED
  BY <1>1, <1>2, <1>3, <1>4, <1>5, <1>6 DEF RequestStep

(* Types, for the transitions of a ride. *)
LEMMA RideStepsKeepTypes ==
  ASSUME TypeOK, NEW q \in Requests, RideStep(q), RideMatchesRequest
  PROVE  TypeOK'
<1> USE DEF requestVars, rideVars, statusVars, walletVars
<1>1. CASE MarkDriverArriving(q) \/ MarkDriverArrived(q) \/ StartRide(q)
             \/ MarkDriverArrivedAtDropoff(q)
  <2>0. {"DRIVER_ARRIVING", "DRIVER_ARRIVED", "IN_PROGRESS", "DRIVER_AT_DROPOFF"}
           \subseteq RideStatus
    BY DEF RideStatus, ActiveStatus
  <2>1. \E to \in RideStatus : Transition(q, to)
    <3>1. \/ Transition(q, "DRIVER_ARRIVING") \/ Transition(q, "DRIVER_ARRIVED")
          \/ Transition(q, "IN_PROGRESS") \/ Transition(q, "DRIVER_AT_DROPOFF")
      BY <1>1 DEF MarkDriverArriving, MarkDriverArrived, StartRide, MarkDriverArrivedAtDropoff
    <3>q. QED
      BY <2>0, <3>1, Zenon
  <2>2. ride' \in [Requests -> RideStatus \cup {"none"}]
    BY <2>1, TransitionEffect
  <2>3. overtaken' \in [Requests -> SUBSET Requests]
    BY <1>1 DEF TypeOK, MarkDriverArriving, MarkDriverArrived, StartRide,
       MarkDriverArrivedAtDropoff, Overtakes
  <2>q. QED
    BY <1>1, <2>2, <2>3 DEF TypeOK, MarkDriverArriving, MarkDriverArrived, StartRide,
       MarkDriverArrivedAtDropoff
<1>2. CASE CompleteRide(q)
  <2>1. ride' \in [Requests -> RideStatus \cup {"none"}] /\ ride[q] \in ActiveStatus
    BY <1>2, TransitionEffect DEF CompleteRide, RideStatus
  <2>2. driver[q] \in Drivers
    BY <2>1 DEF RideMatchesRequest, ActiveStatus
  <2>3. balance' \in [Drivers -> Nat] /\ bill' \in [Requests -> {"none", "charged", "failed"}]
    BY <1>2, <2>2, FeeAssumption DEF TypeOK, CompleteRide, Deducted, InsufficientBalance, NothingDue
  <2>4. overtaken' \in [Requests -> SUBSET Requests]
    BY <1>2 DEF TypeOK, CompleteRide, Overtakes
  <2>q. QED
    BY <1>2, <2>1, <2>2, <2>3, <2>4 DEF TypeOK, CompleteRide
<1>3. CASE CancelRide(q)
  <2>1. ride' \in [Requests -> RideStatus \cup {"none"}]
    BY <1>3, TransitionEffect DEF CancelRide, RideStatus
  <2>q. QED
    BY <1>3, <2>1 DEF TypeOK, CancelRide
<1>q. QED
  BY <1>1, <1>2, <1>3 DEF RideStep

(* Types, for the driver's status and wallet. *)
LEMMA DriverStepsKeepTypes ==
  ASSUME TypeOK, NEW d \in Drivers, StatusStep(d) \/ WalletStep(d)
  PROVE  TypeOK'
<1> USE DEF TypeOK, requestVars, rideVars, statusVars, walletVars
<1>1. CASE SetOnline(d)
  BY <1>1 DEF SetOnline
<1>2. CASE Reactivate(d)
  BY <1>2 DEF Reactivate
<1>3. CASE BeginOffline(d) \/ SetOffline(d)
  BY <1>3 DEF BeginOffline, SetOffline
<1>4. CASE BeginSuspend(d)
  BY <1>4 DEF BeginSuspend
<1>5. CASE SetSuspended(d)
  BY <1>5 DEF SetSuspended
<1>6. CASE SwitchModel(d)
  BY <1>6 DEF SwitchModel
<1>7. CASE Recharge(d)
  BY <1>7, BoundAssumption DEF Recharge
<1>8. CASE DebitForRefund(d)
  BY <1>8, BoundAssumption DEF DebitForRefund
<1>9. CASE RestoreRefundedCredit(d)
  BY <1>9 DEF RestoreRefundedCredit
<1>q. QED
  BY <1>1, <1>2, <1>3, <1>4, <1>5, <1>6, <1>7, <1>8, <1>9 DEF StatusStep, WalletStep

(* Rivals stay rivals while rides stay and no call forgets who overtook it. *)
LEMMA RivalsStay ==
  ASSUME \A p \in Requests : ride[p] # "none" => ride'[p] # "none" /\ overtaken[p] \subseteq overtaken'[p],
         NEW q \in Requests, overtaken[q] \subseteq overtaken'[q], Rivalled(q)
  PROVE  Rivalled(q)'
BY DEF Rivalled

(* A step that leaves the rides and the accepts alone keeps what is said   *)
(* of them.                                                                *)
LEMMA RidesUntouched ==
  ASSUME IInv, UNCHANGED rideVars
  PROVE  /\ \A d \in Drivers : RidesOf(d)' = RidesOf(d) /\ (Promised(d)' <=> Promised(d))
         /\ \A q \in Requests : Rivalled(q)' <=> Rivalled(q)
         /\ DropoffOvertakes' /\ OneRidePerDriver'
<1>1. UNCHANGED <<accepting, ride, driver, pinned, bill, overtaken>>
  BY DEF rideVars
<1>2. \A d \in Drivers : RidesOf(d)' = RidesOf(d)
  BY <1>1 DEF RidesOf
<1>3. \A q \in Requests : Rivalled(q)' <=> Rivalled(q)
  BY <1>1 DEF Rivalled
<1>4. \A d \in Drivers : Promised(d)' <=> Promised(d)
  BY <1>1, <1>2, <1>3 DEF Promised
<1>5. DropoffOvertakes'
  BY <1>1 DEF IInv, DropoffOvertakes
<1>6. OneRidePerDriver'
  BY <1>1, <1>2 DEF IInv, OneRidePerDriver
<1>q. QED
  BY <1>2, <1>3, <1>4, <1>5, <1>6

(* Booking and closing a request touch neither rides nor accepts. *)
LEMMA BookingKeepsInvariant ==
  ASSUME IInv,
         \/ \E c \in Customers : CustomerStep(c)
         \/ \E q \in Requests : CloseRequest(q) \/ \E c \in Customers : InsertRequest(q, c)
  PROVE  IInv'
<1>1. UNCHANGED <<rideVars, statusVars, walletVars>>
  BY DEF CustomerStep, CheckRides, CheckRequests, BookingFails, CloseRequest, InsertRequest
<1>2. TypeOK'
  BY RequestStepsKeepTypes DEF IInv, RequestStep
<1>3. RideMatchesRequest'
  <2>1. UNCHANGED <<accepting, ride, driver, bill>>
    BY <1>1 DEF rideVars
  <2>2. \A q \in Requests : /\ request'[q] = "matched" <=> request[q] = "matched"
                            /\ accepting[q] # Nobody => request'[q] = "open"
    <3>1. CASE UNCHANGED request
      BY <3>1 DEF IInv, RideMatchesRequest
    <3>2. CASE \E q \in Requests : CloseRequest(q)
      BY <3>2 DEF CloseRequest, IInv, TypeOK, RideMatchesRequest
    <3>3. CASE \E q \in Requests, c \in Customers : InsertRequest(q, c)
      BY <3>3 DEF InsertRequest, IInv, TypeOK, RideMatchesRequest
    <3>q. QED
      BY <3>1, <3>2, <3>3 DEF CustomerStep, CheckRides, CheckRequests, BookingFails
  <2>q. QED
    BY <2>1, <2>2 DEF IInv, RideMatchesRequest
<1>4. DropoffOvertakes' /\ OneRidePerDriver' /\ OnTripHasRide' /\ Covered'
  BY <1>1, RidesUntouched DEF IInv, OnTripHasRide, Covered, statusVars, walletVars
<1>5. UnchargedOnlyAfterRefund'
  BY <1>1, RidesUntouched DEF IInv, UnchargedOnlyAfterRefund, rideVars, walletVars
<1>q. QED
  BY <1>2, <1>3, <1>4, <1>5 DEF IInv

(* Accept reads: the driver has no ride, so none at the dropoff either,    *)
(* and his wallet holds the commission.                                    *)
LEMMA BeginAcceptKeepsInvariant ==
  ASSUME IInv, NEW q \in Requests, NEW d \in Drivers, BeginAccept(q, d)
  PROVE  IInv'
<1>1. /\ UNCHANGED <<request, ride, driver, bill, overtaken, online, balance, takenOut>>
      /\ accepting' = [accepting EXCEPT ![q] = d]
      /\ pinned' = [pinned EXCEPT ![q] = model[d] = "COMMISSION"]
      /\ RidesOf(d) = {} /\ CanPay(d) /\ request[q] = "open"
  BY DEF BeginAccept, requestVars, statusVars, walletVars
<1>2. TypeOK /\ RideMatchesRequest /\ TypeOK'
  BY RequestStepsKeepTypes DEF IInv, RequestStep
<1>3. accepting'[q] = d /\ \A p \in Requests \ {q} : accepting'[p] = accepting[p]
                                                  /\ pinned'[p] = pinned[p]
  BY <1>1, <1>2 DEF TypeOK
<1>4. \A e \in Drivers : RidesOf(e)' = RidesOf(e)
  BY <1>1 DEF RidesOf
<1>5. RideMatchesRequest'
  BY <1>1, <1>2, <1>3 DEF RideMatchesRequest
<1>6. DropoffOvertakes'
  BY <1>1, <1>3 DEF IInv, DropoffOvertakes, RidesOf, ActiveStatus
<1>7. OneRidePerDriver' /\ OnTripHasRide'
  BY <1>1, <1>4 DEF IInv, OneRidePerDriver, OnTripHasRide
<1>8. Covered'
  <2> SUFFICES ASSUME NEW e \in Drivers, takenOut'[e] = 0, Promised(e)'
               PROVE  balance[e] >= Fee
    BY <1>1 DEF Covered
  <2>1. PICK p \in Requests : pinned'[p] /\ ~Rivalled(p) /\ (p \in RidesOf(e)' \/ accepting'[p] = e)
    BY <1>1 DEF Promised, Rivalled
  <2>2. CASE p = q
    <3>1. q \notin RidesOf(e)
      BY <1>1, <1>2 DEF RideMatchesRequest, RidesOf, ActiveStatus
    <3>2. e = d /\ model[d] = "COMMISSION"
      <4>0. pinned \in [Requests -> BOOLEAN]
        BY <1>2 DEF TypeOK
      <4>1. pinned'[q] = (model[d] = "COMMISSION")
        BY <1>1, <4>0, Zenon
      <4>q. QED
        BY <1>3, <1>4, <2>1, <2>2, <3>1, <4>1
    <3>q. QED
      BY <1>1, <3>2 DEF CanPay
  <2>3. CASE p # q
    BY <1>1, <1>3, <1>4, <2>1, <2>3 DEF IInv, Covered, Promised
  <2>q. QED
    BY <2>2, <2>3
<1>9. UnchargedOnlyAfterRefund'
  BY <1>1 DEF IInv, UnchargedOnlyAfterRefund, Rivalled
<1>q. QED
  BY <1>2, <1>5, <1>6, <1>7, <1>8, <1>9 DEF IInv

(* Accept gives up: fewer calls, fewer promises, and no ride is without    *)
(* the mark of a rival that it has.                                        *)
LEMMA AbortAcceptKeepsInvariant ==
  ASSUME IInv, NEW q \in Requests, AbortAccept(q)
  PROVE  IInv'
<1>1. /\ UNCHANGED <<request, ride, driver, bill, online, balance, takenOut>>
      /\ accepting[q] # Nobody
      /\ accepting' = [accepting EXCEPT ![q] = Nobody]
      /\ pinned' = [pinned EXCEPT ![q] = FALSE]
      /\ overtaken' = [overtaken EXCEPT ![q] = {}]
  BY DEF AbortAccept, requestVars, statusVars, walletVars
<1>2. TypeOK /\ TypeOK'
  BY RequestStepsKeepTypes DEF IInv, RequestStep
<1>3. /\ accepting'[q] = Nobody /\ ~pinned'[q]
      /\ \A p \in Requests \ {q} :
            accepting'[p] = accepting[p] /\ pinned'[p] = pinned[p] /\ overtaken'[p] = overtaken[p]
  BY <1>1, <1>2 DEF TypeOK
<1>4. ride[q] = "none" /\ bill[q] = "none"
  BY <1>1 DEF IInv, RideMatchesRequest
<1>5. \A p \in Requests \ {q} : Rivalled(p) => Rivalled(p)'
  BY <1>1, <1>3, <1>4, RivalsStay
<1>6. \A e \in Drivers : RidesOf(e)' = RidesOf(e) /\ q \notin RidesOf(e)
  BY <1>1, <1>4 DEF RidesOf, ActiveStatus
<1>7. \A e \in Drivers : Promised(e)' => Promised(e)
  <2> SUFFICES ASSUME NEW e \in Drivers, Promised(e)' PROVE Promised(e)
    OBVIOUS
  <2>1. PICK p \in Requests :
            pinned'[p] /\ ~Rivalled(p)' /\ (p \in RidesOf(e)' \/ accepting'[p] = e)
    BY DEF Promised
  <2>2. p # q
    BY <1>3, <2>1
  <2>q. QED
    BY <1>3, <1>5, <1>6, <2>1, <2>2 DEF Promised
<1>8. RideMatchesRequest' /\ DropoffOvertakes'
  BY <1>1, <1>3 DEF IInv, RideMatchesRequest, DropoffOvertakes
<1>9. OneRidePerDriver'
  BY <1>3, <1>6 DEF IInv, OneRidePerDriver, RidesOf
<1>10. OnTripHasRide' /\ Covered'
  BY <1>1, <1>6, <1>7 DEF IInv, OnTripHasRide, Covered
<1>11. UnchargedOnlyAfterRefund'
  BY <1>1, <1>4, <1>5 DEF IInv, UnchargedOnlyAfterRefund
<1>q. QED
  BY <1>2, <1>8, <1>9, <1>10, <1>11 DEF IInv

(* Accept commits.  Another ride of the driver can only be one the index    *)
(* does not see, at the dropoff, and DropoffOvertakes says how it got there. *)
LEMMA CommitAcceptKeepsInvariant ==
  ASSUME IInv, NEW q \in Requests, CommitAccept(q)
  PROVE  IInv'
<1>0. accepting[q] \in Drivers
  BY DEF IInv, TypeOK, CommitAccept
<1> PICK d \in Drivers : d = accepting[q]
  BY <1>0
<1>1. /\ UNCHANGED <<pinned, bill, overtaken, balance, takenOut>>
      /\ FitsIndexes(q) /\ d # Nobody
      /\ request' = [request EXCEPT ![q] = "matched"]
      /\ ride' = [ride EXCEPT ![q] = "ACCEPTED"]
      /\ driver' = [driver EXCEPT ![q] = d]
      /\ online' = [online EXCEPT ![d] = "ON_TRIP"]
      /\ accepting' = [accepting EXCEPT ![q] = Nobody]
  BY DEF CommitAccept, walletVars
<1>2. TypeOK /\ RideMatchesRequest /\ TypeOK'
  BY RequestStepsKeepTypes DEF IInv, RequestStep
<1>3. /\ request'[q] = "matched" /\ ride'[q] = "ACCEPTED" /\ driver'[q] = d
      /\ accepting'[q] = Nobody /\ online'[d] = "ON_TRIP"
      /\ \A p \in Requests \ {q} :
            /\ request'[p] = request[p] /\ ride'[p] = ride[p]
            /\ driver'[p] = driver[p] /\ accepting'[p] = accepting[p]
      /\ \A e \in Drivers \ {d} : online'[e] = online[e]
  BY <1>1, <1>2 DEF TypeOK
<1>4. request[q] = "open" /\ ride[q] = "none" /\ bill[q] = "none"
  BY <1>1, <1>2 DEF RideMatchesRequest
<1>5. \A p \in RidesOf(d) : p \in overtaken[q]
  <2> SUFFICES ASSUME NEW p \in RidesOf(d) PROVE p \in overtaken[q]
    OBVIOUS
  <2>1. ride[p] = "DRIVER_AT_DROPOFF" /\ driver[p] = d
    BY <1>1 DEF FitsIndexes, RidesOf, ActiveStatus, IndexedStatus
  <2>q. QED
    BY <1>1, <2>1 DEF IInv, DropoffOvertakes, RidesOf
<1>6. /\ RidesOf(d)' = RidesOf(d) \cup {q} /\ q \notin RidesOf(d)
      /\ \A e \in Drivers \ {d} : RidesOf(e)' = RidesOf(e)
  <2>1. q \notin RidesOf(d) /\ q \in RidesOf(d)'
    BY <1>3, <1>4 DEF RidesOf, ActiveStatus
  <2>2. \A e \in Drivers : \A p \in Requests \ {q} : p \in RidesOf(e)' <=> p \in RidesOf(e)
    BY <1>3 DEF RidesOf
  <2>3. \A e \in Drivers \ {d} : q \notin RidesOf(e) /\ q \notin RidesOf(e)'
    BY <1>3, <1>4 DEF RidesOf, ActiveStatus
  <2>4. \A e \in Drivers : RidesOf(e) \subseteq Requests /\ RidesOf(e)' \subseteq Requests
    BY DEF RidesOf
  <2>5. RidesOf(d)' = RidesOf(d) \cup {q}
    BY <2>1, <2>2, <2>4
  <2>6. ASSUME NEW e \in Drivers \ {d} PROVE RidesOf(e)' = RidesOf(e)
    <3>1. RidesOf(e) \subseteq Requests /\ RidesOf(e)' \subseteq Requests
      BY <2>4
    <3>2. \A p \in Requests : p \in RidesOf(e)' <=> p \in RidesOf(e)
      BY <2>2, <2>3
    <3>q. QED
      BY <3>1, <3>2
  <2>q. QED
    BY <2>1, <2>5, <2>6
<1>7. \A e \in Drivers : Promised(e)' => Promised(e)
  <2> SUFFICES ASSUME NEW e \in Drivers, Promised(e)' PROVE Promised(e)
    OBVIOUS
  <2>1. PICK p \in Requests :
            pinned'[p] /\ ~Rivalled(p)' /\ (p \in RidesOf(e)' \/ accepting'[p] = e)
    BY DEF Promised
  <2>2. ~Rivalled(p)
    BY <1>1, <1>3, <1>4, <2>1, RivalsStay
  <2>3. CASE p = q
    <3>1. e = d
      BY <1>3, <1>6, <2>1, <2>3, NobodyAssumption DEF RidesOf
    <3>q. QED
      BY <1>1, <2>1, <2>2, <2>3, <3>1 DEF Promised
  <2>4. CASE p # q
    BY <1>1, <1>3, <1>6, <2>1, <2>2, <2>4 DEF Promised
  <2>q. QED
    BY <2>3, <2>4
<1>8. RideMatchesRequest'
  BY <1>1, <1>2, <1>3, <1>4 DEF RideMatchesRequest
<1>9. DropoffOvertakes'
  BY <1>1, <1>3 DEF IInv, DropoffOvertakes
<1>10. OneRidePerDriver' /\ OnTripHasRide' /\ Covered'
  <2>1. OneRidePerDriver'
    BY <1>1, <1>5, <1>6 DEF IInv, OneRidePerDriver
  <2>2. OnTripHasRide' /\ Covered'
    BY <1>1, <1>3, <1>6, <1>7 DEF IInv, OnTripHasRide, Covered
  <2>q. QED
    BY <2>1, <2>2
<1>11. UnchargedOnlyAfterRefund'
  <2>1. \A p \in Requests : Rivalled(p) => Rivalled(p)'
    BY <1>1, <1>3, RivalsStay
  <2>q. QED
    BY <1>1, <1>3, <1>4, <2>1 DEF IInv, UnchargedOnlyAfterRefund
<1>q. QED
  BY <1>2, <1>8, <1>9, <1>10, <1>11 DEF IInv

(* A ride moves on without ending; one that reaches the dropoff overtakes  *)
(* the calls of its driver.                                                *)
LEMMA MovingKeepsInvariant ==
  ASSUME IInv, NEW q \in Requests,
         \/ MarkDriverArriving(q) \/ MarkDriverArrived(q)
         \/ StartRide(q) \/ MarkDriverArrivedAtDropoff(q)
  PROVE  IInv'
<1>1. UNCHANGED <<requestVars, accepting, driver, pinned, bill, statusVars, walletVars>>
  BY DEF MarkDriverArriving, MarkDriverArrived, StartRide, MarkDriverArrivedAtDropoff
<1>2. UNCHANGED <<request, accepting, driver, pinned, bill, online, balance, takenOut>>
  BY <1>1 DEF requestVars, statusVars, walletVars
<1>3. /\ ride[q] \in ActiveStatus /\ ride'[q] \in ActiveStatus
      /\ \A p \in Requests \ {q} : ride'[p] = ride[p]
      /\ ride'[q] # "DRIVER_AT_DROPOFF" \/ Overtakes(q)
  <2>0. TypeOK /\ {"DRIVER_ARRIVING", "DRIVER_ARRIVED", "IN_PROGRESS", "DRIVER_AT_DROPOFF"}
           \subseteq RideStatus
    BY DEF IInv, RideStatus, ActiveStatus
  <2>1. CASE MarkDriverArriving(q)
    BY <2>0, <2>1, TransitionEffect DEF MarkDriverArriving, ActiveStatus
  <2>2. CASE MarkDriverArrived(q)
    BY <2>0, <2>2, TransitionEffect DEF MarkDriverArrived, ActiveStatus
  <2>3. CASE StartRide(q)
    BY <2>0, <2>3, TransitionEffect DEF StartRide, ActiveStatus
  <2>4. CASE MarkDriverArrivedAtDropoff(q)
    BY <2>0, <2>4, TransitionEffect DEF MarkDriverArrivedAtDropoff, ActiveStatus
  <2>q. QED
    BY <2>1, <2>2, <2>3, <2>4
<1>4. TypeOK /\ TypeOK'
  BY RideStepsKeepTypes DEF IInv, RideStep
<1>5. /\ \A p \in Requests : overtaken[p] \subseteq overtaken'[p]
      /\ Overtakes(q) => \A p \in Requests : accepting[p] = driver[q] => q \in overtaken'[p]
  <2>1. UNCHANGED overtaken \/ Overtakes(q)
    BY DEF MarkDriverArriving, MarkDriverArrived, StartRide, MarkDriverArrivedAtDropoff
  <2>2. ASSUME NEW p \in Requests, Overtakes(q)
        PROVE  /\ overtaken[p] \subseteq overtaken'[p]
               /\ accepting[p] = driver[q] => q \in overtaken'[p]
    BY <2>2 DEF Overtakes
  <2>q. QED
    BY <2>1, <2>2
<1>6. \A e \in Drivers : RidesOf(e)' = RidesOf(e)
  BY <1>2, <1>3 DEF RidesOf
<1>7. \A p \in Requests : Rivalled(p) => Rivalled(p)'
  BY <1>3, <1>5, RivalsStay DEF ActiveStatus
<1>8. \A e \in Drivers : Promised(e)' => Promised(e)
  BY <1>2, <1>6, <1>7 DEF Promised
<1>9. RideMatchesRequest'
  BY <1>2, <1>3 DEF IInv, RideMatchesRequest, ActiveStatus
<1>10. UnchargedOnlyAfterRefund'
  BY <1>2, <1>7 DEF IInv, UnchargedOnlyAfterRefund
<1>11. DropoffOvertakes'
  <2> SUFFICES ASSUME NEW p \in Requests, NEW r \in Requests, accepting[p] # Nobody,
                      driver[r] = accepting[p], ride'[r] = "DRIVER_AT_DROPOFF"
               PROVE  r \in overtaken'[p]
    BY <1>2 DEF DropoffOvertakes
  <2>1. CASE r = q
    BY <1>3, <1>5, <2>1
  <2>2. CASE r # q
    BY <1>3, <1>5, <2>2 DEF IInv, DropoffOvertakes
  <2>q. QED
    BY <2>1, <2>2
<1>12. OneRidePerDriver'
  BY <1>5, <1>6 DEF IInv, OneRidePerDriver, RidesOf
<1>13. OnTripHasRide' /\ Covered'
  BY <1>2, <1>6, <1>8 DEF IInv, OnTripHasRide, Covered
<1>q. QED
  BY <1>4, <1>9, <1>10, <1>11, <1>12, <1>13 DEF IInv

(* A ride ends: the driver's status is ONLINE, and of rides and calls      *)
(* nothing changes but this.                                               *)
LEMMA EndingARide ==
  ASSUME IInv, NEW q \in Requests, CompleteRide(q) \/ CancelRide(q)
  PROVE  /\ UNCHANGED <<request, accepting, driver, pinned, takenOut>>
         /\ ride[q] \in ActiveStatus /\ driver[q] \in Drivers
         /\ ride'[q] \in Cancelled \cup {"COMPLETED"}
         /\ \A p \in Requests \ {q} : ride'[p] = ride[p]
         /\ \A p \in Requests : overtaken[p] \subseteq overtaken'[p]
         /\ \A e \in Drivers : RidesOf(e)' = RidesOf(e) \ {q}
         /\ \A e \in Drivers \ {driver[q]} : online'[e] = online[e] /\ q \notin RidesOf(e)
         /\ online'[driver[q]] = "ONLINE"
         /\ \A p \in Requests : Rivalled(p) => Rivalled(p)'
         /\ \A e \in Drivers : Promised(e)' => Promised(e)
<1>1. /\ UNCHANGED <<request, accepting, driver, pinned, takenOut>>
      /\ online' = [online EXCEPT ![driver[q]] = "ONLINE"]
  BY DEF CompleteRide, CancelRide, requestVars, walletVars
<1>2. /\ ride[q] \in ActiveStatus
      /\ ride'[q] \in Cancelled \cup {"COMPLETED"}
      /\ \A p \in Requests \ {q} : ride'[p] = ride[p]
  <2>1. TypeOK /\ Cancelled \cup {"COMPLETED"} \subseteq RideStatus
    BY DEF IInv, RideStatus
  <2>2. CASE CompleteRide(q)
    BY <2>1, <2>2, TransitionEffect DEF CompleteRide
  <2>3. CASE CancelRide(q)
    BY <2>1, <2>3, TransitionEffect DEF CancelRide
  <2>q. QED
    BY <2>2, <2>3
<1>3. driver[q] \in Drivers
  BY <1>2 DEF IInv, RideMatchesRequest, ActiveStatus
<1>4. /\ online'[driver[q]] = "ONLINE"
      /\ \A e \in Drivers \ {driver[q]} : online'[e] = online[e]
  BY <1>1, <1>3 DEF IInv, TypeOK
<1>5. \A p \in Requests : overtaken[p] \subseteq overtaken'[p]
  BY DEF CompleteRide, CancelRide, Overtakes, IInv, TypeOK
<1>6. \A e \in Drivers : RidesOf(e)' = RidesOf(e) \ {q}
  BY <1>1, <1>2 DEF RidesOf, ActiveStatus, Cancelled
<1>7. \A e \in Drivers \ {driver[q]} : q \notin RidesOf(e)
  BY DEF RidesOf
<1>8. \A p \in Requests : Rivalled(p) => Rivalled(p)'
  BY <1>2, <1>5, RivalsStay DEF Cancelled
<1>9. \A e \in Drivers : Promised(e)' => Promised(e)
  BY <1>1, <1>6, <1>8 DEF Promised
<1>q. QED
  BY <1>1, <1>2, <1>3, <1>4, <1>5, <1>6, <1>7, <1>8, <1>9

(* What the end of a ride keeps, whatever is charged. *)
LEMMA EndingKeepsRides ==
  ASSUME IInv, NEW q \in Requests, CompleteRide(q) \/ CancelRide(q)
  PROVE  DropoffOvertakes' /\ OneRidePerDriver' /\ OnTripHasRide'
<1>1. DropoffOvertakes'
  <2> SUFFICES ASSUME NEW p \in Requests, NEW r \in Requests, accepting[p] # Nobody,
                      driver[r] = accepting[p], ride'[r] = "DRIVER_AT_DROPOFF"
               PROVE  r \in overtaken'[p]
    BY EndingARide DEF DropoffOvertakes
  <2>1. r # q /\ ride[r] = "DRIVER_AT_DROPOFF"
    BY EndingARide DEF Cancelled
  <2>q. QED
    BY <2>1, EndingARide DEF IInv, DropoffOvertakes
<1>2. OneRidePerDriver'
  <2> SUFFICES ASSUME NEW d \in Drivers, NEW p \in RidesOf(d)', NEW r \in RidesOf(d)', p # r
               PROVE  r \in overtaken'[p] \/ p \in overtaken'[r]
    BY DEF OneRidePerDriver
  <2>1. p \in RidesOf(d) /\ r \in RidesOf(d)
    BY EndingARide
  <2>2. p \in Requests /\ r \in Requests
    BY <2>1 DEF RidesOf
  <2>q. QED
    BY <2>1, <2>2, EndingARide DEF IInv, OneRidePerDriver
<1>3. OnTripHasRide'
  <2> SUFFICES ASSUME NEW d \in Drivers, online'[d] = "ON_TRIP" PROVE RidesOf(d)' # {}
    BY DEF OnTripHasRide
  <2>1. d # driver[q] /\ online[d] = "ON_TRIP" /\ q \notin RidesOf(d)
    BY EndingARide
  <2>2. RidesOf(d) # {} /\ RidesOf(d)' = RidesOf(d) \ {q}
    BY <2>1, EndingARide DEF IInv, OnTripHasRide
  <2>q. QED
    BY <2>1, <2>2
<1>q. QED
  BY <1>1, <1>2, <1>3

(* Completion charges the ride when the wallet holds the commission.  The  *)
(* driver's other rides and calls are all rivals of this one, so none of   *)
(* them is promised the commission any more.                               *)
LEMMA CompleteKeepsInvariant ==
  ASSUME IInv, NEW q \in Requests, CompleteRide(q)
  PROVE  IInv'
<1> PICK d : d = driver[q]
  OBVIOUS
<1>1. /\ UNCHANGED <<request, accepting, driver, pinned, takenOut>>
      /\ ride[q] \in ActiveStatus /\ d \in Drivers /\ q \in RidesOf(d)
      /\ \A p \in Requests \ {q} : ride'[p] = ride[p]
      /\ \A e \in Drivers : RidesOf(e)' = RidesOf(e) \ {q}
      /\ \A p \in Requests : Rivalled(p) => Rivalled(p)'
      /\ \A e \in Drivers : Promised(e)' => Promised(e)
  BY EndingARide DEF RidesOf
<1>2. TypeOK /\ TypeOK'
  BY RideStepsKeepTypes DEF IInv, RideStep
<1>3. ride'[q] = "COMPLETED"
  BY <1>2, TransitionEffect DEF CompleteRide, RideStatus
<1>4. \A p \in Requests : overtaken[p] \subseteq overtaken'[p]
                          /\ (accepting[p] = d => q \in overtaken'[p])
  BY <1>2 DEF CompleteRide, Overtakes, TypeOK
<1>5. ~Promised(d)'
  <2> SUFFICES ASSUME NEW p \in Requests, p \in RidesOf(d)' \/ accepting'[p] = d
               PROVE  Rivalled(p)'
    BY DEF Promised
  <2>1. CASE accepting'[p] = d
    BY <1>1, <1>4, <2>1 DEF Rivalled
  <2>2. CASE p \in RidesOf(d)'
    <3>1. p # q /\ p \in RidesOf(d)
      BY <1>1, <2>2
    <3>2. q \in overtaken[p] \/ p \in overtaken[q]
      BY <1>1, <3>1 DEF IInv, OneRidePerDriver
    <3>q. QED
      BY <1>3, <1>4, <3>2 DEF Rivalled
  <2>q. QED
    BY <2>1, <2>2
<1>6. /\ \A p \in Requests \ {q} : bill'[p] = bill[p]
      /\ \A e \in Drivers \ {d} : balance'[e] = balance[e]
      /\ bill'[q] = "failed" => bill[q] = "failed" \/ (pinned[q] /\ balance[d] < Fee)
  BY <1>1, <1>2 DEF CompleteRide, Deducted, InsufficientBalance, NothingDue, TypeOK
<1>7. RideMatchesRequest'
  BY <1>1, <1>3, <1>6 DEF IInv, RideMatchesRequest, ActiveStatus
<1>8. DropoffOvertakes' /\ OneRidePerDriver' /\ OnTripHasRide'
  BY EndingKeepsRides
<1>9. Covered'
  BY <1>1, <1>5, <1>6 DEF IInv, Covered
<1>10. UnchargedOnlyAfterRefund'
  <2>1. bill'[q] = "failed" => takenOut[d] > 0 \/ Rivalled(q)
    <3>1. CASE bill[q] = "failed"
      BY <3>1 DEF IInv, UnchargedOnlyAfterRefund
    <3>2. CASE pinned[q] /\ balance[d] < Fee /\ ~Rivalled(q)
      <4>1. Promised(d)
        BY <1>1, <3>2 DEF Promised
      <4>2. takenOut[d] \in Nat /\ balance[d] \in Nat
        BY <1>1, <1>2 DEF TypeOK
      <4>q. QED
        BY <1>1, <3>2, <4>1, <4>2, FeeAssumption DEF IInv, Covered
    <3>q. QED
      BY <1>6, <3>1, <3>2
  <2>2. driver'[q] = d
    BY <1>1
  <2> SUFFICES ASSUME NEW p \in Requests, bill'[p] = "failed"
               PROVE  takenOut'[driver'[p]] > 0 \/ Rivalled(p)'
    BY DEF UnchargedOnlyAfterRefund
  <2>3. CASE p = q
    BY <1>1, <2>1, <2>2, <2>3
  <2>4. CASE p # q
    BY <1>1, <1>6, <2>4 DEF IInv, UnchargedOnlyAfterRefund
  <2>q. QED
    BY <2>3, <2>4
<1>q. QED
  BY <1>2, <1>7, <1>8, <1>9, <1>10 DEF IInv

(* A cancelled ride charges nothing. *)
LEMMA CancelKeepsInvariant ==
  ASSUME IInv, NEW q \in Requests, CancelRide(q)
  PROVE  IInv'
<1>1. /\ UNCHANGED <<request, accepting, driver, pinned, takenOut>>
      /\ ride[q] \in ActiveStatus /\ ride'[q] \in Cancelled \cup {"COMPLETED"}
      /\ \A p \in Requests \ {q} : ride'[p] = ride[p]
      /\ \A p \in Requests : Rivalled(p) => Rivalled(p)'
      /\ \A e \in Drivers : Promised(e)' => Promised(e)
  BY EndingARide
<1>2. UNCHANGED <<bill, balance>>
  BY DEF CancelRide, walletVars
<1>3. TypeOK'
  BY RideStepsKeepTypes DEF IInv, RideStep
<1>4. RideMatchesRequest'
  BY <1>1, <1>2 DEF IInv, RideMatchesRequest, ActiveStatus, Cancelled
<1>5. DropoffOvertakes' /\ OneRidePerDriver' /\ OnTripHasRide'
  BY EndingKeepsRides
<1>6. Covered' /\ UnchargedOnlyAfterRefund'
  BY <1>1, <1>2 DEF IInv, Covered, UnchargedOnlyAfterRefund
<1>q. QED
  BY <1>3, <1>4, <1>5, <1>6 DEF IInv

(* A status change never writes ON_TRIP, and touches no ride and no wallet. *)
LEMMA StatusKeepsInvariant ==
  ASSUME IInv, NEW d \in Drivers, StatusStep(d)
  PROVE  IInv'
<1>1. UNCHANGED <<requestVars, rideVars, walletVars>>
  BY DEF StatusStep, SetOnline, BeginOffline, SetOffline, BeginSuspend, SetSuspended, Reactivate
<1>2. TypeOK'
  BY DriverStepsKeepTypes DEF IInv
<1>3. \A e \in Drivers : online'[e] = "ON_TRIP" => online[e] = "ON_TRIP"
  BY DEF IInv, TypeOK, StatusStep, SetOnline, BeginOffline, SetOffline, BeginSuspend,
         SetSuspended, Reactivate
<1>4. RideMatchesRequest' /\ UnchargedOnlyAfterRefund'
  BY <1>1, RidesUntouched DEF IInv, RideMatchesRequest, UnchargedOnlyAfterRefund, requestVars,
     rideVars, walletVars
<1>5. DropoffOvertakes' /\ OneRidePerDriver' /\ OnTripHasRide' /\ Covered'
  BY <1>1, <1>3, RidesUntouched DEF IInv, OnTripHasRide, Covered, walletVars
<1>q. QED
  BY <1>2, <1>4, <1>5 DEF IInv

(* Only a refund lowers a wallet outside a completion, and it is recorded. *)
LEMMA WalletKeepsInvariant ==
  ASSUME IInv, NEW d \in Drivers, WalletStep(d)
  PROVE  IInv'
<1>1. UNCHANGED <<requestVars, rideVars, statusVars>>
  BY DEF WalletStep, SwitchModel, Recharge, DebitForRefund, RestoreRefundedCredit
<1>2. TypeOK /\ TypeOK'
  BY DriverStepsKeepTypes DEF IInv
<1>3. \A e \in Drivers : /\ takenOut'[e] >= takenOut[e]
                         /\ takenOut'[e] = 0 => balance'[e] >= balance[e]
  <2>1. CASE SwitchModel(d)
    BY <1>2, <2>1 DEF SwitchModel, TypeOK
  <2>2. CASE Recharge(d)
    BY <1>2, <2>2, BoundAssumption DEF Recharge, TypeOK
  <2>3. CASE DebitForRefund(d)
    BY <1>2, <2>3, BoundAssumption DEF DebitForRefund, TypeOK
  <2>4. CASE RestoreRefundedCredit(d)
    BY <1>2, <2>4 DEF RestoreRefundedCredit, TypeOK
  <2>q. QED
    BY <2>1, <2>2, <2>3, <2>4 DEF WalletStep
<1>4. RideMatchesRequest'
  BY <1>1 DEF IInv, RideMatchesRequest, requestVars, rideVars
<1>5. DropoffOvertakes' /\ OneRidePerDriver' /\ OnTripHasRide'
  BY <1>1, RidesUntouched DEF IInv, OnTripHasRide, statusVars
<1>6. Covered'
  <2> SUFFICES ASSUME NEW e \in Drivers, takenOut'[e] = 0, Promised(e)' PROVE balance'[e] >= Fee
    BY DEF Covered
  <2>1. takenOut[e] = 0 /\ Promised(e) /\ balance'[e] >= balance[e]
    BY <1>1, <1>2, <1>3, RidesUntouched DEF TypeOK
  <2>2. balance[e] >= Fee /\ balance[e] \in Nat /\ balance'[e] \in Nat
    BY <1>2, <2>1 DEF IInv, Covered, TypeOK
  <2>q. QED
    BY <2>1, <2>2, FeeAssumption
<1>7. UnchargedOnlyAfterRefund'
  <2> SUFFICES ASSUME NEW q \in Requests, bill'[q] = "failed", ~Rivalled(q)'
               PROVE  takenOut'[driver'[q]] > 0
    BY DEF UnchargedOnlyAfterRefund
  <2>1. bill[q] = "failed" /\ driver'[q] = driver[q] /\ driver[q] \in Drivers
    BY <1>1 DEF IInv, RideMatchesRequest, rideVars
  <2>2. takenOut[driver[q]] > 0
    BY <1>1, <2>1, RidesUntouched DEF IInv, UnchargedOnlyAfterRefund
  <2>q. QED
    BY <1>2, <1>3, <2>1, <2>2 DEF TypeOK
<1>q. QED
  BY <1>2, <1>4, <1>5, <1>6, <1>7 DEF IInv

(* The invariant is inductive. *)
LEMMA NextKeepsInvariant == IInv /\ [Next]_vars => IInv'
<1> SUFFICES ASSUME IInv, [Next]_vars PROVE IInv'
  OBVIOUS
<1>1. CASE UNCHANGED vars
  <2>1. UNCHANGED <<requestVars, rideVars, statusVars, walletVars>>
    BY <1>1 DEF vars, requestVars, rideVars, statusVars, walletVars
  <2>2. TypeOK'
    BY <1>1 DEF IInv, TypeOK, vars
  <2>3. RideMatchesRequest' /\ UnchargedOnlyAfterRefund'
    BY <1>1 DEF IInv, RideMatchesRequest, UnchargedOnlyAfterRefund, Rivalled, vars
  <2>4. DropoffOvertakes' /\ OneRidePerDriver' /\ OnTripHasRide' /\ Covered'
    BY <2>1, RidesUntouched DEF IInv, OnTripHasRide, Covered, statusVars, walletVars
  <2>q. QED
    BY <2>2, <2>3, <2>4 DEF IInv
<1>2. ASSUME NEW c \in Customers, CustomerStep(c) PROVE IInv'
  BY <1>2, BookingKeepsInvariant
<1>3. ASSUME NEW q \in Requests, RequestStep(q) PROVE IInv'
  BY <1>3, BookingKeepsInvariant, BeginAcceptKeepsInvariant, CommitAcceptKeepsInvariant,
     AbortAcceptKeepsInvariant DEF RequestStep
<1>4. ASSUME NEW q \in Requests, RideStep(q) PROVE IInv'
  BY <1>4, MovingKeepsInvariant, CompleteKeepsInvariant, CancelKeepsInvariant DEF RideStep
<1>5. ASSUME NEW d \in Drivers, StatusStep(d) \/ WalletStep(d) PROVE IInv'
  BY <1>5, StatusKeepsInvariant, WalletKeepsInvariant
<1>q. QED
  BY <1>1, <1>2, <1>3, <1>4, <1>5 DEF Next

\* The inductive invariant holds in every reachable state.
THEOREM Invariance == Spec => []IInv
BY InitEstablishes, NextKeepsInvariant, PTL DEF Spec

\* Every row keeps its type and no wallet goes below zero.
THEOREM TypeCorrect == Spec => []TypeOK
<1>1. IInv => TypeOK
  BY DEF IInv
<1>q. QED
  BY <1>1, Invariance, PTL

\* acceptRideRequest's unlocked read and the index behind it leave a driver with
\* two rides only when one of them left the index, by reaching the dropoff,
\* while the call that accepted the other ran.
THEOREM DriversHaveOneRide == Spec => []OneRidePerDriver
<1>1. IInv => OneRidePerDriver
  BY DEF IInv
<1>q. QED
  BY <1>1, Invariance, PTL

\* completeRide and cancelRide free the driver with the ride: ON_TRIP never
\* outlives the ride it stands for.
THEOREM NobodyStuckOnTrip == Spec => []OnTripHasRide
<1>1. IInv => OnTripHasRide
  BY DEF IInv
<1>q. QED
  BY <1>1, Invariance, PTL

\* The commission seen by hasSufficientBalance is still there when deductInTx
\* wants it, unless debitForRefundInTx took money out, or two rides were
\* admitted on one balance because one of them overtook the other's acceptance.
THEOREM OnlyRefundsUncover == Spec => []UnchargedOnlyAfterRefund
<1>1. IInv => UnchargedOnlyAfterRefund
  BY DEF IInv
<1>q. QED
  BY <1>1, Invariance, PTL

-----------------------------------------------------------------------------
(* The wallet's account. *)

Charged(d) == {q \in Requests : driver[q] = d /\ bill[q] = "charged"}

(* A step that charges nobody keeps the set of charged rides. *)
LEMMA ChargedUntouched ==
  ASSUME IInv, UNCHANGED bill, UNCHANGED driver \/ \E q \in Requests : CommitAccept(q)
  PROVE  \A d \in Drivers : Charged(d)' = Charged(d)
<1>1. CASE UNCHANGED driver
  BY <1>1 DEF Charged
<1>2. ASSUME NEW q \in Requests, CommitAccept(q) PROVE \A d \in Drivers : Charged(d)' = Charged(d)
  <2>1. bill[q] = "none" /\ \A p \in Requests \ {q} : driver'[p] = driver[p]
    BY <1>2 DEF CommitAccept, IInv, TypeOK, RideMatchesRequest
  <2>q. QED
    BY <2>1 DEF Charged
<1>q. QED
  BY <1>1, <1>2

(* A deduction takes one commission for one more charged ride. *)
LEMMA DeductionIsAccounted ==
  ASSUME IInv, WalletAccountsForRides, NEW q \in Requests, CompleteRide(q), Deducted(q)
  PROVE  WalletAccountsForRides'
<1> PICK d : d = driver[q]
  OBVIOUS
<1>1. TypeOK /\ d \in Drivers
  BY EndingARide DEF IInv
<1>2. /\ UNCHANGED <<driver, paidIn, takenOut, putBack>>
      /\ bill[q] # "charged" /\ bill'[q] = "charged"
      /\ \A p \in Requests \ {q} : bill'[p] = bill[p]
      /\ balance'[d] = balance[d] - Fee
      /\ \A e \in Drivers \ {d} : balance'[e] = balance[e]
  BY <1>1 DEF CompleteRide, Deducted, TypeOK
<1>3. /\ Charged(d)' = Charged(d) \cup {q} /\ q \notin Charged(d)
      /\ \A e \in Drivers \ {d} : Charged(e)' = Charged(e)
  BY <1>2 DEF Charged
<1>4. /\ IsFiniteSet(Charged(d)) /\ Cardinality(Charged(d)) \in Nat
      /\ Cardinality(Charged(d)') = Cardinality(Charged(d)) + 1
  <2>1. IsFiniteSet(Charged(d))
    BY RequestsAssumption, FS_Subset DEF Charged
  <2>q. QED
    BY <1>3, <2>1, FS_AddElement, FS_CardinalityType
<1>5. \A e \in Drivers :
         balance[e] = paidIn[e] + putBack[e] - takenOut[e] - Fee * Cardinality(Charged(e))
  BY DEF WalletAccountsForRides, Charged
<1>6. balance'[d] = paidIn[d] + putBack[d] - takenOut[d] - Fee * Cardinality(Charged(d)')
  <2>1. PICK n \in Nat : n = Cardinality(Charged(d))
    BY <1>4
  <2>2. Fee * (n + 1) = Fee * n + Fee /\ Fee * n \in Nat /\ Fee \in Nat
    BY FeeAssumption
  <2>3. paidIn[d] \in Nat /\ putBack[d] \in Nat /\ takenOut[d] \in Nat /\ balance[d] \in Nat
    BY <1>1 DEF TypeOK
  <2>4. balance[d] = paidIn[d] + putBack[d] - takenOut[d] - Fee * n
    BY <1>1, <1>5, <2>1
  <2>q. QED
    BY <1>2, <1>4, <2>1, <2>2, <2>3, <2>4
<1>7. \A e \in Drivers :
         balance'[e] = paidIn[e] + putBack[e] - takenOut[e] - Fee * Cardinality(Charged(e)')
  <2> SUFFICES ASSUME NEW e \in Drivers
               PROVE  balance'[e] = paidIn[e] + putBack[e] - takenOut[e]
                                        - Fee * Cardinality(Charged(e)')
    OBVIOUS
  <2>1. CASE e = d
    BY <1>6, <2>1
  <2>2. CASE e # d
    BY <1>2, <1>3, <1>5, <2>2
  <2>q. QED
    BY <2>1, <2>2
<1>q. QED
  BY <1>2, <1>7 DEF WalletAccountsForRides, Charged

(* Recharges, refunds and their return are booked as they change the       *)
(* balance, and charge no ride.                                            *)
LEMMA WalletIsAccounted ==
  ASSUME IInv, WalletAccountsForRides, NEW d \in Drivers, WalletStep(d)
  PROVE  WalletAccountsForRides'
<1> DEFINE Net(e) == balance[e] - paidIn[e] - putBack[e] + takenOut[e]
<1>1. UNCHANGED <<bill, driver>>
  BY DEF WalletStep, SwitchModel, Recharge, DebitForRefund, RestoreRefundedCredit, rideVars
<1>2. \A e \in Drivers : Net(e)' = Net(e)
  <2> USE DEF IInv, TypeOK
  <2>1. CASE SwitchModel(d)
    BY <2>1 DEF SwitchModel
  <2>2. CASE Recharge(d)
    BY <2>2, BoundAssumption DEF Recharge
  <2>3. CASE DebitForRefund(d)
    BY <2>3, BoundAssumption DEF DebitForRefund
  <2>4. CASE RestoreRefundedCredit(d)
    BY <2>4 DEF RestoreRefundedCredit
  <2>q. QED
    BY <2>1, <2>2, <2>3, <2>4 DEF WalletStep
<1>3. TypeOK'
  BY DriverStepsKeepTypes DEF IInv
<1>4. ASSUME NEW e \in Drivers
      PROVE  balance'[e] = paidIn'[e] + putBack'[e] - takenOut'[e] - Fee * Cardinality(Charged(e))
  <2>1. PICK n : n = Fee * Cardinality(Charged(e))
    OBVIOUS
  <2>2. n \in Nat
    <3>1. Cardinality(Charged(e)) \in Nat
      BY RequestsAssumption, FS_Subset, FS_CardinalityType DEF Charged
    <3>q. QED
      BY <2>1, <3>1, FeeAssumption
  <2>3. balance[e] = paidIn[e] + putBack[e] - takenOut[e] - n
    BY <2>1 DEF WalletAccountsForRides, Charged
  <2>4. Net(e)' = Net(e)
    BY <1>2
  <2>q. QED
    BY <1>3, <2>1, <2>2, <2>3, <2>4 DEF IInv, TypeOK
<1>5. \A e \in Drivers : Charged(e)' = Charged(e)
  BY <1>1, ChargedUntouched DEF IInv
<1>q. QED
  BY <1>4, <1>5 DEF WalletAccountsForRides, Charged

(* Every step keeps the account. *)
LEMMA NextIsAccounted == IInv /\ WalletAccountsForRides /\ [Next]_vars => WalletAccountsForRides'
<1> SUFFICES ASSUME IInv, WalletAccountsForRides, [Next]_vars PROVE WalletAccountsForRides'
  OBVIOUS
<1>1. ASSUME UNCHANGED <<balance, paidIn, takenOut, putBack, bill>>,
             UNCHANGED driver \/ \E q \in Requests : CommitAccept(q)
      PROVE  WalletAccountsForRides'
  BY <1>1, ChargedUntouched DEF WalletAccountsForRides, Charged
<1>2. CASE UNCHANGED vars
  BY <1>1, <1>2 DEF vars
<1>3. ASSUME NEW c \in Customers, CustomerStep(c) PROVE WalletAccountsForRides'
  BY <1>1, <1>3 DEF CustomerStep, CheckRides, CheckRequests, BookingFails, rideVars, walletVars
<1>4. ASSUME NEW q \in Requests, RequestStep(q) PROVE WalletAccountsForRides'
  BY <1>1, <1>4 DEF RequestStep, InsertRequest, CloseRequest, BeginAccept, CommitAccept,
     AbortAccept, rideVars, walletVars
<1>5. ASSUME NEW q \in Requests, RideStep(q) PROVE WalletAccountsForRides'
  <2>1. CASE CompleteRide(q)
    <3>1. CASE Deducted(q)
      BY <2>1, <3>1, DeductionIsAccounted
    <3>2. CASE NothingDue(q)
      BY <1>1, <2>1, <3>2 DEF CompleteRide, NothingDue
    <3>3. CASE InsufficientBalance(q)
      <4>1. UNCHANGED <<balance, paidIn, takenOut, putBack, driver>>
        BY <2>1, <3>3 DEF CompleteRide, InsufficientBalance
      <4>2. \A p \in Requests : bill'[p] = "charged" <=> bill[p] = "charged"
        BY <3>3 DEF InsufficientBalance, IInv, TypeOK
      <4>3. \A d \in Drivers : Charged(d)' = Charged(d)
        BY <4>1, <4>2 DEF Charged
      <4>q. QED
        BY <4>1, <4>3 DEF WalletAccountsForRides, Charged
    <3>q. QED
      BY <2>1, <3>1, <3>2, <3>3 DEF CompleteRide
  <2>2. CASE ~CompleteRide(q)
    BY <1>1, <1>5, <2>2 DEF RideStep, MarkDriverArriving, MarkDriverArrived, StartRide,
       MarkDriverArrivedAtDropoff, CancelRide, walletVars
  <2>q. QED
    BY <2>1, <2>2
<1>6. ASSUME NEW d \in Drivers, StatusStep(d) PROVE WalletAccountsForRides'
  BY <1>1, <1>6 DEF StatusStep, SetOnline, BeginOffline, SetOffline, BeginSuspend, SetSuspended,
     Reactivate, rideVars, walletVars
<1>7. ASSUME NEW d \in Drivers, WalletStep(d) PROVE WalletAccountsForRides'
  BY <1>7, WalletIsAccounted
<1>q. QED
  BY <1>2, <1>3, <1>4, <1>5, <1>6, <1>7 DEF Next

\* The balance of deductInTx, creditInTx and the refunds' debits is exactly
\* what they moved: no deduction is lost, doubled or partial.
THEOREM WalletsBalance == Spec => []WalletAccountsForRides
<1>1. Init => WalletAccountsForRides
  <2> SUFFICES ASSUME Init PROVE WalletAccountsForRides
    OBVIOUS
  <2>1. \A d \in Drivers : Charged(d) = {}
    BY DEF Init, Charged
  <2>2. ASSUME NEW d \in Drivers
        PROVE  balance[d] = paidIn[d] + putBack[d] - takenOut[d] - Fee * Cardinality(Charged(d))
    <3>1. Cardinality(Charged(d)) = 0
      BY <2>1, FS_EmptySet
    <3>2. balance[d] = 0 /\ paidIn[d] = 0 /\ putBack[d] = 0 /\ takenOut[d] = 0
      BY DEF Init
    <3>q. QED
      BY <3>1, <3>2, FeeAssumption
  <2>q. QED
    BY <2>2 DEF WalletAccountsForRides, Charged
<1>q. QED
  BY <1>1, Invariance, NextIsAccounted, PTL DEF Spec

-----------------------------------------------------------------------------
(* The calls implement TripPromise. *)

BeforeStart == {"ACCEPTED", "DRIVER_ARRIVING", "DRIVER_ARRIVED"}

(* The phase of a trip, status by status. *)
PhaseFits(q) ==
    /\ ride[q] = "none" => phase[q] = "waiting"
    /\ ride[q] \in BeforeStart => phase[q] = "assigned"
    /\ ride[q] \in {"IN_PROGRESS", "DRIVER_AT_DROPOFF"} => phase[q] = "under_way"
    /\ ride[q] = "COMPLETED" => phase[q] = "done"
    /\ ride[q] \in Cancelled => phase[q] = "called_off"

(* phase is what it says, before and after a step. *)
LEMMA PhaseOfStatus ==
  ASSUME NEW q \in Requests
  PROVE  PhaseFits(q) /\ PhaseFits(q)'
<1>1. PhaseFits(q)
  BY DEF PhaseFits, phase, BeforeStart, Cancelled
<1>2. PhaseFits(q)'
  BY DEF PhaseFits, phase, BeforeStart, Cancelled
<1>q. QED
  BY <1>1, <1>2

(* A change of one ride changes the phase of its request alone. *)
LEMMA PhaseChange ==
  ASSUME NEW q \in Requests, \A p \in Requests \ {q} : ride'[p] = ride[p]
  PROVE  /\ phase' = [phase EXCEPT ![q] = phase'[q]]
         /\ phase = [phase EXCEPT ![q] = phase[q]]
BY DEF phase

(* A transition is a departure, a finish, a calling off, or invisible. *)
LEMMA RideStepSimulates ==
  ASSUME IInv, NEW q \in Requests, RideStep(q)
  PROVE  Promise!Next \/ UNCHANGED Promise!vars
<1>1. /\ TypeOK /\ Cancelled \subseteq RideStatus
      /\ {"DRIVER_ARRIVING", "DRIVER_ARRIVED", "IN_PROGRESS", "DRIVER_AT_DROPOFF", "COMPLETED"}
            \subseteq RideStatus
  BY DEF IInv, RideStatus, ActiveStatus
<1>2. ASSUME NEW to \in RideStatus, Transition(q, to)
      PROVE  /\ phase' = [phase EXCEPT ![q] = phase'[q]]
             /\ phase'[q] = phase[q] => UNCHANGED phase
             /\ ride'[q] = to
             /\ PhaseFits(q) /\ PhaseFits(q)'
  BY <1>1, <1>2, TransitionEffect, PhaseChange, PhaseOfStatus
<1>3. CASE MarkDriverArriving(q)
  <2>1. Transition(q, "DRIVER_ARRIVING") /\ UNCHANGED <<driver, bill>>
    BY <1>3 DEF MarkDriverArriving
  <2>2. ride[q] \in BeforeStart
    BY <1>1, <2>1, TransitionEffect DEF BeforeStart
  <2>q. QED
    BY <1>1, <1>2, <2>1, <2>2 DEF PhaseFits, BeforeStart, Promise!vars
<1>4. CASE MarkDriverArrived(q)
  <2>1. Transition(q, "DRIVER_ARRIVED") /\ UNCHANGED <<driver, bill>>
    BY <1>4 DEF MarkDriverArrived
  <2>2. ride[q] \in BeforeStart
    BY <1>1, <2>1, TransitionEffect DEF BeforeStart
  <2>q. QED
    BY <1>1, <1>2, <2>1, <2>2 DEF PhaseFits, BeforeStart, Promise!vars
<1>5. CASE StartRide(q)
  <2>1. Transition(q, "IN_PROGRESS") /\ UNCHANGED <<driver, bill>>
    BY <1>5 DEF StartRide
  <2>2. ride[q] \in BeforeStart
    BY <1>1, <2>1, TransitionEffect DEF BeforeStart
  <2>3. Promise!Depart(q)
    BY <1>1, <1>2, <2>1, <2>2 DEF PhaseFits, Promise!Depart
  <2>q. QED
    BY <2>3 DEF Promise!Next
<1>6. CASE MarkDriverArrivedAtDropoff(q)
  <2>1. Transition(q, "DRIVER_AT_DROPOFF") /\ UNCHANGED <<driver, bill>>
    BY <1>6 DEF MarkDriverArrivedAtDropoff
  <2>2. ride[q] = "IN_PROGRESS"
    BY <1>1, <2>1, TransitionEffect
  <2>q. QED
    BY <1>1, <1>2, <2>1, <2>2 DEF PhaseFits, Promise!vars
<1>7. CASE CompleteRide(q)
  <2>1. Transition(q, "COMPLETED") /\ UNCHANGED driver
    BY <1>7 DEF CompleteRide
  <2>2. ride[q] \in {"IN_PROGRESS", "DRIVER_AT_DROPOFF"}
    BY <1>1, <2>1, TransitionEffect
  <2>3. \E b \in {"none", "charged", "failed"} : bill' = [bill EXCEPT ![q] = b]
    <3>1. bill = [bill EXCEPT ![q] = bill[q]] /\ bill[q] \in {"none", "charged", "failed"}
      BY <1>1 DEF TypeOK
    <3>q. QED
      BY <1>7, <3>1 DEF CompleteRide, Deducted, InsufficientBalance, NothingDue
  <2>4. Promise!Finish(q)
    BY <1>1, <1>2, <2>1, <2>2, <2>3 DEF PhaseFits, Promise!Finish
  <2>q. QED
    BY <2>4 DEF Promise!Next
<1>8. CASE CancelRide(q)
  <2>1. PICK to \in Cancelled : Transition(q, to)
    BY <1>8 DEF CancelRide
  <2>2. ride[q] \in BeforeStart \cup {"IN_PROGRESS", "DRIVER_AT_DROPOFF"}
    BY <1>1, <2>1, TransitionEffect DEF BeforeStart, ActiveStatus
  <2>3. phase[q] \in {"assigned", "under_way"} /\ phase'[q] = "called_off"
    BY <1>1, <1>2, <2>1, <2>2 DEF PhaseFits
  <2>4. Promise!CallOff(q)
    BY <1>1, <1>2, <1>8, <2>1, <2>3 DEF CancelRide, Promise!CallOff
  <2>q. QED
    BY <2>4 DEF Promise!Next
<1>q. QED
  BY <1>3, <1>4, <1>5, <1>6, <1>7, <1>8 DEF RideStep

(* A committed acceptance assigns; every other call is invisible. *)
LEMMA StepRefines == IInv /\ [Next]_vars => [Promise!Next]_(Promise!vars)
<1> SUFFICES ASSUME IInv, [Next]_vars PROVE Promise!Next \/ UNCHANGED Promise!vars
  OBVIOUS
<1>1. ASSUME UNCHANGED <<ride, driver, bill>> PROVE UNCHANGED Promise!vars
  BY <1>1 DEF Promise!vars, phase
<1>2. CASE UNCHANGED vars
  BY <1>1, <1>2 DEF vars
<1>3. ASSUME NEW c \in Customers, CustomerStep(c) PROVE UNCHANGED Promise!vars
  BY <1>1, <1>3 DEF CustomerStep, CheckRides, CheckRequests, BookingFails, rideVars
<1>4. ASSUME NEW q \in Requests, CommitAccept(q) PROVE Promise!Next
  <2>1. /\ accepting[q] \in Drivers /\ ride[q] = "none"
        /\ ride' = [ride EXCEPT ![q] = "ACCEPTED"] /\ ride'[q] = "ACCEPTED"
        /\ driver' = [driver EXCEPT ![q] = accepting[q]] /\ UNCHANGED bill
    BY <1>4 DEF CommitAccept, IInv, TypeOK, RideMatchesRequest
  <2>2. phase[q] = "waiting" /\ phase'[q] = "assigned"
    BY <2>1, PhaseOfStatus DEF PhaseFits, BeforeStart
  <2>3. phase' = [phase EXCEPT ![q] = "assigned"]
    BY <2>1, <2>2, PhaseChange
  <2>4. Promise!Assign(q, accepting[q])
    BY <2>1, <2>2, <2>3 DEF Promise!Assign
  <2>q. QED
    BY <2>1, <2>4 DEF Promise!Next
<1>5. ASSUME NEW q \in Requests, RequestStep(q), ~CommitAccept(q) PROVE UNCHANGED Promise!vars
  BY <1>1, <1>5 DEF RequestStep, InsertRequest, CloseRequest, BeginAccept, AbortAccept, rideVars
<1>6. ASSUME NEW q \in Requests, RideStep(q) PROVE Promise!Next \/ UNCHANGED Promise!vars
  BY <1>6, RideStepSimulates
<1>7. ASSUME NEW d \in Drivers, StatusStep(d) \/ WalletStep(d) PROVE UNCHANGED Promise!vars
  BY <1>1, <1>7 DEF StatusStep, SetOnline, BeginOffline, SetOffline, BeginSuspend, SetSuspended,
     Reactivate, WalletStep, SwitchModel, Recharge, DebitForRefund, RestoreRefundedCredit, rideVars
<1>q. QED
  BY <1>2, <1>3, <1>4, <1>5, <1>6, <1>7 DEF Next

\* LifecycleService keeps the promise of a trip: one driver, departure before
\* completion, ended means ended, and at most one charge, at completion.
THEOREM ImplementsTripPromise == Spec => KeepsTripPromise
<1>1. Init => Promise!Init
  BY DEF Init, Promise!Init, phase
<1>2. IInv /\ [Next]_vars => [Promise!Next]_(Promise!vars)
  BY StepRefines
<1>q. QED
  BY <1>1, <1>2, Invariance, PTL DEF Spec, KeepsTripPromise, Promise!Spec

-----------------------------------------------------------------------------
(* The periods a driver buys.                                              *)

Open(n) == period[n].status \in {"PENDING_PAYMENT", "ACTIVE"}

OneOpen == \A m, n \in Periods : Open(m) /\ Open(n) => m = n

Tied(k, n) ==
    \/ period[n].intent = k
    \/ \E w \in Workers : delivery[w] # Nothing /\ delivery[w] = <<k, n>>
    \/ paidBy[n] = <<k>>

TiedToOne ==
    \A k \in Keys \ reused, m, n \in Periods : Tied(k, m) /\ Tied(k, n) => m = n

PaidFor ==
    /\ \A k \in Keys : <<"completed", k>> \in inbox => standing[k] = "paid"
    /\ \A w \in Workers : delivery[w] # Nothing => standing[delivery[w][1]] = "paid"
    /\ \A k \in Keys, n \in Periods : paidBy[n] = <<k>> => standing[k] = "paid"

Served ==
    \A n \in Periods :
        /\ period[n].status \in {"ACTIVE", "EXPIRED"} => paidBy[n] # <<>>
        /\ period[n].status \in {"none", "PENDING_PAYMENT"} => paidBy[n] = <<>>

SubscriptionInv == SubscriptionTypeOK /\ OneOpen /\ TiedToOne /\ PaidFor /\ Served

-----------------------------------------------------------------------------
(* Sequences of one intent. *)
LEMMA OneIntent ==
  /\ \A k \in Keys : <<k>> # <<>> /\ Append(<<>>, k) = <<k>> /\ Len(<<k>>) = 1 /\ <<k>>[1] = k
  /\ \A j, k \in Keys : <<j>> = <<k>> => j = k
  /\ Len(<<>>) = 0
OBVIOUS

(* The initial state: no period, no purchase. *)
LEMMA SubscriptionInitEstablishes == SubscriptionInit => SubscriptionInv
<1> SUFFICES ASSUME SubscriptionInit PROVE SubscriptionInv
  OBVIOUS
<1> USE NothingAssumption
<1>1. SubscriptionTypeOK
  BY DEF SubscriptionInit, SubscriptionTypeOK, Statuses
<1>2. OneOpen /\ Served
  BY DEF SubscriptionInit, OneOpen, Open, Served
<1>3. TiedToOne /\ PaidFor
  BY OneIntent DEF SubscriptionInit, TiedToOne, Tied, PaidFor
<1>q. QED
  BY <1>1, <1>2, <1>3 DEF SubscriptionInv

-----------------------------------------------------------------------------
(* Steps that tie no intent to a period. *)
LEMMA NoNewTie ==
  ASSUME TiedToOne, UNCHANGED reused,
         \A k \in Keys, n \in Periods : Tied(k, n)' => Tied(k, n)
  PROVE  TiedToOne'
BY DEF TiedToOne

(* The first transaction of a purchase points no row at an intent. *)
LEMMA Begin ==
  ASSUME SubscriptionInv, NEW c \in Callers, NEW k \in Keys, BeginPurchase(c, k)
  PROVE  SubscriptionInv'
<1> USE DEF SubscriptionInv
<1>0. /\ \A n \in Periods : period[n].status # "ACTIVE"
      /\ UNCHANGED <<standing, refunded, inbox, choice, delivery, paidBy, reused>>
  BY DEF BeginPurchase, With
<1>1. CASE \E n \in Pending : /\ Reusable(n)
                              /\ offered' = offered \cup {period[n].intent}
                              /\ UNCHANGED <<period, call>>
  <2>1. UNCHANGED <<period, call, standing, inbox, delivery, paidBy, reused>>
    BY <1>0, <1>1
  <2>2. SubscriptionTypeOK'
    BY <1>0, <1>1, <2>1 DEF SubscriptionTypeOK, Reusable
  <2>3. OneOpen' /\ PaidFor' /\ Served'
    BY <2>1 DEF OneOpen, Open, PaidFor, Served
  <2>4. TiedToOne'
    BY <2>1 DEF TiedToOne, Tied
  <2>q. QED
    BY <2>2, <2>3, <2>4
<1>2. CASE \E n \in Pending :
             /\ ~Reusable(n)
             /\ call' = [call EXCEPT ![c] = [period |-> n, key |-> k, at |-> "decided"]]
             /\ UNCHANGED <<period, offered>>
  <2>1. PICK n \in Periods :
             /\ call' = [call EXCEPT ![c] = [period |-> n, key |-> k, at |-> "decided"]]
             /\ UNCHANGED <<period, offered>>
    BY <1>2 DEF Pending, With
  <2>2. SubscriptionTypeOK'
    BY <1>0, <2>1 DEF SubscriptionTypeOK, Purchases
  <2>3. OneOpen' /\ PaidFor' /\ Served'
    BY <1>0, <2>1 DEF OneOpen, Open, PaidFor, Served
  <2>4. TiedToOne'
    BY <1>0, <2>1 DEF TiedToOne, Tied
  <2>q. QED
    BY <2>2, <2>3, <2>4
<1>3. CASE /\ Pending = {}
           /\ \E n \in Periods :
                 /\ period[n].status = "none"
                 /\ \A m \in Periods : m < n => period[m].status # "none"
                 /\ period' = [period EXCEPT ![n].status = "PENDING_PAYMENT"]
                 /\ call' = [call EXCEPT ![c] = [period |-> n, key |-> k, at |-> "decided"]]
           /\ UNCHANGED offered
  <2>1. PICK n \in Periods :
             /\ period[n].status = "none"
             /\ period' = [period EXCEPT ![n].status = "PENDING_PAYMENT"]
             /\ call' = [call EXCEPT ![c] = [period |-> n, key |-> k, at |-> "decided"]]
    BY <1>3
  <2>2. SubscriptionTypeOK'
    BY <1>0, <1>3, <2>1 DEF SubscriptionTypeOK, Purchases, Statuses
  <2>3. /\ \A m \in Periods : period'[m].intent = period[m].intent
        /\ \A m \in Periods : m # n => period'[m].status = period[m].status
        /\ period'[n].status = "PENDING_PAYMENT"
    BY <2>1 DEF SubscriptionTypeOK
  <2>4. \A m \in Periods : period[m].status # "PENDING_PAYMENT"
    BY <1>3 DEF Pending, With
  <2>5. OneOpen' /\ Served' /\ PaidFor'
    BY <1>0, <2>1, <2>3, <2>4 DEF OneOpen, Open, Served, PaidFor
  <2>6. TiedToOne'
    BY <1>0, <2>3, NoNewTie DEF Tied
  <2>q. QED
    BY <2>2, <2>5, <2>6
<1>q. QED
  BY <1>1, <1>2, <1>3, Zenon DEF BeginPurchase

(* The intent is registered: what was paid stays paid. *)
LEMMA Register ==
  ASSUME SubscriptionInv, NEW c \in Callers, RegisterIntent(c)
  PROVE  SubscriptionInv'
<1> USE DEF SubscriptionInv, RegisterIntent
<1>0. /\ call[c] \in Purchases
      /\ call'[c] = [call[c] EXCEPT !.at = "registered"]
      /\ \A b \in Callers : b # c => call'[b] = call[b]
  BY DEF SubscriptionTypeOK, Purchases, Switches
<1>1. SubscriptionTypeOK'
  BY <1>0 DEF SubscriptionTypeOK, Purchases
<1>2. \A k \in Keys : standing[k] = "paid" => standing'[k] = "paid"
  BY DEF SubscriptionTypeOK
<1>3. PaidFor'
  BY <1>2 DEF PaidFor, SubscriptionTypeOK
<1>5. TiedToOne'
  BY NoNewTie DEF Tied
<1>6. OneOpen' /\ Served'
  BY DEF OneOpen, Open, Served
<1>q. QED
  BY <1>1, <1>3, <1>5, <1>6

(* The period is pointed at the intent.  Nothing refers to an intent that is    *)
(* not paid but the rows that point at it, and one that is taken is marked.     *)
LEMMA Attach ==
  ASSUME SubscriptionInv, NEW c \in Callers, NEW heard \in BOOLEAN, AttachIntent(c, heard)
  PROVE  SubscriptionInv'
<1> USE DEF SubscriptionInv, AttachIntent
<1>0. call[c] \in Purchases
  BY DEF SubscriptionTypeOK, Purchases, Switches
<1>1. PICK k \in Keys, p \in Periods : call[c].key = k /\ call[c].period = p
  BY <1>0 DEF Purchases
<1>2. /\ period'[p] = [period[p] EXCEPT !.intent = k]
      /\ \A m \in Periods : m # p => period'[m] = period[m]
      /\ reused' = IF Taken(k, p) THEN reused \cup {k} ELSE reused
      /\ UNCHANGED <<standing, refunded, inbox, choice, delivery, paidBy>>
  BY <1>1 DEF SubscriptionTypeOK
<1>3. /\ \A m \in Periods : period'[m].status = period[m].status
      /\ period'[p].intent = k
  BY <1>2 DEF SubscriptionTypeOK
<1>4. SubscriptionTypeOK'
  <2>1. period' \in [Periods -> [status : Statuses, intent : Keys \cup {Nothing}]]
    BY <1>1 DEF SubscriptionTypeOK
  <2>2. call' \in [Callers -> {Nothing} \cup Purchases \cup Switches]
    BY DEF SubscriptionTypeOK
  <2>3. offered' \subseteq Keys /\ reused' \subseteq Keys
    BY <1>1, <1>2 DEF SubscriptionTypeOK
  <2>q. QED
    BY <2>1, <2>2, <2>3 DEF SubscriptionTypeOK
<1>5. \A j \in Keys, m \in Periods : Tied(j, m)' => Tied(j, m) \/ (j = k /\ m = p)
  <2> SUFFICES ASSUME NEW j \in Keys, NEW m \in Periods, Tied(j, m)', ~(j = k /\ m = p)
               PROVE  Tied(j, m)
    OBVIOUS
  <2>1. period'[m].intent = j => period[m].intent = j
    BY <1>2, <1>3
  <2>q. QED
    BY <1>2, <2>1 DEF Tied
<1>6. k \notin reused' => \A m \in Periods : Tied(k, m) => m = p
  <2> SUFFICES ASSUME k \notin reused', NEW m \in Periods, Tied(k, m) PROVE m = p
    OBVIOUS
  <2>1. ~Taken(k, p)
    BY <1>2
  <2>2. standing[k] # "paid" /\ (m # p => period[m].intent # k)
    BY <2>1 DEF Taken
  <2>3. paidBy[m] # <<k>> /\ ~\E w \in Workers : delivery[w] # Nothing /\ delivery[w] = <<k, m>>
    <3>1. <<k, m>>[1] = k
      OBVIOUS
    <3>q. QED
      BY <2>2, <3>1 DEF PaidFor
  <2>q. QED
    BY <2>2, <2>3 DEF Tied
<1>7. TiedToOne'
  <2> SUFFICES ASSUME NEW j \in Keys \ reused', NEW m \in Periods, NEW n \in Periods,
                      Tied(j, m)', Tied(j, n)'
               PROVE  m = n
    BY DEF TiedToOne
  <2>1. j \notin reused
    BY <1>2
  <2>2. CASE j = k
    BY <1>5, <1>6, <2>2
  <2>3. CASE j # k
    BY <1>5, <2>1, <2>3 DEF TiedToOne
  <2>q. QED
    BY <2>2, <2>3
<1>8. OneOpen' /\ PaidFor' /\ Served'
  BY <1>2, <1>3 DEF OneOpen, Open, PaidFor, Served
<1>q. QED
  BY <1>4, <1>7, <1>8

(* A purchase that fails leaves the row as it is. *)
LEMMA Leave ==
  ASSUME SubscriptionInv, NEW c \in Callers, AbandonPurchase(c) \/ BeginSwitch(c) \/ EndSwitch(c)
  PROVE  SubscriptionInv'
<1> USE DEF SubscriptionInv
<1>0. UNCHANGED <<period, standing, offered, refunded, inbox, delivery, paidBy, reused>>
  BY DEF AbandonPurchase, BeginSwitch, EndSwitch
<1>1. call' \in [Callers -> {Nothing} \cup Purchases \cup Switches]
  BY DEF SubscriptionTypeOK, Switches, AbandonPurchase, BeginSwitch, EndSwitch
<1>2. choice' \in [model : {"none", "SUBSCRIPTION", "COMMISSION"}, staged : BOOLEAN]
  <2>1. \/ choice' = choice
        \/ choice' = [choice EXCEPT !.staged = TRUE]
        \/ choice' = [model |-> "COMMISSION", staged |-> FALSE]
    BY DEF AbandonPurchase, BeginSwitch, EndSwitch
  <2>2. [choice EXCEPT !.staged = TRUE] \in
            [model : {"none", "SUBSCRIPTION", "COMMISSION"}, staged : BOOLEAN]
    BY DEF SubscriptionTypeOK
  <2>3. [model |-> "COMMISSION", staged |-> FALSE] \in
            [model : {"none", "SUBSCRIPTION", "COMMISSION"}, staged : BOOLEAN]
    OBVIOUS
  <2>q. QED
    BY <2>1, <2>2, <2>3 DEF SubscriptionTypeOK
<1>3. SubscriptionTypeOK'
  BY <1>0, <1>1, <1>2 DEF SubscriptionTypeOK
<1>5. TiedToOne'
  BY <1>0, NoNewTie DEF Tied
<1>6. OneOpen' /\ PaidFor' /\ Served'
  BY <1>0 DEF OneOpen, Open, PaidFor, Served
<1>q. QED
  BY <1>3, <1>5, <1>6

-----------------------------------------------------------------------------
(* The payment fails, succeeds or is refunded. *)
LEMMA Payment ==
  ASSUME SubscriptionInv, NEW k \in Keys, PaymentFails(k) \/ PaymentSucceeds(k) \/ RefundSucceeds(k)
  PROVE  SubscriptionInv'
<1> USE DEF SubscriptionInv
<1>0. UNCHANGED <<period, offered, choice, call, delivery, paidBy, reused>>
  BY DEF PaymentFails, PaymentSucceeds, RefundSucceeds
<1>1. SubscriptionTypeOK'
  BY DEF SubscriptionTypeOK, PaymentFails, PaymentSucceeds, RefundSucceeds
<1>2. \A j \in Keys : standing[j] = "paid" => standing'[j] = "paid"
  BY DEF SubscriptionTypeOK, PaymentFails, PaymentSucceeds, RefundSucceeds, Payable
<1>3. \A j \in Keys : <<"completed", j>> \in inbox' => standing'[j] = "paid"
  BY <1>2 DEF SubscriptionTypeOK, PaidFor, PaymentFails, PaymentSucceeds, RefundSucceeds
<1>4. PaidFor'
  BY <1>0, <1>2, <1>3 DEF PaidFor, SubscriptionTypeOK
<1>5. OneOpen' /\ Served'
  BY <1>0 DEF OneOpen, Open, Served
<1>6. TiedToOne'
  BY <1>0 DEF TiedToOne, Tied
<1>q. QED
  BY <1>1, <1>4, <1>5, <1>6

(* The consumer reads the period that points at the intent. *)
LEMMA Read ==
  ASSUME SubscriptionInv, NEW w \in Workers, NEW k \in Keys, ReadPeriod(w, k)
  PROVE  SubscriptionInv'
<1> USE DEF SubscriptionInv
<1>1. PICK n \in Periods :
          /\ <<"completed", k>> \in inbox
          /\ delivery[w] = Nothing
          /\ period[n].intent = k
          /\ \/ delivery' = [delivery EXCEPT ![w] = <<k, n>>] /\ UNCHANGED inbox
             \/ inbox' = inbox \ {<<"completed", k>>} /\ UNCHANGED delivery
  BY DEF ReadPeriod
<1>2. UNCHANGED <<period, standing, offered, refunded, choice, call, paidBy, reused>>
  BY DEF ReadPeriod
<1>3. \A v \in Workers : delivery'[v] = delivery[v] \/ (v = w /\ delivery'[v] = <<k, n>>)
  BY <1>1 DEF SubscriptionTypeOK
<1>4. SubscriptionTypeOK'
  BY <1>1, <1>2 DEF SubscriptionTypeOK
<1>5. \A j \in Keys, m \in Periods : Tied(j, m)' => Tied(j, m)
  <2>1. \A j \in Keys, m \in Periods : <<j, m>> = <<k, n>> => Tied(j, m)
    BY <1>1 DEF Tied
  <2>q. QED
    BY <1>2, <1>3, <2>1 DEF Tied
<1>6. TiedToOne'
  BY <1>2, <1>5, NoNewTie
<1>7. PaidFor'
  <2>1. standing[k] = "paid" /\ <<k, n>>[1] = k
    BY <1>1 DEF PaidFor
  <2>q. QED
    BY <1>1, <1>2, <1>3, <2>1 DEF PaidFor
<1>8. OneOpen' /\ Served'
  BY <1>2 DEF OneOpen, Open, Served
<1>q. QED
  BY <1>4, <1>6, <1>7, <1>8

(* The activation: the delivery's tie becomes the one to what was paid. *)
LEMMA Activation ==
  ASSUME SubscriptionInv, NEW w \in Workers, Activate(w)
  PROVE  SubscriptionInv'
<1> USE DEF SubscriptionInv
<1>1. PICK k \in Keys, n \in Periods : delivery[w] = <<k, n>>
  BY DEF Activate, SubscriptionTypeOK
<1>2. /\ delivery[w] # Nothing
      /\ delivery[w][1] = k /\ delivery[w][2] = n
      /\ delivery' = [delivery EXCEPT ![w] = Nothing]
      /\ inbox' = inbox \ {<<"completed", k>>}
      /\ UNCHANGED <<standing, offered, refunded, call, reused>>
  BY <1>1 DEF Activate
<1>3. \A v \in Workers : delivery'[v] # Nothing => delivery'[v] = delivery[v]
  BY <1>2 DEF SubscriptionTypeOK
<1>4. CASE period[n].status = "PENDING_PAYMENT"
  <2>1. /\ period' = [period EXCEPT ![n].status = "ACTIVE"]
        /\ choice' = [model |-> "SUBSCRIPTION", staged |-> FALSE]
        /\ paidBy' = [paidBy EXCEPT ![n] = Append(@, k)]
    BY <1>2, <1>4 DEF Activate
  <2>2. paidBy[n] = <<>> /\ paidBy'[n] = <<k>> /\ \A m \in Periods : m # n => paidBy'[m] = paidBy[m]
    BY <1>4, <2>1, OneIntent DEF SubscriptionTypeOK, Served
  <2>3. /\ period'[n].status = "ACTIVE"
        /\ \A m \in Periods : period'[m].intent = period[m].intent
        /\ \A m \in Periods : m # n => period'[m] = period[m]
    BY <2>1 DEF SubscriptionTypeOK
  <2>4. SubscriptionTypeOK'
    <3>1. period' \in [Periods -> [status : Statuses, intent : Keys \cup {Nothing}]]
      BY <2>1 DEF SubscriptionTypeOK, Statuses
    <3>2. paidBy' \in [Periods -> {<<>>} \cup {<<j>> : j \in Keys}]
      <4>1. <<k>> \in {<<j>> : j \in Keys} /\ paidBy' = [paidBy EXCEPT ![n] = <<k>>]
        BY <2>1, <2>2
      <4>q. QED
        BY <4>1 DEF SubscriptionTypeOK
    <3>3. delivery' \in [Workers -> {Nothing} \cup (Keys \X Periods)] /\ inbox' \subseteq {"completed", "refunded"} \X Keys
      BY <1>2 DEF SubscriptionTypeOK
    <3>4. choice' \in [model : {"none", "SUBSCRIPTION", "COMMISSION"}, staged : BOOLEAN]
      BY <2>1
    <3>q. QED
      BY <1>2, <3>1, <3>2, <3>3, <3>4 DEF SubscriptionTypeOK
  <2>5. OneOpen'
    BY <1>2, <1>4, <2>3 DEF OneOpen, Open
  <2>6. Served'
    BY <2>2, <2>3, OneIntent DEF Served
  <2>7. PaidFor'
    <3>1. standing[k] = "paid"
      BY <1>2 DEF PaidFor
    <3>2. \A j \in Keys, m \in Periods : paidBy'[m] = <<j>> => standing'[j] = "paid"
      BY <1>2, <2>2, <3>1, OneIntent DEF PaidFor
    <3>q. QED
      BY <1>2, <1>3, <3>2 DEF PaidFor
  <2>8. \A j \in Keys, m \in Periods : Tied(j, m)' => Tied(j, m)
    <3> SUFFICES ASSUME NEW j \in Keys, NEW m \in Periods, Tied(j, m)' PROVE Tied(j, m)
      OBVIOUS
    <3>1. CASE m = n /\ j = k
      BY <1>1, <1>2, <3>1 DEF Tied
    <3>2. CASE ~(m = n /\ j = k)
      <4>1. paidBy'[m] = <<j>> => paidBy[m] = <<j>>
        BY <2>2, <3>2, OneIntent
      <4>q. QED
        BY <1>2, <1>3, <2>3, <4>1 DEF Tied
    <3>q. QED
      BY <3>1, <3>2
  <2>9. TiedToOne'
    BY <1>2, <2>8, NoNewTie
  <2>q. QED
    BY <2>4, <2>5, <2>6, <2>7, <2>9
<1>5. CASE period[n].status # "PENDING_PAYMENT"
  <2>1. UNCHANGED <<period, choice, paidBy>>
    BY <1>2, <1>5 DEF Activate
  <2>2. SubscriptionTypeOK'
    BY <1>2, <2>1 DEF SubscriptionTypeOK
  <2>3. OneOpen' /\ Served'
    BY <1>2, <2>1 DEF OneOpen, Open, Served
  <2>4. PaidFor'
    BY <1>2, <1>3, <2>1 DEF PaidFor
  <2>5. TiedToOne'
    BY <1>2, <1>3, <2>1, NoNewTie DEF Tied
  <2>q. QED
    BY <2>2, <2>3, <2>4, <2>5
<1>q. QED
  BY <1>4, <1>5

(* An event is given up, lost or delivered again. *)
LEMMA Delivery ==
  ASSUME SubscriptionInv,
         \/ \E w \in Workers : DeliveryLost(w)
         \/ \E k \in Keys : GiveUp(k) \/ Redeliver(k)
  PROVE  SubscriptionInv'
<1> USE DEF SubscriptionInv
<1>0. UNCHANGED <<period, standing, offered, refunded, choice, call, paidBy, reused>>
  BY DEF DeliveryLost, GiveUp, Redeliver
<1>1. \A v \in Workers : delivery'[v] # Nothing => delivery'[v] = delivery[v]
  BY DEF SubscriptionTypeOK, DeliveryLost, GiveUp, Redeliver
<1>2. SubscriptionTypeOK'
  <2>1. inbox' \subseteq {"completed", "refunded"} \X Keys
    <3>1. inbox' \subseteq inbox \/ \E k \in Keys : inbox' = inbox \cup {<<"completed", k>>}
      BY DEF DeliveryLost, GiveUp, Redeliver
    <3>q. QED
      BY <3>1 DEF SubscriptionTypeOK
  <2>2. delivery' \in [Workers -> {Nothing} \cup (Keys \X Periods)]
    BY DEF SubscriptionTypeOK, DeliveryLost, GiveUp, Redeliver
  <2>q. QED
    BY <1>0, <2>1, <2>2 DEF SubscriptionTypeOK
<1>3. \A k \in Keys : Redeliver(k) => standing[k] = "paid"
  <2> SUFFICES ASSUME NEW k \in Keys, Redeliver(k) PROVE standing[k] = "paid"
    OBVIOUS
  <2>1. PICK n \in Periods : \E i \in 1..Len(paidBy[n]) : paidBy[n][i] = k
    BY DEF Redeliver
  <2>2. paidBy[n] # <<>>
    BY <2>1, OneIntent
  <2>3. PICK j \in Keys : paidBy[n] = <<j>>
    BY <2>2 DEF SubscriptionTypeOK
  <2>4. j = k
    BY <2>1, <2>3, OneIntent
  <2>q. QED
    BY <2>3, <2>4 DEF PaidFor
<1>4. \A k \in Keys : <<"completed", k>> \in inbox' => standing'[k] = "paid"
  <2>1. \A k \in Keys :
            <<"completed", k>> \in inbox' => <<"completed", k>> \in inbox \/ Redeliver(k)
    <3>1. CASE \E w \in Workers : DeliveryLost(w)
      BY <3>1 DEF DeliveryLost
    <3>2. CASE \E k \in Keys : GiveUp(k)
      BY <3>2 DEF GiveUp
    <3>3. CASE \E k \in Keys : Redeliver(k)
      <4>1. PICK k \in Keys : Redeliver(k)
        BY <3>3
      <4>2. inbox' = inbox \cup {<<"completed", k>>}
        BY <4>1 DEF Redeliver
      <4>3. \A j \in Keys : <<"completed", j>> = <<"completed", k>> => j = k
        OBVIOUS
      <4>q. QED
        BY <4>1, <4>2, <4>3
    <3>q. QED
      BY <3>1, <3>2, <3>3
  <2>q. QED
    BY <1>0, <1>3, <2>1 DEF PaidFor
<1>5. PaidFor'
  BY <1>0, <1>1, <1>4 DEF PaidFor
<1>6. TiedToOne'
  BY <1>0, <1>1, NoNewTie DEF Tied
<1>7. OneOpen' /\ Served'
  BY <1>0 DEF OneOpen, Open, Served
<1>q. QED
  BY <1>2, <1>5, <1>6, <1>7

(* A period ends, refunded or expired. *)
LEMMA Ending ==
  ASSUME SubscriptionInv,
         \/ \E k \in Keys : EndForRefund(k)
         \/ \E n \in Periods : Expire(n)
  PROVE  SubscriptionInv'
<1> USE DEF SubscriptionInv
<1>0. /\ UNCHANGED <<standing, offered, refunded, call, delivery, paidBy, reused>>
      /\ inbox' \subseteq inbox
  BY DEF EndForRefund, Expire
<1>1. /\ period' \in [Periods -> [status : Statuses, intent : Keys \cup {Nothing}]]
      /\ \A m \in Periods :
            /\ period'[m].intent = period[m].intent
            /\ \/ period'[m].status = period[m].status
               \/ period'[m].status = "REFUNDED" /\ Open(m)
               \/ period'[m].status = "EXPIRED" /\ period[m].status = "ACTIVE"
  <2>1. CASE \E k \in Keys : EndForRefund(k)
    BY <2>1 DEF EndForRefund, SubscriptionTypeOK, Statuses, Open
  <2>2. CASE \E n \in Periods : Expire(n)
    BY <2>2 DEF Expire, SubscriptionTypeOK, Statuses
  <2>q. QED
    BY <2>1, <2>2
<1>2. choice' \in [model : {"none", "SUBSCRIPTION", "COMMISSION"}, staged : BOOLEAN]
  <2>1. choice' = choice \/ choice' = [model |-> "COMMISSION", staged |-> FALSE]
    BY DEF EndForRefund, Expire
  <2>2. [model |-> "COMMISSION", staged |-> FALSE] \in
            [model : {"none", "SUBSCRIPTION", "COMMISSION"}, staged : BOOLEAN]
    OBVIOUS
  <2>q. QED
    BY <2>1, <2>2 DEF SubscriptionTypeOK
<1>3. SubscriptionTypeOK'
  BY <1>0, <1>1, <1>2 DEF SubscriptionTypeOK
<1>4. OneOpen' /\ Served'
  BY <1>0, <1>1 DEF OneOpen, Open, Served
<1>5. PaidFor'
  BY <1>0 DEF PaidFor
<1>6. TiedToOne'
  BY <1>0, <1>1, NoNewTie DEF Tied
<1>q. QED
  BY <1>3, <1>4, <1>5, <1>6

-----------------------------------------------------------------------------
(* A stutter keeps everything. *)
LEMMA SubscriptionStutters == ASSUME SubscriptionInv, UNCHANGED subscriptionVars PROVE SubscriptionInv'
<1> USE DEF SubscriptionInv, subscriptionVars
<1>1. SubscriptionTypeOK' /\ OneOpen'
  BY DEF SubscriptionTypeOK, OneOpen, Open
<1>2. TiedToOne' /\ PaidFor' /\ Served'
  BY DEF TiedToOne, Tied, PaidFor, Served
<1>q. QED
  BY <1>1, <1>2

(* Every step keeps the invariant, and the initial states have it. *)
LEMMA SubscriptionInvariance == SubscriptionSpec => []SubscriptionInv
<1>1. SubscriptionInv /\ [SubscriptionNext]_subscriptionVars => SubscriptionInv'
  <2> SUFFICES ASSUME SubscriptionInv, [SubscriptionNext]_subscriptionVars PROVE SubscriptionInv'
    OBVIOUS
  <2>1. CASE UNCHANGED subscriptionVars
    BY <2>1, SubscriptionStutters
  <2>2. CASE SubscriptionNext
    BY <2>2, Begin, Register, Attach, Leave, Payment, Read, Activation, Delivery,
       Ending, Zenon DEF SubscriptionNext
  <2>q. QED
    BY <2>1, <2>2
<1>q. QED
  BY SubscriptionInitEstablishes, <1>1, PTL DEF SubscriptionSpec

(* A subscription keeps its types: for every number of purchases and deliveries, *)
(* no period gets a second activation or a status it cannot have.              *)
THEOREM SubscriptionTyped == SubscriptionSpec => []SubscriptionTypeOK
<1>1. SubscriptionInv => SubscriptionTypeOK
  BY DEF SubscriptionInv
<1>q. QED
  BY SubscriptionInvariance, <1>1, PTL

(* A driver never has two periods that are pending or active, for every number *)
(* of purchases in flight: findPending under the driver's row lock suffices.   *)
THEOREM OnePeriod == SubscriptionSpec => []OneOpenPeriod
<1>1. SubscriptionInv => OneOpenPeriod
  <2> SUFFICES ASSUME SubscriptionInv PROVE OneOpenPeriod
    OBVIOUS
  <2> DEFINE Opened == With("PENDING_PAYMENT") \cup With("ACTIVE")
  <2>1. \A m, n \in Opened : m = n
    BY DEF SubscriptionInv, OneOpen, Open, With
  <2>2. Opened = {} \/ \E n : Opened = {n}
    BY <2>1
  <2>3. Cardinality(Opened) = 0 \/ Cardinality(Opened) = 1
    BY <2>2, FS_EmptySet, FS_Singleton, Zenon
  <2>q. QED
    BY <2>3 DEF OneOpenPeriod
<1>q. QED
  BY SubscriptionInvariance, <1>1, PTL

(* A period is activated once, for an intent that was paid, and an intent that  *)
(* was not given away again activates one period, whatever is delivered twice,  *)
(* late or out of order.                                                        *)
THEOREM ServedOnce == SubscriptionSpec => []PeriodPaidOnce
<1>1. SubscriptionInv => PeriodPaidOnce
  <2> SUFFICES ASSUME SubscriptionInv PROVE PeriodPaidOnce
    OBVIOUS
  <2> USE DEF SubscriptionInv
  <2>1. ASSUME NEW n \in Periods
        PROVE  /\ period[n].status \in {"ACTIVE", "EXPIRED"} => Len(paidBy[n]) = 1
               /\ period[n].status \in {"none", "PENDING_PAYMENT"} => paidBy[n] = <<>>
               /\ Len(paidBy[n]) <= 1
               /\ \A i \in 1..Len(paidBy[n]) : standing[paidBy[n][i]] = "paid"
    <3>1. CASE paidBy[n] = <<>>
      BY <3>1, OneIntent DEF Served
    <3>2. CASE \E k \in Keys : paidBy[n] = <<k>>
      <4>1. PICK k \in Keys : paidBy[n] = <<k>>
        BY <3>2
      <4>2. Len(paidBy[n]) = 1 /\ paidBy[n][1] = k /\ paidBy[n] # <<>>
        BY <4>1, OneIntent
      <4>3. standing[k] = "paid"
        BY <4>1 DEF PaidFor
      <4>q. QED
        BY <4>2, <4>3 DEF Served
    <3>q. QED
      BY <3>1, <3>2 DEF SubscriptionTypeOK
  <2>2. ASSUME NEW m \in Periods, NEW n \in Periods, m # n, paidBy[m] # <<>>,
               paidBy[m] = paidBy[n]
        PROVE  paidBy[m][1] \in reused
    <3>1. PICK k \in Keys : paidBy[m] = <<k>>
      BY <2>2 DEF SubscriptionTypeOK
    <3>2. Tied(k, m) /\ Tied(k, n) /\ paidBy[m][1] = k
      BY <2>2, <3>1, OneIntent DEF Tied
    <3>q. QED
      BY <2>2, <3>2 DEF TiedToOne
  <2>q. QED
    BY <2>1, <2>2 DEF PeriodPaidOnce
<1>q. QED
  BY SubscriptionInvariance, <1>1, PTL

-----------------------------------------------------------------------------
(* The event of a paid intent waits as long as a period waits for it.  A row   *)
(* that is not used yet points nowhere, and no purchase in flight is about one. *)

Buys(r) == r # Nothing /\ r.at \in {"decided", "registered"}

Unused ==
    /\ \A n \in Periods : period[n].status = "none" => period[n].intent = Nothing
    /\ \A c \in Callers : Buys(call[c]) => period[call[c].period].status # "none"

Awaited ==
    \A n \in Periods, k \in Keys \ reused :
        period[n].status = "PENDING_PAYMENT" /\ period[n].intent = k /\ standing[k] = "paid"
            => <<"completed", k>> \in inbox

(* The rows that are not used yet, step by step. *)
LEMMA UnusedStays ==
  ASSUME SubscriptionTypeOK, Unused, SubscriptionNext
  PROVE  Unused'
<1>1. ASSUME NEW c \in Callers, NEW k \in Keys, BeginPurchase(c, k) PROVE Unused'
  <2>1. CASE UNCHANGED <<period, call>>
    BY <2>1 DEF Unused
  <2>2. CASE ~UNCHANGED <<period, call>>
    <3>1. PICK n \in Periods :
               /\ \/ period[n].status = "PENDING_PAYMENT" /\ UNCHANGED period
                  \/ period' = [period EXCEPT ![n].status = "PENDING_PAYMENT"]
               /\ call' = [call EXCEPT ![c] = [period |-> n, key |-> k, at |-> "decided"]]
      BY <1>1, <2>2 DEF BeginPurchase, Pending, With
    <3>2. /\ period'[n].status = "PENDING_PAYMENT"
          /\ \A m \in Periods : m # n => period'[m] = period[m]
      BY <3>1 DEF SubscriptionTypeOK
    <3>3. /\ call'[c].period = n
          /\ \A b \in Callers : b # c => call'[b] = call[b]
      BY <3>1 DEF SubscriptionTypeOK
    <3>4. \A m \in Periods : period'[m].status = "none" => period'[m].intent = Nothing
      BY <3>2 DEF Unused
    <3>5. ASSUME NEW b \in Callers, Buys(call'[b])
          PROVE  period'[call'[b].period].status # "none"
      <4>1. CASE b = c
        BY <3>2, <3>3, <4>1
      <4>2. CASE b # c
        <5>1. Buys(call[b]) /\ call'[b] = call[b]
          BY <3>3, <3>5, <4>2
        <5>2. call[b].period \in Periods
          BY <5>1 DEF Buys, SubscriptionTypeOK, Purchases, Switches
        <5>q. QED
          BY <3>2, <5>1, <5>2 DEF Unused
      <4>q. QED
        BY <4>1, <4>2
    <3>q. QED
      BY <3>4, <3>5 DEF Unused
  <2>q. QED
    BY <2>1, <2>2
<1>2. ASSUME NEW c \in Callers, RegisterIntent(c) PROVE Unused'
  <2>1. UNCHANGED period /\ call' = [call EXCEPT ![c].at = "registered"]
    BY <1>2 DEF RegisterIntent
  <2>2. call[c] \in Purchases
    BY <1>2 DEF RegisterIntent, SubscriptionTypeOK, Switches
  <2>3. /\ call'[c].period = call[c].period
        /\ \A b \in Callers : b # c => call'[b] = call[b]
    BY <2>1, <2>2 DEF SubscriptionTypeOK, Purchases
  <2>4. Buys(call[c])
    BY <1>2 DEF RegisterIntent, Buys
  <2>5. \A b \in Callers : Buys(call'[b]) => Buys(call[b]) /\ call'[b].period = call[b].period
    BY <2>3, <2>4
  <2>q. QED
    BY <2>1, <2>5 DEF Unused
<1>3. ASSUME NEW c \in Callers, NEW heard \in BOOLEAN, AttachIntent(c, heard) PROVE Unused'
  <2>1. call[c] \in Purchases
    BY <1>3 DEF AttachIntent, SubscriptionTypeOK, Switches
  <2>2. PICK p \in Periods : call[c].period = p
    BY <2>1 DEF Purchases
  <2>3. /\ period' = [period EXCEPT ![p].intent = call[c].key]
        /\ call' = [call EXCEPT ![c] = Nothing]
    BY <1>3, <2>2 DEF AttachIntent
  <2>4. /\ \A m \in Periods : period'[m].status = period[m].status
        /\ \A m \in Periods : m # p => period'[m] = period[m]
    BY <2>3 DEF SubscriptionTypeOK
  <2>5. period[p].status # "none"
    BY <1>3, <2>2 DEF Unused, AttachIntent, Buys
  <2>6. \A m \in Periods : period'[m].status = "none" => period'[m].intent = Nothing
    BY <2>4, <2>5 DEF Unused
  <2>7. \A b \in Callers : Buys(call'[b]) => Buys(call[b]) /\ call'[b] = call[b]
    BY <2>3 DEF SubscriptionTypeOK, Buys
  <2>8. \A b \in Callers : Buys(call[b]) => call[b].period \in Periods
    BY DEF Buys, SubscriptionTypeOK, Purchases, Switches
  <2>q. QED
    BY <2>4, <2>6, <2>7, <2>8 DEF Unused
<1>4. ASSUME NEW c \in Callers, AbandonPurchase(c) \/ BeginSwitch(c) \/ EndSwitch(c) PROVE Unused'
  <2>1. UNCHANGED period
    BY <1>4 DEF AbandonPurchase, BeginSwitch, EndSwitch
  <2>2. \A b \in Callers : Buys(call'[b]) => call'[b] = call[b]
    BY <1>4 DEF AbandonPurchase, BeginSwitch, EndSwitch, SubscriptionTypeOK, Buys
  <2>q. QED
    BY <2>1, <2>2 DEF Unused
<1>5. CASE UNCHANGED <<period, call>>
  BY <1>5 DEF Unused
<1>6. ASSUME UNCHANGED call,
             \A m \in Periods : /\ period'[m].intent = period[m].intent
                                /\ (period'[m].status = "none") <=> (period[m].status = "none")
      PROVE  Unused'
  <2>1. \A b \in Callers : Buys(call[b]) => call[b].period \in Periods
    BY DEF Buys, SubscriptionTypeOK, Purchases, Switches
  <2>q. QED
    BY <1>6, <2>1 DEF Unused
<1>7. ASSUME NEW w \in Workers, Activate(w) PROVE Unused'
  <2>1. PICK k \in Keys, n \in Periods : delivery[w] = <<k, n>>
    BY <1>7 DEF Activate, SubscriptionTypeOK
  <2>2. /\ UNCHANGED call
        /\ \/ UNCHANGED period
           \/ /\ period[n].status = "PENDING_PAYMENT"
              /\ period' = [period EXCEPT ![n].status = "ACTIVE"]
    BY <1>7, <2>1 DEF Activate
  <2>q. QED
    BY <1>6, <2>2 DEF SubscriptionTypeOK
<1>8. ASSUME (\E k \in Keys : EndForRefund(k)) \/ (\E n \in Periods : Expire(n)) PROVE Unused'
  <2>1. UNCHANGED call
    BY <1>8 DEF EndForRefund, Expire
  <2>2. \A m \in Periods : /\ period'[m].intent = period[m].intent
                           /\ (period'[m].status = "none") <=> (period[m].status = "none")
    <3>1. CASE \E k \in Keys : EndForRefund(k)
      BY <3>1 DEF EndForRefund, SubscriptionTypeOK
    <3>2. CASE \E n \in Periods : Expire(n)
      BY <3>2 DEF Expire, SubscriptionTypeOK
    <3>q. QED
      BY <1>8, <3>1, <3>2
  <2>q. QED
    BY <1>6, <2>1, <2>2
<1>9. ASSUME \/ \E k \in Keys : PaymentFails(k) \/ PaymentSucceeds(k) \/ RefundSucceeds(k)
             \/ \E w \in Workers, k \in Keys : ReadPeriod(w, k)
             \/ \E w \in Workers : DeliveryLost(w)
             \/ \E k \in Keys : GiveUp(k) \/ Redeliver(k)
      PROVE  Unused'
  BY <1>5, <1>9 DEF PaymentFails, PaymentSucceeds, RefundSucceeds, ReadPeriod, DeliveryLost, GiveUp,
     Redeliver
<1>q. QED
  BY <1>1, <1>2, <1>3, <1>4, <1>7, <1>8, <1>9 DEF SubscriptionNext

(* A step that settles no event, pays no intent and lets no period wait for     *)
(* another intent.                                                              *)
LEMMA KeepsWaiting ==
  ASSUME Awaited, reused \subseteq reused', inbox \subseteq inbox',
         \A k \in Keys : standing'[k] = "paid" => standing[k] = "paid" \/ <<"completed", k>> \in inbox',
         \A n \in Periods : period'[n].status = "PENDING_PAYMENT" /\ period'[n].intent \in Keys
             => \/ period[n].status = "PENDING_PAYMENT" /\ period[n].intent = period'[n].intent
                \/ standing'[period'[n].intent] # "paid"
                \/ period'[n].intent \in reused'
  PROVE  Awaited'
BY DEF Awaited

(* The event of a period that waits is settled by no other period's delivery.   *)
LEMMA AwaitedStays ==
  ASSUME SubscriptionInv, Unused, Awaited, SubscriptionNext
  PROVE  Awaited'
<1> USE DEF SubscriptionInv
<1>1. ASSUME NEW c \in Callers, NEW k \in Keys, BeginPurchase(c, k) PROVE Awaited'
  <2>1. UNCHANGED <<standing, inbox, reused>>
    BY <1>1 DEF BeginPurchase
  <2>2. \/ UNCHANGED period
        \/ \E n \in Periods : /\ period[n].status = "none"
                              /\ period' = [period EXCEPT ![n].status = "PENDING_PAYMENT"]
    BY <1>1 DEF BeginPurchase
  <2>3. \A n \in Periods : period'[n].status = "PENDING_PAYMENT" /\ period'[n].intent \in Keys
            => period[n].status = "PENDING_PAYMENT" /\ period[n].intent = period'[n].intent
    BY <2>2, NothingAssumption DEF Unused, SubscriptionTypeOK
  <2>q. QED
    BY <2>1, <2>3, KeepsWaiting
<1>2. ASSUME NEW c \in Callers, RegisterIntent(c) PROVE Awaited'
  <2>1. \A k \in Keys : standing'[k] = "paid" => standing[k] = "paid"
    BY <1>2 DEF RegisterIntent, SubscriptionTypeOK
  <2>2. UNCHANGED <<period, inbox, reused>>
    BY <1>2 DEF RegisterIntent
  <2>q. QED
    BY <2>1, <2>2, KeepsWaiting
<1>3. ASSUME NEW c \in Callers, NEW heard \in BOOLEAN, AttachIntent(c, heard) PROVE Awaited'
  <2>1. call[c] \in Purchases
    BY <1>3 DEF AttachIntent, SubscriptionTypeOK, Switches
  <2>2. PICK k \in Keys, p \in Periods : call[c].key = k /\ call[c].period = p
    BY <2>1 DEF Purchases
  <2>3. /\ period' = [period EXCEPT ![p].intent = k]
        /\ reused' = IF Taken(k, p) THEN reused \cup {k} ELSE reused
        /\ UNCHANGED <<standing, inbox>>
    BY <1>3, <2>2 DEF AttachIntent
  <2>4. /\ period'[p].intent = k
        /\ \A m \in Periods : m # p => period'[m] = period[m]
    BY <2>3 DEF SubscriptionTypeOK
  <2>5. standing'[k] # "paid" \/ k \in reused'
    BY <2>3 DEF Taken
  <2>q. QED
    BY <2>3, <2>4, <2>5, KeepsWaiting
<1>4. ASSUME NEW c \in Callers, AbandonPurchase(c) \/ BeginSwitch(c) \/ EndSwitch(c) PROVE Awaited'
  BY <1>4 DEF Awaited, AbandonPurchase, BeginSwitch, EndSwitch
<1>5. ASSUME NEW k \in Keys, PaymentFails(k) \/ PaymentSucceeds(k) \/ RefundSucceeds(k) PROVE Awaited'
  <2>1. UNCHANGED <<period, reused>> /\ inbox \subseteq inbox'
    BY <1>5 DEF PaymentFails, PaymentSucceeds, RefundSucceeds
  <2>2. \A j \in Keys : standing'[j] = "paid" => standing[j] = "paid" \/ <<"completed", j>> \in inbox'
    BY <1>5 DEF PaymentFails, PaymentSucceeds, RefundSucceeds, SubscriptionTypeOK
  <2>q. QED
    BY <2>1, <2>2, KeepsWaiting
<1>6. ASSUME NEW w \in Workers, NEW k \in Keys, ReadPeriod(w, k) PROVE Awaited'
  <2>1. UNCHANGED <<period, standing, reused>>
    BY <1>6 DEF ReadPeriod
  <2>2. CASE UNCHANGED inbox
    BY <2>1, <2>2, KeepsWaiting
  <2>3. CASE ~UNCHANGED inbox
    <3>1. PICK n \in Periods : /\ period[n].intent = k
                               /\ period[n].status # "PENDING_PAYMENT"
                               /\ inbox' = inbox \ {<<"completed", k>>}
      BY <1>6, <2>3 DEF ReadPeriod
    <3>2. \A m \in Periods : k \notin reused /\ period[m].intent = k => m = n
      BY <3>1 DEF TiedToOne, Tied
    <3>q. QED
      BY <2>1, <3>1, <3>2 DEF Awaited
  <2>q. QED
    BY <2>2, <2>3
<1>7. ASSUME NEW w \in Workers, Activate(w) PROVE Awaited'
  <2>1. PICK k \in Keys, n \in Periods : delivery[w] = <<k, n>>
    BY <1>7 DEF Activate, SubscriptionTypeOK
  <2>2. /\ delivery[w] # Nothing
        /\ inbox' = inbox \ {<<"completed", k>>}
        /\ UNCHANGED <<standing, reused>>
        /\ IF period[n].status = "PENDING_PAYMENT"
             THEN period' = [period EXCEPT ![n].status = "ACTIVE"] ELSE UNCHANGED period
    BY <1>7, <2>1 DEF Activate
  <2>3. /\ period'[n].status # "PENDING_PAYMENT"
        /\ \A m \in Periods : period'[m].intent = period[m].intent
        /\ \A m \in Periods : m # n => period'[m].status = period[m].status
    BY <2>2 DEF SubscriptionTypeOK
  <2>4. \A m \in Periods : k \notin reused /\ period[m].intent = k => m = n
    BY <2>1, <2>2 DEF TiedToOne, Tied
  <2>q. QED
    BY <2>2, <2>3, <2>4 DEF Awaited
<1>8. ASSUME NEW w \in Workers, DeliveryLost(w) PROVE Awaited'
  BY <1>8 DEF Awaited, DeliveryLost
<1>9. ASSUME NEW k \in Keys, GiveUp(k) PROVE Awaited'
  BY <1>9 DEF Awaited, GiveUp
<1>10. ASSUME NEW k \in Keys, Redeliver(k) PROVE Awaited'
  BY <1>10 DEF Awaited, Redeliver
<1>11. ASSUME (\E k \in Keys : EndForRefund(k)) \/ (\E n \in Periods : Expire(n)) PROVE Awaited'
  <2>1. UNCHANGED <<standing, reused>>
    BY <1>11 DEF EndForRefund, Expire
  <2>2. \A k \in Keys : <<"completed", k>> \in inbox => <<"completed", k>> \in inbox'
    BY <1>11 DEF EndForRefund, Expire
  <2>3. \A m \in Periods : /\ period'[m].intent = period[m].intent
                           /\ period'[m].status = "PENDING_PAYMENT" => period[m].status = "PENDING_PAYMENT"
    <3>1. CASE \E k \in Keys : EndForRefund(k)
      BY <3>1 DEF EndForRefund, SubscriptionTypeOK
    <3>2. CASE \E n \in Periods : Expire(n)
      BY <3>2 DEF Expire, SubscriptionTypeOK
    <3>q. QED
      BY <1>11, <3>1, <3>2
  <2>q. QED
    BY <2>1, <2>2, <2>3 DEF Awaited
<1>q. QED
  BY <1>1, <1>2, <1>3, <1>4, <1>5, <1>6, <1>7, <1>8, <1>9, <1>10, <1>11 DEF SubscriptionNext

(* A pending period whose intent is paid keeps the event that will activate it, *)
(* and that event finds no other: whatever delivery dies, comes twice, or is    *)
(* given up, and whatever row is pointed elsewhere meanwhile.                   *)
THEOREM PaymentsAreServed == SubscriptionSpec => []PaidPeriodHasEvent
<1>1. SubscriptionInit => Unused /\ Awaited
  <2> SUFFICES ASSUME SubscriptionInit PROVE Unused /\ Awaited
    OBVIOUS
  <2>1. Unused
    <3>1. \A c \in Callers : call[c] = Nothing
      BY DEF SubscriptionInit
    <3>q. QED
      BY <3>1 DEF SubscriptionInit, Unused, Buys
  <2>q. QED
    BY <2>1 DEF SubscriptionInit, Awaited
<1>2. SubscriptionInv /\ Unused /\ Awaited /\ [SubscriptionNext]_subscriptionVars
          => Unused' /\ Awaited'
  <2>1. CASE UNCHANGED subscriptionVars
    BY <2>1 DEF subscriptionVars, Unused, Awaited
  <2>2. CASE SubscriptionNext
    BY <2>2, UnusedStays, AwaitedStays DEF SubscriptionInv
  <2>q. QED
    BY <2>1, <2>2
<1>3. SubscriptionInv /\ Awaited => PaidPeriodHasEvent
  <2> SUFFICES ASSUME SubscriptionInv, Awaited, NEW n \in Periods, NEW k \in Keys, k \notin reused,
                      period[n] = [status |-> "PENDING_PAYMENT", intent |-> k], standing[k] = "paid"
               PROVE  /\ <<"completed", k>> \in inbox
                      /\ \A m \in Periods \ {n} : period[m].intent # k
    BY DEF PaidPeriodHasEvent
  <2>1. period[n].status = "PENDING_PAYMENT" /\ period[n].intent = k
    OBVIOUS
  <2>q. QED
    BY <2>1 DEF Awaited, SubscriptionInv, TiedToOne, Tied
<1>q. QED
  BY <1>1, <1>2, <1>3, SubscriptionInvariance, PTL DEF SubscriptionSpec
=============================================================================
