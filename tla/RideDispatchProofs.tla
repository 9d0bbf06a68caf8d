--------------------------- MODULE RideDispatchProofs ---------------------------
(***************************************************************************)
(* Safety of the search for a driver, for any finite number of drivers,    *)
(* any requests and workers, and any limits: one winner, an outcome that   *)
(* stands, and rounds that do not stack while no lock ran out under one.   *)
(***************************************************************************)
EXTENDS RideDispatch, FiniteSetTheorems, TLAPS

\* A worker in a round, or about to refresh, has a request.
Placed == \A w \in Workers : pc[w] # "idle" => at[w] \in Requests

\* The offer that is being accepted stays pending under the row lock.
AcceptsPending ==
    \A q \in Requests : accepting[q] # None => response[q][accepting[q]] = "PENDING"

\* Only a boosted request is dispatched again after a boost.
Boosting ==
    /\ \A q \in Requests : boosted[q] > 0 => boosts[q] > 0
    /\ \A w \in Workers : pc[w] = "refresh" => boosts[at[w]] > 0

\* A worker inside a round holds the lock of its request.
InRound(w) == pc[w] \notin {"idle", "refresh"}
Locked == ~overran => \A w \in Workers : InRound(w) => lock[at[w]] = w

\* What a round counted, planned and has yet to offer stays within the limits.
Fits(w, q) ==
    /\ pc[w] = "plan" =>
           /\ live[w] < BatchSize
           /\ boosts[q] = 0 => Cardinality(Live(q)) <= live[w]
    /\ pc[w] = "offer" =>
           /\ boosts[q] = 0 => Cardinality(Live(q)) + Cardinality(fresh[w]) <= BatchSize
           /\ Cardinality(Asked(q)) + Cardinality(fresh[w]) <= MaxAttempted
RoundsFit ==
    ~overran => \A w \in Workers, q \in Requests : at[w] = q => Fits(w, q)

IInv ==
    /\ TypeOK
    /\ Placed
    /\ AcceptsPending
    /\ Boosting
    /\ Locked
    /\ RoundsFit
    /\ AcceptedIffRide
    /\ RoundsDoNotStack

-----------------------------------------------------------------------------
(* Types.                                                                  *)

(* A function changed at one argument keeps its type.                      *)
LEMMA Updated ==
  ASSUME NEW A, NEW B, NEW f \in [A -> B], NEW x, NEW y \in B
  PROVE  [f EXCEPT ![x] = y] \in [A -> B]
OBVIOUS

(* The drivers ever asked, and those asked now, can be counted.             *)
LEMMA Counted ==
  ASSUME NEW q \in Requests
  PROVE  /\ Live(q) \subseteq Asked(q)
         /\ IsFiniteSet(Live(q)) /\ Cardinality(Live(q)) \in Nat
         /\ IsFiniteSet(Asked(q)) /\ Cardinality(Asked(q)) \in Nat
         /\ Cardinality(Live(q)) <= Cardinality(Asked(q))
<1>1. Live(q) \subseteq Asked(q) /\ Asked(q) \subseteq Drivers
  BY DEF Live, Asked
<1>q. QED
  BY <1>1, DriversAssumption, FS_Subset, FS_CardinalityType

\* The steps, one by one.
Stepping ==
    \/ \E q \in Requests : CreateRequest(q)
    \/ \E q \in Requests : CancelRequest(q)
    \/ \E q \in Requests : BoostRequest(q)
    \/ \E q \in Requests : RequestLapses(q)
    \/ \E q \in Requests : SkipRound(q)
    \/ \E q \in Requests : CommitAccept(q)
    \/ \E q \in Requests : RollBackAccept(q)
    \/ \E q \in Requests : DispatchAffected(q)
    \/ \E q \in Requests : ExpireOverdue(q)
    \/ \E q \in Requests : Redeliver(q)
    \/ \E q \in Requests : LoseCall(q)
    \/ \E q \in Requests : LockExpires(q)
    \/ \E q \in Requests, d \in Drivers : OfferLapses(q, d)
    \/ \E q \in Requests, d \in Drivers : RejectOffer(q, d)
    \/ \E q \in Requests, d \in Drivers : BeginAccept(q, d)
    \/ \E q \in Requests, d \in Drivers : TimeOutOffer(q, d)
    \/ \E w \in Workers, q \in Requests : EnterRound(w, q)
    \/ \E w \in Workers, q \in Requests : BeginRedispatch(w, q)
    \/ \E w \in Workers : ReadRequest(w)
    \/ \E w \in Workers : CountLive(w)
    \/ \E w \in Workers : PlanLimitReached(w)
    \/ \E w \in Workers : PlanNobody(w)
    \/ \E w \in Workers : PlanBatch(w)
    \/ \E w \in Workers : PromoteToSearching(w)
    \/ \E w \in Workers : ExpireExhausted(w)
    \/ \E w \in Workers : ReleaseLock(w)
    \/ \E w \in Workers : RefreshOffers(w)
    \/ \E w \in Workers : WorkerDies(w)
    \/ \E w \in Workers, d \in Drivers : OfferTo(w, d)
    \/ \E w \in Workers, d \in Drivers : OfferTaken(w, d)
    \/ \E w \in Workers, d \in Drivers : OfferUnpublished(w, d)
    \/ SweepOffers

(* They are all.                                                           *)
LEMMA Steps == Next => Stepping
BY Zenon DEF Next, Round, Stepping

(* Every step keeps the types.                                             *)
LEMMA TypeStep == TypeOK /\ Placed /\ Stepping => TypeOK'
<1> SUFFICES ASSUME TypeOK, Placed, Stepping PROVE TypeOK'
  OBVIOUS
<1> USE RideDispatchAssumption DEF TypeOK, tables, locals, job, Open, Closed, Responses, Places,
        Fault, Announce, Call, Goto
<1>a. ASSUME NEW q \in Requests, Expire(q)
      PROVE  /\ request' \in [Requests -> {"NONE"} \cup Open \cup Closed]
             /\ announced' \in [Requests -> SUBSET {"ACCEPTED", "ABANDONED", "EXPIRED"}]
  <2>1. \/ UNCHANGED <<request, announced>>
        \/ /\ request' = [request EXCEPT ![q] = "EXPIRED"]
           /\ announced' = [announced EXCEPT ![q] = @ \cup {"EXPIRED"}]
    BY <1>a DEF Expire
  <2>2. request' \in [Requests -> {"NONE"} \cup Open \cup Closed]
    BY <2>1
  <2>3. announced' \in [Requests -> SUBSET {"ACCEPTED", "ABANDONED", "EXPIRED"}]
    <3> DEFINE T == SUBSET {"ACCEPTED", "ABANDONED", "EXPIRED"}
    <3>1. announced \in [Requests -> T]
      OBVIOUS
    <3>2. announced[q] \cup {"EXPIRED"} \in T
      BY <3>1
    <3> HIDE DEF T
    <3>3. announced' \in [Requests -> T]
      <4>1. [announced EXCEPT ![q] = @ \cup {"EXPIRED"}] \in [Requests -> T]
        BY <3>1, <3>2, Updated
      <4>q. QED
        BY <2>1, <3>1, <4>1, Zenon
    <3>q. QED
      BY <3>3 DEF T
  <2>q. QED
    BY <2>2, <2>3
<1>1. ASSUME NEW q \in Requests, CreateRequest(q) PROVE TypeOK'
  BY <1>1 DEF CreateRequest
<1>2. ASSUME NEW q \in Requests, CancelRequest(q) PROVE TypeOK'
  BY <1>2 DEF CancelRequest
<1>3. ASSUME NEW q \in Requests, BoostRequest(q) PROVE TypeOK'
  BY <1>3 DEF BoostRequest
<1>4. ASSUME NEW q \in Requests, RequestLapses(q) PROVE TypeOK'
  BY <1>4 DEF RequestLapses
<1>5. ASSUME NEW q \in Requests, SkipRound(q) PROVE TypeOK'
  BY <1>5 DEF SkipRound
<1>6. ASSUME NEW q \in Requests, CommitAccept(q) PROVE TypeOK'
  BY <1>6 DEF CommitAccept
<1>7. ASSUME NEW q \in Requests, RollBackAccept(q) PROVE TypeOK'
  BY <1>7 DEF RollBackAccept
<1>8. ASSUME NEW q \in Requests, DispatchAffected(q) PROVE TypeOK'
  BY <1>8 DEF DispatchAffected
<1>9. ASSUME NEW q \in Requests, ExpireOverdue(q) PROVE TypeOK'
  BY <1>9, <1>a DEF ExpireOverdue
<1>10. ASSUME NEW q \in Requests, Redeliver(q) PROVE TypeOK'
  <2>1. CASE request[q] # "NONE" /\ Call(q) /\ UNCHANGED boosted
    BY <1>10, <2>1 DEF Redeliver
  <2>2. CASE boosts[q] > 0 /\ boosted' = [boosted EXCEPT ![q] = @ + 1] /\ UNCHANGED calls
    BY <1>10, <2>2 DEF Redeliver
  <2>q. QED
    BY <1>10, <2>1, <2>2 DEF Redeliver
<1>11. ASSUME NEW q \in Requests, LoseCall(q) PROVE TypeOK'
  BY <1>11 DEF LoseCall
<1>12. ASSUME NEW q \in Requests, LockExpires(q) PROVE TypeOK'
  BY <1>12 DEF LockExpires
<1>13. ASSUME NEW q \in Requests, NEW d \in Drivers, OfferLapses(q, d) PROVE TypeOK'
  BY <1>13 DEF OfferLapses
<1>14. ASSUME NEW q \in Requests, NEW d \in Drivers, RejectOffer(q, d) PROVE TypeOK'
  BY <1>14 DEF RejectOffer
<1>15. ASSUME NEW q \in Requests, NEW d \in Drivers, BeginAccept(q, d) PROVE TypeOK'
  BY <1>15 DEF BeginAccept
<1>16. ASSUME NEW q \in Requests, NEW d \in Drivers, TimeOutOffer(q, d) PROVE TypeOK'
  <2>1. CASE response[q][d] = "PENDING"
    <3>1. response' \in [Requests -> [Drivers -> Responses]]
      <4>1. [response[q] EXCEPT ![d] = "TIMEOUT"] \in [Drivers -> Responses]
        OBVIOUS
      <4>2. response' = [response EXCEPT ![q] = [response[q] EXCEPT ![d] = "TIMEOUT"]]
        BY <1>16, <2>1 DEF TimeOutOffer
      <4>q. QED
        BY <4>1, <4>2, Updated
    <3>2. sweep' \in SUBSET (Requests \X Drivers) /\ affected' \in SUBSET Requests
      BY <1>16, <2>1 DEF TimeOutOffer
    <3>q. QED
      BY <1>16, <3>1, <3>2 DEF TimeOutOffer
  <2>2. CASE response[q][d] # "PENDING"
    BY <1>16, <2>2 DEF TimeOutOffer
  <2>q. QED
    BY <2>1, <2>2 DEF TypeOK
<1>17. ASSUME NEW w \in Workers, NEW q \in Requests, EnterRound(w, q) PROVE TypeOK'
  BY <1>17 DEF EnterRound
<1>18. ASSUME NEW w \in Workers, NEW q \in Requests, BeginRedispatch(w, q) PROVE TypeOK'
  <2>1. CASE request[q] \in Open /\ ~due[q]
    <3>1. at' \in [Workers -> Requests \cup {None}]
      BY <1>18, <2>1 DEF BeginRedispatch
    <3>2. slot' \in [Workers -> Nat]
      <4>1. slot' = [slot EXCEPT ![w] = round[q] + 1] /\ round[q] + 1 \in Nat
        BY <1>18, <2>1 DEF BeginRedispatch
      <4>q. QED
        BY <4>1, Updated
    <3>3. pc' \in [Workers -> Places]
      <4>1. pc' = [pc EXCEPT ![w] = "refresh"]
        BY <1>18, <2>1 DEF BeginRedispatch
      <4>q. QED
        BY <4>1, Updated
    <3>4. boosted' \in [Requests -> Nat]
      BY <1>18, <2>1 DEF BeginRedispatch
    <3>q. QED
      BY <1>18, <3>1, <3>2, <3>3, <3>4 DEF BeginRedispatch
  <2>2. CASE ~(request[q] \in Open /\ ~due[q])
    BY <1>18, <2>2 DEF BeginRedispatch
  <2>q. QED
    BY <2>1, <2>2
<1>19. ASSUME NEW w \in Workers, ReadRequest(w) PROVE TypeOK'
  BY <1>19 DEF ReadRequest, Placed
<1>20. ASSUME NEW w \in Workers, CountLive(w) PROVE TypeOK'
  <2>1. at[w] \in Requests /\ Cardinality(Live(at[w])) \in Nat
    BY <1>20, Counted DEF CountLive, Placed
  <2>q. QED
    BY <1>20, <2>1 DEF CountLive
<1>21. ASSUME NEW w \in Workers, PlanLimitReached(w) PROVE TypeOK'
  BY <1>21 DEF PlanLimitReached, Placed
<1>22. ASSUME NEW w \in Workers, PlanNobody(w) PROVE TypeOK'
  BY <1>22 DEF PlanNobody, Placed
<1>23. ASSUME NEW w \in Workers, PlanBatch(w) PROVE TypeOK'
  BY <1>23 DEF PlanBatch, Placed
<1>24. ASSUME NEW w \in Workers, PromoteToSearching(w) PROVE TypeOK'
  BY <1>24 DEF PromoteToSearching, Placed
<1>25. ASSUME NEW w \in Workers, ExpireExhausted(w) PROVE TypeOK'
  BY <1>25, <1>a DEF ExpireExhausted, Placed
<1>26. ASSUME NEW w \in Workers, ReleaseLock(w) PROVE TypeOK'
  BY <1>26 DEF ReleaseLock, LeaveRound, Placed
<1>27. ASSUME NEW w \in Workers, RefreshOffers(w) PROVE TypeOK'
  <2>1. at[w] \in Requests
    BY <1>27 DEF RefreshOffers, Placed
  <2>2. response' \in [Requests -> [Drivers -> Responses]]
    BY <1>27, <2>1 DEF RefreshOffers
  <2>3. lapsed' \in [Requests -> [Drivers -> BOOLEAN]]
    <3> DEFINE again == {d \in Drivers : response[at[w]][d] \in Reopenable}
               f == [d \in Drivers |-> IF d \in again THEN FALSE ELSE lapsed[at[w]][d]]
    <3>1. lapsed' = [lapsed EXCEPT ![at[w]] = f]
      BY <1>27 DEF RefreshOffers
    <3>2. f \in [Drivers -> BOOLEAN]
      <4>1. \A d \in Drivers : lapsed[at[w]][d] \in BOOLEAN
        BY <2>1
      <4>q. QED
        BY <4>1
    <3> HIDE DEF f
    <3>q. QED
      BY <3>1, <3>2
  <2>4. round' \in [Requests -> Nat]
    BY <1>27, <2>1 DEF RefreshOffers
  <2>5. calls' \in [Requests -> Nat]
    BY <1>27, <2>1 DEF RefreshOffers
  <2>q. QED
    BY <1>27, <2>2, <2>3, <2>4, <2>5 DEF RefreshOffers, LeaveRound
<1>28. ASSUME NEW w \in Workers, WorkerDies(w) PROVE TypeOK'
  BY <1>28 DEF WorkerDies, LeaveRound, Placed
<1>29. ASSUME NEW w \in Workers, NEW d \in Drivers, OfferTo(w, d) PROVE TypeOK'
  BY <1>29 DEF OfferTo, CreateOffer, Placed
<1>30. ASSUME NEW w \in Workers, NEW d \in Drivers, OfferTaken(w, d) PROVE TypeOK'
  BY <1>30 DEF OfferTaken, Placed
<1>31. ASSUME NEW w \in Workers, NEW d \in Drivers, OfferUnpublished(w, d) PROVE TypeOK'
  BY <1>31 DEF OfferUnpublished, CreateOffer, Placed
<1>32. CASE SweepOffers
  BY <1>32 DEF SweepOffers
<1>q. QED
  BY <1>1, <1>2, <1>3, <1>4, <1>5, <1>6, <1>7, <1>8, <1>9, <1>10, <1>11, <1>12, <1>13, <1>14, <1>15, <1>16, <1>17, <1>18, <1>19, <1>20, <1>21, <1>22, <1>23, <1>24, <1>25, <1>26, <1>27, <1>28, <1>29, <1>30, <1>31, <1>32
  DEF Stepping

-----------------------------------------------------------------------------
(* What a step does.                                                       *)

\* v makes the offer to d.
Offers(v, d) ==
    LET q == at[v] IN
    /\ pc[v] = "offer" /\ pc'[v] = "offer" /\ at'[v] = q
    /\ d \in fresh[v] /\ fresh'[v] = fresh[v] \ {d}
    /\ Live(q)' \subseteq Live(q) \cup {d}
    /\ Asked(q)' = Asked(q) \cup {d}

\* v goes on in its round without an offer.
GoesOn(v) ==
    /\ InRound(v) /\ at'[v] = at[v]
    /\ \/ pc'[v] \in {"count", "release", "exhaust"}
       \/ /\ pc'[v] = "plan" /\ UNCHANGED tables
          /\ live'[v] = Cardinality(Live(at[v])) /\ live'[v] < BatchSize
       \/ /\ pc[v] = "plan" /\ pc'[v] = "offer" /\ UNCHANGED tables
          /\ live'[v] = live[v] /\ Cardinality(fresh'[v]) <= Room(v)
       \/ /\ pc[v] = "offer" /\ pc'[v] = "offer" /\ UNCHANGED tables
          /\ fresh'[v] \subseteq fresh[v]

Keeps(v) == /\ pc'[v] = pc[v] /\ at'[v] = at[v]
            /\ live'[v] = live[v] /\ fresh'[v] = fresh[v]

\* What becomes of a worker.
WorkerStep(v) ==
    \/ Keeps(v)
    \/ pc'[v] = "idle"
    \/ /\ pc'[v] = "read" /\ at'[v] \in Requests
       /\ lock[at'[v]] = None /\ lock'[at'[v]] = v
    \/ pc'[v] = "refresh" /\ at'[v] \in Requests /\ boosts[at'[v]] > 0
    \/ GoesOn(v)
    \/ \E d \in Drivers : Offers(v, d)

\* What becomes of the offers of a request.
OffersStep(q) ==
    \/ Live(q)' \subseteq Live(q) /\ Asked(q)' = Asked(q)
    \/ boosts[q] > 0 /\ Asked(q)' = Asked(q)
    \/ \E v \in Workers, d \in Drivers : at[v] = q /\ Offers(v, d)

\* What becomes of the lock of a request.
LockStep(q) ==
    \/ lock'[q] = lock[q]
    \/ lock[q] = None
    \/ lock'[q] = None /\ at[lock[q]] # q
    \/ \E w \in Workers : lock[q] = w /\ pc'[w] = "idle"
    \/ overran'

(* Every step of the system is such a step of every worker.                *)
LEMMA WorkersStep ==
  ASSUME TypeOK, Placed, Boosting, Stepping, NEW v \in Workers
  PROVE  WorkerStep(v)
<1> USE DEF locals, Goto
<1>0. /\ pc \in [Workers -> Places] /\ at \in [Workers -> Requests \cup {None}]
      /\ live \in [Workers -> Nat] /\ fresh \in [Workers -> SUBSET Drivers]
      /\ lock \in [Requests -> Workers \cup {None}]
  BY DEF TypeOK
<1>1. CASE UNCHANGED <<pc, at, live, fresh>>
  BY <1>1 DEF WorkerStep, Keeps
<1>2. ASSUME NEW w \in Workers, NEW q \in Requests, EnterRound(w, q) PROVE WorkerStep(v)
  <2>1. CASE v = w
    BY <1>0, <1>2, <2>1 DEF EnterRound, WorkerStep
  <2>2. CASE v # w
    BY <1>0, <1>2, <2>2 DEF EnterRound, WorkerStep, Keeps
  <2>q. QED
    BY <2>1, <2>2
<1>3. ASSUME NEW w \in Workers, NEW q \in Requests, BeginRedispatch(w, q) PROVE WorkerStep(v)
  <2>1. CASE v = w /\ request[q] \in Open /\ ~due[q]
    <3>1. boosts[q] > 0
      BY <1>3 DEF BeginRedispatch, Boosting
    <3>2. pc'[v] = "refresh" /\ at'[v] = q
      BY <1>0, <1>3, <2>1 DEF BeginRedispatch
    <3>q. QED
      BY <3>1, <3>2 DEF WorkerStep
  <2>2. CASE v # w \/ ~(request[q] \in Open /\ ~due[q])
    <3>1. Keeps(v)
      BY <1>0, <1>3, <2>2 DEF BeginRedispatch, Keeps
    <3>q. QED
      BY <3>1 DEF WorkerStep
  <2>q. QED
    BY <2>1, <2>2
<1>4. ASSUME NEW w \in Workers,
             \/ ReadRequest(w) \/ PlanLimitReached(w) \/ PlanNobody(w)
             \/ PromoteToSearching(w) \/ ExpireExhausted(w)
      PROVE  WorkerStep(v)
  <2>1. /\ UNCHANGED <<at, live, fresh>> /\ InRound(w)
        /\ \E place \in {"count", "release", "exhaust"} : pc' = [pc EXCEPT ![w] = place]
    BY <1>4 DEF ReadRequest, PlanLimitReached, PlanNobody, PromoteToSearching, ExpireExhausted, InRound
  <2>2. CASE v = w
    BY <1>0, <2>1, <2>2 DEF WorkerStep, GoesOn
  <2>3. CASE v # w
    BY <1>0, <2>1, <2>3 DEF WorkerStep, Keeps
  <2>q. QED
    BY <2>2, <2>3
<1>5. ASSUME NEW w \in Workers, CountLive(w) PROVE WorkerStep(v)
  <2>1. CASE v = w
    <3>1. InRound(v) /\ at'[v] = at[v] /\ UNCHANGED tables /\ live'[v] = Cardinality(Live(at[v]))
      BY <1>0, <1>5, <2>1 DEF CountLive, InRound
    <3>2. \/ pc'[v] = "release"
          \/ pc'[v] = "plan" /\ live'[v] < BatchSize
      BY <1>0, <1>5, <2>1, <3>1 DEF CountLive
    <3>q. QED
      BY <3>1, <3>2 DEF WorkerStep, GoesOn
  <2>2. CASE v # w
    BY <1>0, <1>5, <2>2 DEF CountLive, WorkerStep, Keeps
  <2>q. QED
    BY <2>1, <2>2
<1>6. ASSUME NEW w \in Workers, PlanBatch(w) PROVE WorkerStep(v)
  <2>1. PICK C \in SUBSET (Drivers \ Asked(at[w])) :
            Cardinality(C) <= Room(w) /\ fresh' = [fresh EXCEPT ![w] = C]
    BY <1>6 DEF PlanBatch
  <2>2. CASE v = w
    BY <1>0, <1>6, <2>1, <2>2 DEF PlanBatch, WorkerStep, GoesOn, InRound
  <2>3. CASE v # w
    BY <1>0, <1>6, <2>1, <2>3 DEF PlanBatch, WorkerStep, Keeps
  <2>q. QED
    BY <2>2, <2>3
<1>7. ASSUME NEW w \in Workers, NEW d \in Drivers, OfferTaken(w, d) PROVE WorkerStep(v)
  <2>1. CASE v = w
    BY <1>0, <1>7, <2>1 DEF OfferTaken, WorkerStep, GoesOn, InRound
  <2>2. CASE v # w
    BY <1>0, <1>7, <2>2 DEF OfferTaken, WorkerStep, Keeps
  <2>q. QED
    BY <2>1, <2>2
<1>8. ASSUME NEW w \in Workers, NEW d \in Drivers, OfferTo(w, d) \/ OfferUnpublished(w, d)
      PROVE  WorkerStep(v)
  <2>1. CASE v = w
    <3>1. at[w] \in Requests
      BY <1>8 DEF OfferTo, OfferUnpublished, Placed
    <3>2. /\ pc[v] = "offer" /\ pc'[v] = "offer" /\ at'[v] = at[v]
          /\ d \in fresh[v] /\ fresh'[v] = fresh[v] \ {d}
          /\ response[at[v]][d] = "NONE"
          /\ response' = [response EXCEPT ![at[v]][d] = "PENDING"]
          /\ lapsed' = [lapsed EXCEPT ![at[v]][d] = FALSE]
      BY <1>0, <1>8, <2>1 DEF OfferTo, OfferUnpublished, CreateOffer
    <3>3. Offers(v, d)
      BY <2>1, <3>1, <3>2 DEF Offers, Live, Asked, TypeOK
    <3>q. QED
      BY <3>3 DEF WorkerStep
  <2>2. CASE v # w
    BY <1>0, <1>8, <2>2 DEF OfferTo, OfferUnpublished, WorkerStep, Keeps
  <2>q. QED
    BY <2>1, <2>2
<1>9. ASSUME NEW w \in Workers, ReleaseLock(w) \/ RefreshOffers(w) \/ WorkerDies(w)
      PROVE  WorkerStep(v)
  <2>1. LeaveRound(w)
    BY <1>9 DEF ReleaseLock, RefreshOffers, WorkerDies
  <2>2. CASE v = w
    BY <1>0, <2>1, <2>2 DEF LeaveRound, WorkerStep
  <2>3. CASE v # w
    BY <1>0, <2>1, <2>3 DEF LeaveRound, WorkerStep, Keeps
  <2>q. QED
    BY <2>2, <2>3
<1>q. QED
  BY <1>1, <1>2, <1>3, <1>4, <1>5, <1>6, <1>7, <1>8, <1>9
  DEF Stepping, CreateRequest, CancelRequest, BoostRequest, RequestLapses, SkipRound,
      CommitAccept, RollBackAccept, DispatchAffected, ExpireOverdue, Redeliver, LoseCall,
      LockExpires, OfferLapses, RejectOffer, BeginAccept, TimeOutOffer, SweepOffers

(* Offers of a request lapse or are answered, or a boost reopened them, or *)
(* one worker made one.                                                    *)
LEMMA OffersOfAStep ==
  ASSUME TypeOK, Placed, Boosting, Stepping, NEW r \in Requests
  PROVE  OffersStep(r)
<1> USE DEF tables
<1>0. /\ response \in [Requests -> [Drivers -> Responses]]
      /\ lapsed \in [Requests -> [Drivers -> BOOLEAN]]
  BY DEF TypeOK
<1>1. CASE UNCHANGED <<response, lapsed>>
  BY <1>1 DEF OffersStep, Live, Asked
<1>2. ASSUME UNCHANGED lapsed,
             \A d \in Drivers : \/ response'[r][d] = response[r][d]
                                \/ /\ response[r][d] = "PENDING"
                                   /\ response'[r][d] \notin {"NONE", "PENDING"}
      PROVE  OffersStep(r)
  <2>1. Live(r)' \subseteq Live(r)
    BY <1>2 DEF Live
  <2>2. Asked(r)' = Asked(r)
    BY <1>2 DEF Asked
  <2>q. QED
    BY <2>1, <2>2 DEF OffersStep
<1>3. ASSUME NEW q \in Requests, CancelRequest(q) PROVE OffersStep(r)
  BY <1>0, <1>2, <1>3 DEF CancelRequest
<1>4. ASSUME NEW q \in Requests, NEW d \in Drivers, OfferLapses(q, d) PROVE OffersStep(r)
  <2>1. Live(r)' \subseteq Live(r)
    BY <1>0, <1>4 DEF Live, OfferLapses
  <2>2. Asked(r)' = Asked(r)
    BY <1>4 DEF Asked, OfferLapses
  <2>q. QED
    BY <2>1, <2>2 DEF OffersStep
<1>5. ASSUME NEW q \in Requests, NEW d \in Drivers, RejectOffer(q, d) \/ TimeOutOffer(q, d)
      PROVE  OffersStep(r)
  <2>1. CASE UNCHANGED <<response, lapsed>>
    BY <1>1, <2>1
  <2>2. CASE ~UNCHANGED <<response, lapsed>>
    <3>1. PICK answer \in {"REJECTED", "TIMEOUT"} :
              /\ response[q][d] = "PENDING" /\ UNCHANGED lapsed
              /\ response' = [response EXCEPT ![q][d] = answer]
      BY <1>5, <2>2 DEF RejectOffer, TimeOutOffer
    <3>2. \A e \in Drivers : \/ response'[r][e] = response[r][e]
                            \/ /\ response[r][e] = "PENDING"
                               /\ response'[r][e] \notin {"NONE", "PENDING"}
      <4>1. CASE r = q
        BY <1>0, <3>1, <4>1
      <4>2. CASE r # q
        BY <1>0, <3>1, <4>2
      <4>q. QED
        BY <4>1, <4>2
    <3>q. QED
      BY <1>2, <3>1, <3>2
  <2>q. QED
    BY <2>1, <2>2
<1>6. ASSUME NEW q \in Requests, CommitAccept(q) PROVE OffersStep(r)
  <2>1. UNCHANGED lapsed
    BY <1>6 DEF CommitAccept
  <2>2. \A e \in Drivers : \/ response'[r][e] = response[r][e]
                          \/ /\ response[r][e] = "PENDING"
                             /\ response'[r][e] \notin {"NONE", "PENDING"}
    <3>1. CASE r = q
      <4>1. response'[q] = [e \in Drivers |->
                              IF response[q][e] # "PENDING" THEN response[q][e]
                              ELSE IF e = accepting[q] THEN "ACCEPTED" ELSE "CANCELLED"]
        BY <1>0, <1>6 DEF CommitAccept
      <4>q. QED
        BY <3>1, <4>1
    <3>2. CASE r # q
      BY <1>0, <1>6, <3>2 DEF CommitAccept
    <3>q. QED
      BY <3>1, <3>2
  <2>q. QED
    BY <1>2, <2>1, <2>2
<1>7. ASSUME NEW w \in Workers, RefreshOffers(w) PROVE OffersStep(r)
  <2>1. /\ at[w] \in Requests /\ boosts[at[w]] > 0
        /\ response' = [response EXCEPT ![at[w]] =
               [d \in Drivers |-> IF d \in {e \in Drivers : response[at[w]][e] \in Reopenable}
                                  THEN "PENDING" ELSE response[at[w]][d]]]
    BY <1>0, <1>7 DEF RefreshOffers, Placed, Boosting
  <2>2. CASE r = at[w]
    <3>1. Asked(r)' = Asked(r)
      BY <1>0, <2>1, <2>2 DEF Asked, Reopenable
    <3>q. QED
      BY <2>1, <2>2, <3>1 DEF OffersStep
  <2>3. CASE r # at[w]
    <3>1. response'[r] = response[r] /\ lapsed'[r] = lapsed[r]
      BY <1>0, <1>7, <2>3 DEF RefreshOffers
    <3>2. Live(r)' = Live(r) /\ Asked(r)' = Asked(r)
      BY <3>1 DEF Live, Asked
    <3>q. QED
      BY <3>2 DEF OffersStep
  <2>q. QED
    BY <2>2, <2>3
<1>8. ASSUME NEW w \in Workers, NEW d \in Drivers, OfferTo(w, d) \/ OfferUnpublished(w, d)
      PROVE  OffersStep(r)
  <2>1. /\ pc[w] = "offer" /\ pc'[w] = "offer" /\ at'[w] = at[w] /\ at[w] \in Requests
        /\ d \in fresh[w] /\ fresh'[w] = fresh[w] \ {d}
        /\ response[at[w]][d] = "NONE"
        /\ response' = [response EXCEPT ![at[w]][d] = "PENDING"]
        /\ lapsed' = [lapsed EXCEPT ![at[w]][d] = FALSE]
    BY <1>8 DEF OfferTo, OfferUnpublished, CreateOffer, Placed, TypeOK
  <2>2. CASE r = at[w]
    <3>1. Offers(w, d)
      BY <1>0, <2>1 DEF Offers, Live, Asked
    <3>q. QED
      BY <2>2, <3>1 DEF OffersStep
  <2>3. CASE r # at[w]
    <3>1. response'[r] = response[r] /\ lapsed'[r] = lapsed[r]
      BY <1>0, <2>1, <2>3
    <3>2. Live(r)' = Live(r) /\ Asked(r)' = Asked(r)
      BY <3>1 DEF Live, Asked
    <3>q. QED
      BY <3>2 DEF OffersStep
  <2>q. QED
    BY <2>2, <2>3
<1>q. QED
  BY <1>1, <1>3, <1>4, <1>5, <1>6, <1>7, <1>8
  DEF Stepping, CreateRequest, BoostRequest, RequestLapses, SkipRound, RollBackAccept,
      DispatchAffected, ExpireOverdue, Redeliver, LoseCall, LockExpires, BeginAccept,
      EnterRound, BeginRedispatch, ReadRequest, CountLive, PlanLimitReached, PlanNobody,
      PlanBatch, PromoteToSearching, ExpireExhausted, ReleaseLock, WorkerDies, OfferTaken,
      SweepOffers

(* A free lock is taken, and a held one is lost only to a holder that has  *)
(* left, that leaves now, or that overran.                                 *)
LEMMA LocksOfAStep ==
  ASSUME TypeOK, Placed, Stepping, NEW r \in Requests
  PROVE  LockStep(r)
<1>0. /\ lock \in [Requests -> Workers \cup {None}] /\ overran \in BOOLEAN
      /\ pc \in [Workers -> Places]
  BY DEF TypeOK
<1>1. CASE UNCHANGED lock
  BY <1>1 DEF LockStep
<1>2. ASSUME NEW w \in Workers, NEW q \in Requests, EnterRound(w, q) PROVE LockStep(r)
  BY <1>0, <1>2 DEF EnterRound, LockStep
<1>3. ASSUME NEW w \in Workers, ReleaseLock(w) PROVE LockStep(r)
  <2>1. at[w] \in Requests /\ pc'[w] = "idle"
    BY <1>0, <1>3 DEF ReleaseLock, Placed, LeaveRound
  <2>2. lock' = [lock EXCEPT ![at[w]] = IF @ = w THEN None ELSE @]
    BY <1>3 DEF ReleaseLock
  <2>q. QED
    BY <1>0, <2>1, <2>2 DEF LockStep
<1>4. ASSUME NEW q \in Requests, LockExpires(q) PROVE LockStep(r)
  <2>1. /\ lock' = [lock EXCEPT ![q] = None]
        /\ at[lock[q]] = q => overran'
    BY <1>4 DEF LockExpires
  <2>q. QED
    BY <1>0, <2>1 DEF LockStep
<1>q. QED
  BY <1>1, <1>2, <1>3, <1>4
  DEF Stepping, CreateRequest, CancelRequest, BoostRequest, RequestLapses, SkipRound,
      CommitAccept, RollBackAccept, DispatchAffected, ExpireOverdue, Redeliver, LoseCall,
      OfferLapses, RejectOffer, BeginAccept, TimeOutOffer, BeginRedispatch, ReadRequest,
      CountLive, PlanLimitReached, PlanNobody, PlanBatch, PromoteToSearching,
      ExpireExhausted, RefreshOffers, WorkerDies, OfferTo, OfferTaken, OfferUnpublished,
      SweepOffers

(* Boosts are never taken back, and neither is an overrun.                 *)
LEMMA NeverLess ==
  ASSUME TypeOK, Stepping
  PROVE  /\ \A q \in Requests : boosts[q] > 0 => boosts'[q] > 0
         /\ overran => overran'
<1>1. boosts \in [Requests -> Nat]
  BY DEF TypeOK
<1>2. CASE UNCHANGED boosts
  <2>1. overran => overran'
    BY DEF Stepping, tables, CreateRequest, CancelRequest, BoostRequest, RequestLapses, SkipRound,
      CommitAccept, RollBackAccept, DispatchAffected, ExpireOverdue, Redeliver, LoseCall,
      OfferLapses, RejectOffer, BeginAccept, TimeOutOffer, BeginRedispatch, ReadRequest,
      CountLive, PlanLimitReached, PlanNobody, PlanBatch, PromoteToSearching, LockExpires,
      ExpireExhausted, RefreshOffers, WorkerDies, OfferTo, OfferTaken, OfferUnpublished,
      SweepOffers, EnterRound, ReleaseLock
  <2>q. QED
    BY <1>2, <2>1
<1>3. ASSUME NEW q \in Requests, BoostRequest(q)
      PROVE  /\ \A r \in Requests : boosts[r] > 0 => boosts'[r] > 0
             /\ overran => overran'
  BY <1>1, <1>3 DEF BoostRequest
<1>q. QED
  BY <1>2, <1>3
  DEF Stepping, tables, CreateRequest, CancelRequest, RequestLapses, SkipRound,
      CommitAccept, RollBackAccept, DispatchAffected, ExpireOverdue, Redeliver, LoseCall,
      OfferLapses, RejectOffer, BeginAccept, TimeOutOffer, BeginRedispatch, ReadRequest,
      CountLive, PlanLimitReached, PlanNobody, PlanBatch, PromoteToSearching, LockExpires,
      ExpireExhausted, RefreshOffers, WorkerDies, OfferTo, OfferTaken, OfferUnpublished,
      SweepOffers, EnterRound, ReleaseLock

-----------------------------------------------------------------------------
(* Rounds.                                                                 *)

(* A worker that is busy has a request.                                    *)
LEMMA PlacedStep ==
  ASSUME TypeOK, Placed, Boosting, Stepping
  PROVE  Placed'
<1> SUFFICES ASSUME NEW v \in Workers, pc'[v] # "idle" PROVE at'[v] \in Requests
  BY DEF Placed
<1>1. WorkerStep(v)
  BY WorkersStep
<1>q. QED
  BY <1>1, Zenon DEF Placed, WorkerStep, Keeps, GoesOn, Offers, InRound

(* A refresh is of a boosted request.                                      *)
LEMMA BoostingStep ==
  ASSUME TypeOK, Placed, Boosting, Stepping
  PROVE  Boosting'
<1>0. boosts \in [Requests -> Nat] /\ boosted \in [Requests -> Nat]
  BY DEF TypeOK
<1>1. ASSUME NEW v \in Workers, pc'[v] = "refresh" PROVE boosts'[at'[v]] > 0
  <2>1. WorkerStep(v)
    BY WorkersStep
  <2>2. CASE Keeps(v)
    BY <1>1, <2>2, NeverLess DEF Keeps, Boosting, Placed
  <2>3. CASE at'[v] \in Requests /\ boosts[at'[v]] > 0
    BY <2>3, NeverLess
  <2>q. QED
    BY <1>1, <2>1, <2>2, <2>3, Zenon DEF WorkerStep, GoesOn, Offers
<1>2. \A r \in Requests : boosted'[r] > 0 => boosts'[r] > 0
  <2>1. CASE UNCHANGED boosted
    BY <2>1, NeverLess DEF Boosting
  <2>2. ASSUME NEW q \in Requests, BoostRequest(q)
        PROVE  \A r \in Requests : boosted'[r] > 0 => boosts'[r] > 0
    BY <1>0, <2>2 DEF BoostRequest, Boosting
  <2>3. ASSUME NEW q \in Requests, NEW w \in Workers, BeginRedispatch(w, q)
        PROVE  \A r \in Requests : boosted'[r] > 0 => boosts'[r] > 0
    BY <1>0, <2>3, NeverLess DEF BeginRedispatch, Boosting
  <2>4. ASSUME NEW q \in Requests, Redeliver(q)
        PROVE  \A r \in Requests : boosted'[r] > 0 => boosts'[r] > 0
    <3>1. CASE UNCHANGED boosted
      BY <2>1, <3>1
    <3>2. CASE boosts[q] > 0 /\ boosted' = [boosted EXCEPT ![q] = @ + 1]
      BY <1>0, <3>2, NeverLess DEF Boosting
    <3>q. QED
      BY <2>4, <3>1, <3>2 DEF Redeliver
  <2>q. QED
    BY <2>1, <2>2, <2>3, <2>4
    DEF Stepping, CreateRequest, CancelRequest, RequestLapses, SkipRound, CommitAccept,
        RollBackAccept, DispatchAffected, ExpireOverdue, LoseCall, LockExpires, OfferLapses,
        RejectOffer, BeginAccept, TimeOutOffer, EnterRound, ReadRequest, CountLive,
        PlanLimitReached, PlanNobody, PlanBatch, PromoteToSearching, ExpireExhausted,
        ReleaseLock, RefreshOffers, WorkerDies, OfferTo, OfferTaken, OfferUnpublished,
        SweepOffers
<1>q. QED
  BY <1>1, <1>2 DEF Boosting

(* While no lock ran out, a worker keeps its lock for its whole round.     *)
LEMMA LockedStep ==
  ASSUME TypeOK, Placed, Boosting, Locked, Stepping
  PROVE  Locked'
<1> SUFFICES ASSUME ~overran', NEW v \in Workers, InRound(v)'
             PROVE  lock'[at'[v]] = v
  BY DEF Locked
<1>1. WorkerStep(v) /\ ~overran /\ v # None
  BY WorkersStep, NeverLess, RideDispatchAssumption
<1>2. ASSUME InRound(v), at'[v] = at[v] PROVE lock'[at'[v]] = v
  <2>1. at[v] \in Requests /\ lock[at[v]] = v
    BY <1>1, <1>2, Zenon DEF Placed, Locked, InRound
  <2>2. LockStep(at[v])
    BY <2>1, LocksOfAStep
  <2>3. pc'[v] # "idle"
    BY DEF InRound
  <2>q. QED
    BY <1>1, <1>2, <2>1, <2>2, <2>3, Zenon DEF LockStep
<1>q. QED
  BY <1>1, <1>2 DEF WorkerStep, Keeps, GoesOn, Offers, InRound

(* An offer takes one place of the batch from the drivers yet to be asked. *)
LEMMA OfferCounts ==
  ASSUME TypeOK, NEW v \in Workers, NEW d \in Drivers, NEW q \in Requests,
         at[v] = q, Offers(v, d)
  PROVE  /\ at'[v] = q /\ pc[v] = "offer" /\ pc'[v] = "offer"
         /\ Cardinality(fresh[v]) \in Nat /\ Cardinality(fresh'[v]) \in Nat
         /\ Cardinality(fresh'[v]) = Cardinality(fresh[v]) - 1
         /\ Cardinality(Live(q)') \in Nat /\ Cardinality(Live(q)') <= Cardinality(Live(q)) + 1
         /\ Cardinality(Asked(q)') \in Nat /\ Cardinality(Asked(q)') <= Cardinality(Asked(q)) + 1
<1>0. at'[v] = q /\ pc[v] = "offer" /\ pc'[v] = "offer"
  BY DEF Offers
<1>1. fresh[v] \subseteq Drivers /\ d \in fresh[v] /\ fresh'[v] = fresh[v] \ {d}
  BY DEF TypeOK, Offers
<1>2. IsFiniteSet(fresh[v]) /\ Cardinality(fresh[v]) \in Nat
  BY <1>1, DriversAssumption, FS_Subset, FS_CardinalityType
<1>3. Cardinality(fresh'[v]) = Cardinality(fresh[v]) - 1 /\ Cardinality(fresh'[v]) \in Nat
  BY <1>1, <1>2, FS_RemoveElement, FS_CardinalityType
<1>4. Live(q)' \subseteq Live(q) \cup {d} /\ Asked(q)' = Asked(q) \cup {d}
  BY <1>0 DEF Offers, Live, Asked
<1>5. /\ IsFiniteSet(Live(q)) /\ Cardinality(Live(q)) \in Nat
      /\ IsFiniteSet(Asked(q)) /\ Cardinality(Asked(q)) \in Nat
  BY Counted
<1>6. ASSUME NEW S, IsFiniteSet(S), Cardinality(S) \in Nat
      PROVE  /\ IsFiniteSet(S \cup {d}) /\ Cardinality(S \cup {d}) \in Nat
             /\ Cardinality(S \cup {d}) <= Cardinality(S) + 1
  <2>1. Cardinality(S \cup {d}) = Cardinality(S) \/ Cardinality(S \cup {d}) = Cardinality(S) + 1
    BY <1>6, FS_AddElement
  <2>2. IsFiniteSet(S \cup {d})
    BY <1>6, FS_AddElement
  <2>q. QED
    BY <1>6, <2>1, <2>2
<1>7. Cardinality(Live(q)') \in Nat /\ Cardinality(Live(q)') <= Cardinality(Live(q)) + 1
  <2>1. IsFiniteSet(Live(q) \cup {d}) /\ Cardinality(Live(q) \cup {d}) \in Nat
        /\ Cardinality(Live(q) \cup {d}) <= Cardinality(Live(q)) + 1
    BY <1>5, <1>6
  <2>2. /\ Cardinality(Live(q)') \in Nat
        /\ Cardinality(Live(q)') <= Cardinality(Live(q) \cup {d})
    BY <1>4, <2>1, FS_Subset, FS_CardinalityType
  <2>q. QED
    BY <1>5, <2>1, <2>2
<1>8. Cardinality(Asked(q)') \in Nat /\ Cardinality(Asked(q)') <= Cardinality(Asked(q)) + 1
  BY <1>4, <1>5, <1>6
<1>q. QED
  BY <1>0, <1>2, <1>3, <1>7, <1>8

(* What is not offered in a step does not grow.                            *)
LEMMA NoneMore ==
  ASSUME NEW q \in Requests, Live(q)' \subseteq Live(q)
  PROVE  Cardinality(Live(q)') \in Nat /\ Cardinality(Live(q)') <= Cardinality(Live(q))
BY Counted, FS_Subset, FS_CardinalityType

(* A round stays within the limits while it holds its lock.                *)
LEMMA FitsStep ==
  ASSUME TypeOK, Placed, Boosting, Locked, RoundsFit, Stepping
  PROVE  RoundsFit'
<1> SUFFICES ASSUME ~overran', NEW v \in Workers, NEW q \in Requests, at'[v] = q,
                    pc'[v] \in {"plan", "offer"}
             PROVE  Fits(v, q)'
  BY DEF RoundsFit, Fits
<1> USE RideDispatchAssumption
<1>0. /\ live \in [Workers -> Nat] /\ fresh \in [Workers -> SUBSET Drivers]
      /\ boosts \in [Requests -> Nat]
  BY DEF TypeOK
<1>1. WorkerStep(v) /\ ~overran
  BY WorkersStep, NeverLess
<1>2. InRound(v) /\ at'[v] = at[v]
  BY <1>1 DEF WorkerStep, Keeps, GoesOn, Offers, InRound
<1>3. at[v] = q /\ Fits(v, q)
  BY <1>1, <1>2 DEF RoundsFit
<1>4. lock[q] = v
  BY <1>1, <1>2, <1>3 DEF Locked
<1>5. /\ boosts[q] \in Nat
      /\ boosts'[q] = 0 => boosts[q] = 0
      /\ Cardinality(Live(q)) \in Nat /\ Cardinality(Asked(q)) \in Nat
  BY <1>0, NeverLess, Counted
<1>6. CASE Keeps(v)
  <2>0. Cardinality(fresh[v]) \in Nat
    BY <1>0, DriversAssumption, FS_Subset, FS_CardinalityType
  <2>1. pc'[v] = pc[v] /\ live'[v] = live[v] /\ fresh'[v] = fresh[v]
    BY <1>3, <1>6 DEF Keeps
  <2>2. OffersStep(q)
    BY OffersOfAStep
  <2>3. ASSUME NEW u \in Workers, NEW d \in Drivers, at[u] = q, Offers(u, d) PROVE FALSE
    <3>1. lock[q] = u
      BY <1>1, <2>3 DEF Locked, InRound, Offers
    <3>2. d \in fresh[v] /\ fresh'[v] = fresh[v] \ {d}
      BY <1>4, <2>3, <3>1, Zenon DEF Offers
    <3>q. QED
      BY <2>1, <3>2
  <2>4. CASE Live(q)' \subseteq Live(q) /\ Asked(q)' = Asked(q)
    <3>1. Cardinality(Live(q)') \in Nat /\ Cardinality(Live(q)') <= Cardinality(Live(q))
      BY <2>4, NoneMore
    <3>q. QED
      BY <1>0, <1>3, <1>5, <2>0, <2>1, <2>4, <3>1 DEF Fits
  <2>5. CASE boosts[q] > 0 /\ Asked(q)' = Asked(q)
    BY <1>3, <1>5, <2>0, <2>1, <2>5 DEF Fits
  <2>q. QED
    BY <2>2, <2>3, <2>4, <2>5, Zenon DEF OffersStep
<1>7. CASE GoesOn(v)
  <2>1. UNCHANGED tables
    BY <1>7 DEF GoesOn
  <2>2. Live(q)' = Live(q) /\ Asked(q)' = Asked(q) /\ boosts'[q] = boosts[q]
    BY <2>1 DEF tables, Live, Asked
  <2>3. CASE pc'[v] = "plan"
    <3>1. live'[v] = Cardinality(Live(q)) /\ live'[v] < BatchSize
      BY <1>3, <1>7, <2>3 DEF GoesOn
    <3>q. QED
      BY <1>2, <1>3, <1>5, <2>2, <2>3, <3>1 DEF Fits
  <2>4. CASE pc[v] = "plan" /\ pc'[v] = "offer"
    <3>1. /\ live[v] < BatchSize
          /\ boosts[q] = 0 => Cardinality(Live(q)) <= live[v]
      BY <1>3, <2>4 DEF Fits
    <3>2. Cardinality(fresh'[v]) <= Room(v)
      BY <1>7, <2>4 DEF GoesOn
    <3>3. Cardinality(fresh'[v]) \in Nat
      <4>1. fresh'[v] \subseteq Drivers
        BY TypeStep, Zenon DEF TypeOK
      <4>q. QED
        BY <4>1, DriversAssumption, FS_Subset, FS_CardinalityType
    <3>4. Cardinality(fresh'[v]) <= BatchSize - live[v] /\ live[v] \in Nat
      BY <1>0, <1>3, <1>5, <3>2, <3>3 DEF Room
    <3>5. Cardinality(fresh'[v]) <= MaxAttempted - Cardinality(Asked(q))
      BY <1>0, <1>3, <1>5, <3>2, <3>3 DEF Room
    <3>q. QED
      BY <1>2, <1>3, <1>5, <2>2, <2>4, <3>1, <3>3, <3>4, <3>5 DEF Fits
  <2>5. CASE pc[v] = "offer" /\ pc'[v] = "offer"
    <3>1. fresh'[v] \subseteq fresh[v] /\ fresh[v] \subseteq Drivers
      BY <1>0, <1>7, <2>5 DEF GoesOn
    <3>2. /\ Cardinality(fresh[v]) \in Nat /\ Cardinality(fresh'[v]) \in Nat
          /\ Cardinality(fresh'[v]) <= Cardinality(fresh[v])
      BY <3>1, DriversAssumption, FS_Subset, FS_CardinalityType
    <3>q. QED
      BY <1>2, <1>3, <1>5, <2>2, <2>5, <3>2 DEF Fits
  <2>q. QED
    BY <1>7, <2>3, <2>4, <2>5 DEF GoesOn
<1>8. ASSUME NEW d \in Drivers, Offers(v, d) PROVE Fits(v, q)'
  <2>1. /\ at'[v] = q /\ pc[v] = "offer" /\ pc'[v] = "offer"
        /\ Cardinality(fresh[v]) \in Nat /\ Cardinality(fresh'[v]) \in Nat
        /\ Cardinality(fresh'[v]) = Cardinality(fresh[v]) - 1
        /\ Cardinality(Live(q)') \in Nat /\ Cardinality(Live(q)') <= Cardinality(Live(q)) + 1
        /\ Cardinality(Asked(q)') \in Nat /\ Cardinality(Asked(q)') <= Cardinality(Asked(q)) + 1
    BY <1>3, <1>8, OfferCounts
  <2>q. QED
    BY <1>3, <1>5, <2>1 DEF Fits
<1>q. QED
  BY <1>1, <1>6, <1>7, <1>8 DEF WorkerStep

(* Neither live offers nor asked drivers pass the limits: only an offer    *)
(* adds to them, and it was counted and planned under the lock.            *)
LEMMA StackStep ==
  ASSUME TypeOK, Placed, Boosting, RoundsFit, RoundsDoNotStack, Stepping
  PROVE  RoundsDoNotStack'
<1> SUFFICES ASSUME NEW q \in Requests, ~overran'
             PROVE  /\ boosts'[q] = 0 => Cardinality(Live(q)') <= BatchSize
                    /\ Cardinality(Asked(q)') <= MaxAttempted
  BY DEF RoundsDoNotStack
<1> USE RideDispatchAssumption
<1>0. boosts \in [Requests -> Nat]
  BY DEF TypeOK
<1>1. /\ ~overran /\ OffersStep(q)
      /\ boosts[q] \in Nat
      /\ boosts'[q] = 0 => boosts[q] = 0
  BY <1>0, NeverLess, OffersOfAStep
<1>2. /\ Cardinality(Live(q)) \in Nat /\ Cardinality(Asked(q)) \in Nat
      /\ boosts[q] = 0 => Cardinality(Live(q)) <= BatchSize
      /\ Cardinality(Asked(q)) <= MaxAttempted
  BY <1>1, Counted DEF RoundsDoNotStack
<1>3. CASE Live(q)' \subseteq Live(q) /\ Asked(q)' = Asked(q)
  <2>1. Cardinality(Live(q)') \in Nat /\ Cardinality(Live(q)') <= Cardinality(Live(q))
    BY <1>3, NoneMore
  <2>q. QED
    BY <1>1, <1>2, <1>3, <2>1
<1>4. CASE boosts[q] > 0 /\ Asked(q)' = Asked(q)
  BY <1>1, <1>2, <1>4
<1>5. ASSUME NEW v \in Workers, NEW d \in Drivers, at[v] = q, Offers(v, d)
      PROVE  /\ boosts'[q] = 0 => Cardinality(Live(q)') <= BatchSize
             /\ Cardinality(Asked(q)') <= MaxAttempted
  <2>1. /\ pc[v] = "offer"
        /\ Cardinality(fresh[v]) \in Nat /\ Cardinality(fresh'[v]) \in Nat
        /\ Cardinality(fresh'[v]) = Cardinality(fresh[v]) - 1
        /\ Cardinality(Live(q)') \in Nat /\ Cardinality(Live(q)') <= Cardinality(Live(q)) + 1
        /\ Cardinality(Asked(q)') \in Nat /\ Cardinality(Asked(q)') <= Cardinality(Asked(q)) + 1
    BY <1>5, OfferCounts
  <2>2. Fits(v, q)
    BY <1>1, <1>5 DEF RoundsFit
  <2>q. QED
    BY <1>1, <1>2, <2>1, <2>2 DEF Fits
<1>q. QED
  BY <1>1, <1>3, <1>4, <1>5, Zenon DEF OffersStep

-----------------------------------------------------------------------------
(* The winner.                                                             *)

(* The offer under acceptance is left alone by everybody else.             *)
LEMMA AcceptsStep ==
  ASSUME TypeOK, Placed, AcceptsPending, Stepping
  PROVE  AcceptsPending'
<1> SUFFICES ASSUME NEW r \in Requests, accepting'[r] # None
             PROVE  response'[r][accepting'[r]] = "PENDING"
  BY DEF AcceptsPending
<1> USE DEF tables
<1>0. /\ response \in [Requests -> [Drivers -> Responses]]
      /\ accepting \in [Requests -> Drivers \cup {None}]
      /\ accepting[r] # None => response[r][accepting[r]] = "PENDING"
  BY DEF TypeOK, AcceptsPending
<1>1. CASE UNCHANGED <<response, accepting>>
  BY <1>0, <1>1
<1>2. ASSUME NEW q \in Requests, CancelRequest(q)
      PROVE  response'[r][accepting'[r]] = "PENDING"
  BY <1>0, <1>2 DEF CancelRequest, Unlocked
<1>3. ASSUME NEW q \in Requests, NEW d \in Drivers, NEW answer \in {"REJECTED", "TIMEOUT"},
             accepting[q] # d, UNCHANGED accepting,
             response' = [response EXCEPT ![q][d] = answer]
      PROVE  response'[r][accepting'[r]] = "PENDING"
  BY <1>0, <1>3
<1>4. ASSUME NEW q \in Requests, NEW d \in Drivers, RejectOffer(q, d)
      PROVE  response'[r][accepting'[r]] = "PENDING"
  BY <1>3, <1>4 DEF RejectOffer
<1>5. ASSUME NEW q \in Requests, NEW d \in Drivers, TimeOutOffer(q, d)
      PROVE  response'[r][accepting'[r]] = "PENDING"
  BY <1>1, <1>3, <1>5 DEF TimeOutOffer
<1>6. ASSUME NEW q \in Requests, NEW d \in Drivers, BeginAccept(q, d)
      PROVE  response'[r][accepting'[r]] = "PENDING"
  BY <1>0, <1>6 DEF BeginAccept
<1>7. ASSUME NEW q \in Requests, CommitAccept(q) \/ RollBackAccept(q)
      PROVE  response'[r][accepting'[r]] = "PENDING"
  BY <1>0, <1>7 DEF CommitAccept, RollBackAccept
<1>8. ASSUME NEW w \in Workers, RefreshOffers(w)
      PROVE  response'[r][accepting'[r]] = "PENDING"
  BY <1>0, <1>8 DEF RefreshOffers, Placed, Unlocked
<1>9. ASSUME NEW w \in Workers, NEW d \in Drivers, OfferTo(w, d) \/ OfferUnpublished(w, d)
      PROVE  response'[r][accepting'[r]] = "PENDING"
  BY <1>0, <1>9 DEF OfferTo, OfferUnpublished, CreateOffer, Placed, Unlocked
<1>q. QED
  BY <1>1, <1>2, <1>4, <1>5, <1>6, <1>7, <1>8, <1>9
  DEF Stepping, CreateRequest, BoostRequest, RequestLapses, SkipRound, DispatchAffected,
      ExpireOverdue, Redeliver, LoseCall, LockExpires, OfferLapses, EnterRound,
      BeginRedispatch, ReadRequest, CountLive, PlanLimitReached, PlanNobody, PlanBatch,
      PromoteToSearching, ExpireExhausted, ReleaseLock, WorkerDies, OfferTaken, SweepOffers

\* The search of a request has no outcome in this step.
NoOutcome(r) ==
    /\ ride'[r] = ride[r]
    /\ \A d \in Drivers : response'[r][d] = "ACCEPTED" <=> response[r][d] = "ACCEPTED"
    /\ request'[r] = "MATCHED" => request[r] = "MATCHED"
    /\ announced[r] \subseteq announced'[r]

(* Only a committed acceptance makes a match.                              *)
LEMMA MatchesOfAStep ==
  ASSUME TypeOK, Placed, Stepping, NEW r \in Requests, ~CommitAccept(r)
  PROVE  NoOutcome(r)
<1> USE DEF tables, Announce
<1>0. /\ response \in [Requests -> [Drivers -> Responses]]
      /\ request \in [Requests -> {"NONE"} \cup Open \cup Closed]
      /\ ride \in [Requests -> Drivers \cup {None}]
      /\ announced \in [Requests -> SUBSET {"ACCEPTED", "ABANDONED", "EXPIRED"}]
  BY DEF TypeOK
<1>1. CASE UNCHANGED <<ride, response, request, announced>>
  BY <1>1 DEF NoOutcome
<1>2. ASSUME NEW q \in Requests, CreateRequest(q) \/ BoostRequest(q) PROVE NoOutcome(r)
  BY <1>0, <1>2 DEF CreateRequest, BoostRequest, NoOutcome
<1>3. ASSUME NEW q \in Requests, CancelRequest(q) PROVE NoOutcome(r)
  BY <1>0, <1>3 DEF CancelRequest, NoOutcome
<1>4. ASSUME NEW q \in Requests, Expire(q), UNCHANGED <<ride, response>> PROVE NoOutcome(r)
  BY <1>0, <1>4 DEF Expire, NoOutcome
<1>5. ASSUME NEW q \in Requests, NEW d \in Drivers, NEW answer \in {"PENDING", "REJECTED", "TIMEOUT"},
             response[q][d] # "ACCEPTED", response' = [response EXCEPT ![q][d] = answer],
             UNCHANGED <<ride, request, announced>>
      PROVE  NoOutcome(r)
  BY <1>0, <1>5 DEF NoOutcome
<1>6. ASSUME NEW q \in Requests, NEW d \in Drivers, RejectOffer(q, d) PROVE NoOutcome(r)
  BY <1>5, <1>6 DEF RejectOffer
<1>7. ASSUME NEW q \in Requests, NEW d \in Drivers, TimeOutOffer(q, d) PROVE NoOutcome(r)
  BY <1>1, <1>5, <1>7 DEF TimeOutOffer
<1>8. ASSUME NEW w \in Workers, NEW d \in Drivers, OfferTo(w, d) \/ OfferUnpublished(w, d)
      PROVE  NoOutcome(r)
  BY <1>5, <1>8 DEF OfferTo, OfferUnpublished, CreateOffer, Placed
<1>9. ASSUME NEW w \in Workers, RefreshOffers(w) PROVE NoOutcome(r)
  BY <1>0, <1>9 DEF RefreshOffers, Reopenable, Placed, NoOutcome
<1>10. ASSUME NEW w \in Workers, PromoteToSearching(w) PROVE NoOutcome(r)
  BY <1>0, <1>10 DEF PromoteToSearching, Placed, NoOutcome
<1>11. ASSUME NEW w \in Workers, ExpireExhausted(w) PROVE NoOutcome(r)
  BY <1>4, <1>11 DEF ExpireExhausted, Placed
<1>12. ASSUME NEW q \in Requests, ExpireOverdue(q) PROVE NoOutcome(r)
  BY <1>4, <1>12 DEF ExpireOverdue
<1>13. ASSUME NEW q \in Requests, CommitAccept(q) PROVE NoOutcome(r)
  <2>1. q # r
    BY <1>13
  <2>q. QED
    BY <1>0, <1>13, <2>1 DEF CommitAccept, NoOutcome
<1>q. QED
  BY <1>1, <1>2, <1>3, <1>6, <1>7, <1>8, <1>9, <1>10, <1>11, <1>12, <1>13
  DEF Stepping, RequestLapses, SkipRound, RollBackAccept, DispatchAffected, Redeliver,
      LoseCall, LockExpires, OfferLapses, BeginAccept, EnterRound, BeginRedispatch,
      ReadRequest, CountLive, PlanLimitReached, PlanNobody, PlanBatch, ReleaseLock,
      WorkerDies, OfferTaken, SweepOffers

(* One winner: the acceptance that commits is the first, and its offer was *)
(* still pending when it did.                                              *)
LEMMA AcceptedStep ==
  ASSUME TypeOK, Placed, AcceptsPending, AcceptedIffRide, Stepping
  PROVE  AcceptedIffRide'
<1> SUFFICES ASSUME NEW r \in Requests
             PROVE  /\ \A d \in Drivers : response'[r][d] = "ACCEPTED" <=> ride'[r] = d
                    /\ request'[r] = "MATCHED" => ride'[r] # None
                    /\ ride'[r] # None => "ACCEPTED" \in announced'[r]
  BY DEF AcceptedIffRide
<1>1. /\ \A d \in Drivers : response[r][d] = "ACCEPTED" <=> ride[r] = d
      /\ request[r] = "MATCHED" => ride[r] # None
      /\ ride[r] # None => "ACCEPTED" \in announced[r]
  BY DEF AcceptedIffRide
<1>2. CASE ~CommitAccept(r)
  BY <1>1, <1>2, MatchesOfAStep DEF NoOutcome
<1>3. CASE CommitAccept(r)
  <2>1. /\ response \in [Requests -> [Drivers -> Responses]]
        /\ request \in [Requests -> {"NONE"} \cup Open \cup Closed]
        /\ ride \in [Requests -> Drivers \cup {None}]
        /\ accepting \in [Requests -> Drivers \cup {None}]
        /\ announced \in [Requests -> SUBSET {"ACCEPTED", "ABANDONED", "EXPIRED"}]
    BY DEF TypeOK
  <2>2. PICK winner \in Drivers : /\ accepting[r] = winner /\ winner # None /\ ride[r] = None
                                  /\ response[r][winner] = "PENDING"
    BY <1>3, <2>1 DEF CommitAccept, AcceptsPending
  <2>3. ride'[r] = winner /\ "ACCEPTED" \in announced'[r]
    BY <1>3, <2>1, <2>2 DEF CommitAccept, Announce
  <2>4. response'[r] = [e \in Drivers |-> IF response[r][e] # "PENDING" THEN response[r][e]
                                          ELSE IF e = winner THEN "ACCEPTED" ELSE "CANCELLED"]
    BY <1>3, <2>1, <2>2 DEF CommitAccept
  <2>5. ASSUME NEW d \in Drivers PROVE response'[r][d] = "ACCEPTED" <=> d = winner
    <3>1. response[r][d] # "ACCEPTED"
      BY <1>1, <2>2, RideDispatchAssumption
    <3>q. QED
      BY <2>2, <2>4, <3>1
  <2>q. QED
    BY <2>2, <2>3, <2>5
<1>q. QED
  BY <1>2, <1>3

-----------------------------------------------------------------------------
(* The theorems.                                                           *)

(* The invariant holds at the start.                                       *)
LEMMA InitEstablishes == Init => IInv
<1> SUFFICES ASSUME Init PROVE IInv
  OBVIOUS
<1> USE RideDispatchAssumption DEF Init
<1>1. TypeOK
  BY DEF TypeOK, Open, Closed, Responses, Places
<1>2. Placed /\ AcceptsPending /\ Boosting /\ Locked /\ RoundsFit
  BY DEF Placed, AcceptsPending, Boosting, Locked, InRound, RoundsFit, Fits
<1>3. AcceptedIffRide
  BY DEF AcceptedIffRide
<1>4. RoundsDoNotStack
  <2>1. \A q \in Requests : Live(q) = {} /\ Asked(q) = {}
    BY DEF Live, Asked
  <2>2. \A q \in Requests : Cardinality(Live(q)) = 0 /\ Cardinality(Asked(q)) = 0
    BY <2>1, FS_EmptySet, Zenon
  <2>3. 0 <= BatchSize /\ 0 <= MaxAttempted
    OBVIOUS
  <2>q. QED
    BY <2>2, <2>3, Zenon DEF RoundsDoNotStack
<1>q. QED
  BY <1>1, <1>2, <1>3, <1>4 DEF IInv

(* It survives every step.                                                 *)
LEMMA NextPreserves == IInv /\ [Next]_vars => IInv'
<1> SUFFICES ASSUME IInv, [Next]_vars PROVE IInv'
  OBVIOUS
<1>1. CASE Next
  <2>1. Stepping /\ TypeOK /\ Placed /\ AcceptsPending /\ Boosting /\ Locked /\ RoundsFit
        /\ AcceptedIffRide /\ RoundsDoNotStack
    BY <1>1, Steps DEF IInv
  <2>2. TypeOK' /\ Placed' /\ AcceptsPending' /\ Boosting'
    BY <2>1, TypeStep, PlacedStep, AcceptsStep, BoostingStep
  <2>3. Locked' /\ RoundsFit' /\ AcceptedIffRide' /\ RoundsDoNotStack'
    BY <2>1, LockedStep, FitsStep, AcceptedStep, StackStep
  <2>q. QED
    BY <2>2, <2>3 DEF IInv
<1>2. CASE UNCHANGED vars
  <2> USE <1>2 DEF vars, tables, locals, job, IInv
  <2>1. TypeOK'
    BY DEF TypeOK
  <2>2. Placed' /\ AcceptsPending' /\ Boosting' /\ Locked' /\ AcceptedIffRide'
    BY DEF Placed, AcceptsPending, Boosting, Locked, InRound, AcceptedIffRide
  <2>3. \A q \in Requests : Live(q)' = Live(q) /\ Asked(q)' = Asked(q)
    BY DEF Live, Asked
  <2>4. RoundsFit' /\ RoundsDoNotStack'
    BY <2>3 DEF RoundsFit, Fits, RoundsDoNotStack
  <2>q. QED
    BY <2>1, <2>2, <2>4
<1>q. QED
  BY <1>1, <1>2

(* The inductive invariant holds in every reachable state.                 *)
LEMMA Invariance == Spec => []IInv
BY InitEstablishes, NextPreserves, PTL DEF Spec

(* Every variable of the search keeps its type, whatever the schedule.     *)
THEOREM TypeCorrect == Spec => []TypeOK
<1>1. IInv => TypeOK
  BY DEF IInv
<1>q. QED
  BY <1>1, Invariance, PTL

(* A request has one winner at most, the driver of its ride, whatever      *)
(* rejections, sweeps, refreshes and rounds race with the acceptance.      *)
THEOREM OneWinner == Spec => []AcceptedIffRide
<1>1. IInv => AcceptedIffRide
  BY DEF IInv
<1>q. QED
  BY <1>1, Invariance, PTL

(* Rounds of one request never add up to more live offers than the batch,  *)
(* nor to more asked drivers than allowed, until a lock runs out under one.*)
THEOREM LimitsAreKept == Spec => []RoundsDoNotStack
<1>1. IInv => RoundsDoNotStack
  BY DEF IInv
<1>q. QED
  BY <1>1, Invariance, PTL

(* A ride is not given to another driver, and only a round that read the   *)
(* request before it closed can reopen it.                                 *)
THEOREM OutcomesStand == Spec => OutcomeStands
<1> DEFINE Stays(q) ==
      /\ ride[q] # None => ride'[q] = ride[q]
      /\ request[q] \in Closed /\ request'[q] # request[q] =>
            \E w \in Workers : at[w] = q /\ snap[w] = "CREATED" /\ offered[w]
<1>1. IInv /\ [Next]_vars => [\A q \in Requests : Stays(q)]_vars
  <2> SUFFICES ASSUME IInv, Next, NEW q \in Requests PROVE Stays(q)
    OBVIOUS
  <2>1. Stays(q)
    <3>1. Stepping /\ TypeOK /\ Placed
      BY Steps DEF IInv
    <3>2. ride[q] # None => ride'[q] = ride[q]
      BY <3>1, MatchesOfAStep DEF NoOutcome, CommitAccept
    <3>3. ASSUME request[q] \in Closed, request'[q] # request[q]
          PROVE  \E w \in Workers : at[w] = q /\ snap[w] = "CREATED" /\ offered[w]
      <4>0. request \in [Requests -> {"NONE"} \cup Open \cup Closed]
        BY <3>1 DEF TypeOK
      <4>1. ASSUME NEW p \in Requests,
                   \/ CreateRequest(p) \/ CancelRequest(p) \/ BoostRequest(p) \/ CommitAccept(p)
                   \/ ExpireOverdue(p) \/ Expire(p)
            PROVE  FALSE
        BY <3>3, <4>0, <4>1
        DEF CreateRequest, CancelRequest, BoostRequest, CommitAccept, ExpireOverdue, Expire,
            Open, Closed
      <4>2. ASSUME NEW w \in Workers, ExpireExhausted(w) PROVE FALSE
        BY <3>1, <4>1, <4>2 DEF ExpireExhausted, Placed
      <4>3. ASSUME NEW w \in Workers, PromoteToSearching(w)
            PROVE  at[w] = q /\ snap[w] = "CREATED" /\ offered[w]
        BY <3>3, <4>0, <4>3 DEF PromoteToSearching
      <4>q. QED
        BY <3>1, <3>3, <4>1, <4>2, <4>3
        DEF tables, Stepping, RequestLapses, SkipRound, RollBackAccept, DispatchAffected,
            Redeliver, LoseCall, LockExpires, OfferLapses, RejectOffer, BeginAccept,
            TimeOutOffer, EnterRound, BeginRedispatch, ReadRequest, CountLive,
            PlanLimitReached, PlanNobody, PlanBatch, ReleaseLock, RefreshOffers, WorkerDies,
            OfferTo, OfferTaken, OfferUnpublished, CreateOffer, SweepOffers
    <3>q. QED
      BY <3>2, <3>3
  <2>q. QED
    BY <2>1
<1>2. Spec => [][\A q \in Requests : Stays(q)]_vars
  BY <1>1, Invariance, PTL DEF Spec
<1>q. QED
  BY <1>2 DEF OutcomeStands
=============================================================================
