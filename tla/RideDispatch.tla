----------------------------- MODULE RideDispatch -----------------------------
(***************************************************************************)
(* A ride request in search of a driver: the booking, the dispatch rounds  *)
(* that offer it to a batch of drivers, the drivers' answers, the boost    *)
(* that puts it back in front of everybody, the two jobs that age offers   *)
(* and requests, and the acceptance that turns it into a ride.             *)
(*                                                                         *)
(* A transaction that locks the request row (cancel, boost, accept) is     *)
(* atomic to everyone else who writes it.  Acceptance is split at its      *)
(* first reads because much happens inside it.  A dispatch round is not a  *)
(* transaction: each of its reads and each offer is a step of its own,     *)
(* under a Redis lock that expires by itself.                              *)
(***************************************************************************)
EXTENDS Naturals, FiniteSets

CONSTANTS
    Requests, Drivers,
    Workers,       \* API processes able to run a dispatch round
    None,
    BatchSize,     \* rideConfig.dispatchBatchSize
    MaxRounds,     \* rideConfig.dispatchMaxRounds
    MaxAttempted,  \* rideConfig.dispatchMaxAttemptedDrivers
    MaxBoosts,     \* bound on the boosts of one request
    MaxFaults      \* bound on redeliveries, lost calls, crashes, overrun locks

ASSUME RideDispatchAssumption ==
    /\ None \notin Drivers \cup Workers \cup Requests
    /\ BatchSize \in Nat /\ MaxRounds \in Nat /\ MaxAttempted \in Nat
    /\ MaxBoosts \in Nat /\ MaxFaults \in Nat
ASSUME DriversAssumption == IsFiniteSet(Drivers)

VARIABLES
    request,    \* request[q]: ride_requests.status ("NONE" before the insert)
    due,        \* due[q]: expires_at <= now
    response,   \* response[q][d]: ride_dispatches.response ("NONE": no row)
    lapsed,     \* lapsed[q][d]: the offer's expires_at <= now
    round,      \* round[q]: the highest dispatch_round of the request's offers
    boosts,     \* boosts[q]: how often the fare was changed
    ride,       \* ride[q]: the driver of the request's ride, or None
    accepting,  \* accepting[q]: driver whose accept holds the request's row lock
    calls,      \* calls[q]: dispatchNextBatch calls on their way
    boosted,    \* boosted[q]: ride.request.boosted events to be handled
    lock,       \* lock[q]: holder of dispatch:request:<q> in Redis
    pc, at, snap, live, slot, fresh, offered,  \* the locals of a worker
    sweep,      \* offers the timeout job has read and not yet handled
    affected,   \* requests the timeout job will dispatch again
    announced,  \* announced[q]: outcomes published to the rider
    overran,    \* a lock expired under a round that was still running
    faults

tables == <<request, due, response, lapsed, round, boosts, ride, announced>>
locals == <<pc, at, snap, live, slot, fresh, offered>>
job    == <<sweep, affected>>
vars   == <<tables, accepting, calls, boosted, lock, locals, job, overran, faults>>

Open      == {"CREATED", "SEARCHING"}
Closed    == {"MATCHED", "ABANDONED", "EXPIRED"}
Responses == {"NONE", "PENDING", "ACCEPTED", "REJECTED", "TIMEOUT", "CANCELLED"}
Places    == {"idle", "read", "count", "plan", "offer", "exhaust", "release", "refresh"}

Init ==
    /\ request   = [q \in Requests |-> "NONE"]
    /\ due       = [q \in Requests |-> FALSE]
    /\ response  = [q \in Requests |-> [d \in Drivers |-> "NONE"]]
    /\ lapsed    = [q \in Requests |-> [d \in Drivers |-> FALSE]]
    /\ round     = [q \in Requests |-> 0]
    /\ boosts    = [q \in Requests |-> 0]
    /\ ride      = [q \in Requests |-> None]
    /\ accepting = [q \in Requests |-> None]
    /\ calls     = [q \in Requests |-> 0]
    /\ boosted   = [q \in Requests |-> 0]
    /\ lock      = [q \in Requests |-> None]
    /\ pc        = [w \in Workers |-> "idle"]
    /\ at        = [w \in Workers |-> None]
    /\ snap      = [w \in Workers |-> "NONE"]
    /\ live      = [w \in Workers |-> 0]
    /\ slot      = [w \in Workers |-> 0]
    /\ fresh     = [w \in Workers |-> {}]
    /\ offered   = [w \in Workers |-> FALSE]
    /\ sweep     = {}
    /\ affected  = {}
    /\ announced = [q \in Requests |-> {}]
    /\ overran   = FALSE
    /\ faults    = 0

Fault      == faults < MaxFaults /\ faults' = faults + 1
Announce(q, what) == announced' = [announced EXCEPT ![q] = @ \cup {what}]
Call(q)    == calls' = [calls EXCEPT ![q] = @ + 1]
Unlocked(q) == accepting[q] = None

Live(q)    == {d \in Drivers : response[q][d] = "PENDING" /\ ~lapsed[q][d]}
Asked(q)   == {d \in Drivers : response[q][d] # "NONE"}

-----------------------------------------------------------------------------
(* The rider.                                                              *)

(* createRequest: the row and ride.requested commit together. *)
CreateRequest(q) ==
    /\ request[q] = "NONE"
    /\ request' = [request EXCEPT ![q] = "CREATED"]
    /\ Call(q)
    /\ UNCHANGED <<due, response, lapsed, round, boosts, ride, announced,
                   accepting, boosted, lock, locals, job, overran, faults>>

CancelRequest(q) ==
    /\ request[q] \in Open /\ Unlocked(q)
    /\ request'  = [request EXCEPT ![q] = "ABANDONED"]
    /\ response' = [response EXCEPT ![q] =
                      [d \in Drivers |-> IF @[d] = "PENDING" THEN "CANCELLED" ELSE @[d]]]
    /\ Announce(q, "ABANDONED")
    /\ UNCHANGED <<due, lapsed, round, boosts, ride,
                   accepting, calls, boosted, lock, locals, job, overran, faults>>

BoostRequest(q) ==
    /\ request[q] \in Open /\ Unlocked(q) /\ boosts[q] < MaxBoosts
    /\ request' = [request EXCEPT ![q] = "SEARCHING"]
    /\ due'     = [due EXCEPT ![q] = FALSE]
    /\ boosts'  = [boosts EXCEPT ![q] = @ + 1]
    /\ boosted' = [boosted EXCEPT ![q] = @ + 1]
    /\ UNCHANGED <<response, lapsed, round, ride, announced,
                   accepting, calls, lock, locals, job, overran, faults>>

-----------------------------------------------------------------------------
(* The clock.                                                              *)

RequestLapses(q) ==
    /\ request[q] \in Open /\ ~due[q]
    /\ due' = [due EXCEPT ![q] = TRUE]
    /\ UNCHANGED <<request, response, lapsed, round, boosts, ride, announced,
                   accepting, calls, boosted, lock, locals, job, overran, faults>>

OfferLapses(q, d) ==
    /\ response[q][d] = "PENDING" /\ ~lapsed[q][d]
    /\ lapsed' = [lapsed EXCEPT ![q][d] = TRUE]
    /\ UNCHANGED <<request, due, response, round, boosts, ride, announced,
                   accepting, calls, boosted, lock, locals, job, overran, faults>>

-----------------------------------------------------------------------------
(* dispatchNextBatch and runDispatchRound.                                 *)

Goto(w, place) == pc' = [pc EXCEPT ![w] = place]

(* Mutant of EnterRound: no lock is taken. *)
EnterRoundUnlocked(w, q) ==
    /\ pc[w] = "idle" /\ calls[q] > 0
    /\ calls' = [calls EXCEPT ![q] = @ - 1]
    /\ lock'  = [lock EXCEPT ![q] = w]
    /\ at'    = [at EXCEPT ![w] = q]
    /\ Goto(w, "read")
    /\ UNCHANGED <<tables, accepting, boosted, snap, live, slot, fresh, offered, job,
                   overran, faults>>

(* lock.acquire: SET NX PX; the loser returns 0 and nobody calls again. *)
EnterRound(w, q) ==
    /\ pc[w] = "idle" /\ calls[q] > 0 /\ lock[q] = None
    /\ calls' = [calls EXCEPT ![q] = @ - 1]
    /\ lock'  = [lock EXCEPT ![q] = w]
    /\ at'    = [at EXCEPT ![w] = q]
    /\ Goto(w, "read")
    /\ UNCHANGED <<tables, accepting, boosted, snap, live, slot, fresh, offered, job,
                   overran, faults>>

SkipRound(q) ==
    /\ calls[q] > 0 /\ lock[q] # None
    /\ calls' = [calls EXCEPT ![q] = @ - 1]
    /\ UNCHANGED <<tables, accepting, boosted, lock, locals, job, overran, faults>>

ReadRequest(w) ==
    LET q == at[w] IN
    /\ pc[w] = "read"
    /\ snap' = [snap EXCEPT ![w] = request[q]]
    /\ Goto(w, IF request[q] \in Open /\ ~due[q] THEN "count" ELSE "release")
    /\ UNCHANGED <<tables, accepting, calls, boosted, lock, at, live, slot, fresh, offered,
                   job, overran, faults>>

(* countLiveOffers; the round only tops up to the batch size. *)
CountLive(w) ==
    LET q == at[w]
        n == Cardinality(Live(q)) IN
    /\ pc[w] = "count"
    /\ live' = [live EXCEPT ![w] = n]
    /\ Goto(w, IF n < BatchSize THEN "plan" ELSE "release")
    /\ UNCHANGED <<tables, accepting, calls, boosted, lock, at, snap, slot, fresh, offered,
                   job, overran, faults>>

(* findAllDriverIdsForRequest, highestRound, findEligibleCandidates: who   *)
(* is near, online and operable is any set of drivers never asked before,  *)
(* up to the free slots and the attempts left.                             *)
MayExpire(w) == live[w] = 0 /\ snap[w] = "SEARCHING"

Room(w) ==
    LET slots == BatchSize - live[w]
        left  == MaxAttempted - Cardinality(Asked(at[w]))
    IN  IF slots < left THEN slots ELSE left

OutOfRounds(w) == \/ round[at[w]] + 1 > MaxRounds
                  \/ Cardinality(Asked(at[w])) >= MaxAttempted

PlanLimitReached(w) ==
    /\ pc[w] = "plan" /\ OutOfRounds(w)
    /\ Goto(w, IF MayExpire(w) THEN "exhaust" ELSE "release")
    /\ UNCHANGED <<tables, accepting, calls, boosted, lock, at, snap, live, slot, fresh,
                   offered, job, overran, faults>>

PlanNobody(w) ==
    /\ pc[w] = "plan" /\ ~OutOfRounds(w)
    /\ Goto(w, IF MayExpire(w) /\ Asked(at[w]) # {} THEN "exhaust" ELSE "release")
    /\ UNCHANGED <<tables, accepting, calls, boosted, lock, at, snap, live, slot, fresh,
                   offered, job, overran, faults>>

PlanBatch(w) ==
    /\ pc[w] = "plan" /\ ~OutOfRounds(w)
    /\ \E C \in SUBSET (Drivers \ Asked(at[w])) :
          /\ C # {} /\ Cardinality(C) <= Room(w)
          /\ fresh' = [fresh EXCEPT ![w] = C]
    /\ slot' = [slot EXCEPT ![w] = round[at[w]] + 1]
    /\ Goto(w, "offer")
    /\ UNCHANGED <<tables, accepting, calls, boosted, lock, at, snap, live, offered, job,
                   overran, faults>>

(* offerToDriver: one commit per offer; the foreign key makes it wait for  *)
(* a transaction holding the request row, and the unique index on          *)
(* (request, driver) makes it fail when the driver was asked meanwhile.    *)
CreateOffer(q, d, n) ==
    /\ Unlocked(q)
    /\ response[q][d] = "NONE"
    /\ response' = [response EXCEPT ![q][d] = "PENDING"]
    /\ lapsed'   = [lapsed EXCEPT ![q][d] = FALSE]
    /\ round'    = [round EXCEPT ![q] = IF n > @ THEN n ELSE @]

OfferTo(w, d) ==
    /\ pc[w] = "offer" /\ d \in fresh[w]
    /\ CreateOffer(at[w], d, slot[w])
    /\ fresh'   = [fresh EXCEPT ![w] = @ \ {d}]
    /\ offered' = [offered EXCEPT ![w] = TRUE]
    /\ UNCHANGED <<request, due, boosts, ride, announced, accepting, calls,
                   boosted, lock, pc, at, snap, live, slot, job, overran, faults>>

OfferTaken(w, d) ==
    /\ pc[w] = "offer" /\ d \in fresh[w] /\ response[at[w]][d] # "NONE"
    /\ fresh' = [fresh EXCEPT ![w] = @ \ {d}]
    /\ UNCHANGED <<tables, accepting, calls, boosted, lock, pc, at, snap, live, slot,
                   offered, job, overran, faults>>

(* The offer commits, its ride.dispatch.offered event does not. *)
OfferUnpublished(w, d) ==
    /\ pc[w] = "offer" /\ d \in fresh[w]
    /\ Fault
    /\ CreateOffer(at[w], d, slot[w])
    /\ fresh' = [fresh EXCEPT ![w] = @ \ {d}]
    /\ UNCHANGED <<request, due, boosts, ride, announced, accepting, calls,
                   boosted, lock, pc, at, snap, live, slot, offered, job, overran>>

(* if (offered > 0 && request.status === 'CREATED') updateStatus: the test *)
(* is on the row as it was read at the start of the round, and the update  *)
(* is by id alone.                                                         *)
PromoteToSearching(w) ==
    LET q == at[w] IN
    /\ pc[w] = "offer" /\ fresh[w] = {}
    /\ IF offered[w] /\ snap[w] = "CREATED"
       THEN Unlocked(q) /\ request' = [request EXCEPT ![q] = "SEARCHING"]
       ELSE UNCHANGED request
    /\ Goto(w, "release")
    /\ UNCHANGED <<due, response, lapsed, round, boosts, ride, announced,
                   accepting, calls, boosted, lock, at, snap, live, slot, fresh, offered,
                   job, overran, faults>>

Expire(q) ==
    /\ Unlocked(q)
    /\ IF request[q] \in Open
       THEN request' = [request EXCEPT ![q] = "EXPIRED"] /\ Announce(q, "EXPIRED")
       ELSE UNCHANGED <<request, announced>>

(* expireRequestIfExhausted: conditional on the status, not on the clock. *)
ExpireExhausted(w) ==
    /\ pc[w] = "exhaust"
    /\ Expire(at[w])
    /\ Goto(w, "release")
    /\ UNCHANGED <<due, response, lapsed, round, boosts, ride, accepting, calls,
                   boosted, lock, at, snap, live, slot, fresh, offered, job, overran, faults>>

LeaveRound(w) ==
    /\ pc'      = [pc EXCEPT ![w] = "idle"]
    /\ at'      = [at EXCEPT ![w] = None]
    /\ snap'    = [snap EXCEPT ![w] = "NONE"]
    /\ live'    = [live EXCEPT ![w] = 0]
    /\ slot'    = [slot EXCEPT ![w] = 0]
    /\ fresh'   = [fresh EXCEPT ![w] = {}]
    /\ offered' = [offered EXCEPT ![w] = FALSE]

(* lock.release deletes the key only while it still holds our token. *)
ReleaseLock(w) ==
    LET q == at[w] IN
    /\ pc[w] = "release"
    /\ lock' = [lock EXCEPT ![q] = IF @ = w THEN None ELSE @]
    /\ LeaveRound(w)
    /\ UNCHANGED <<tables, accepting, calls, boosted, job, overran, faults>>

-----------------------------------------------------------------------------
(* redispatchAfterBoost, run by the consumer of ride.request.boosted.      *)

BeginRedispatch(w, q) ==
    /\ pc[w] = "idle" /\ boosted[q] > 0
    /\ boosted' = [boosted EXCEPT ![q] = @ - 1]
    /\ IF request[q] \in Open /\ ~due[q]
       THEN /\ at'   = [at EXCEPT ![w] = q]
            /\ slot' = [slot EXCEPT ![w] = round[q] + 1]
            /\ Goto(w, "refresh")
       ELSE UNCHANGED <<at, slot, pc>>
    /\ UNCHANGED <<tables, accepting, calls, lock, snap, live, fresh, offered, job,
                   overran, faults>>

(* refreshOffersAfterFareChange: every rejected, timed-out or pending      *)
(* offer is pending again, with a new window and the new round.            *)
ReopenableAny == Responses \ {"NONE", "CANCELLED"}   \* mutant of Reopenable
Reopenable == {"REJECTED", "TIMEOUT", "PENDING"}

RefreshOffers(w) ==
    LET q == at[w]
        again == {d \in Drivers : response[q][d] \in Reopenable} IN
    /\ pc[w] = "refresh" /\ Unlocked(q)
    /\ response' = [response EXCEPT ![q] =
                      [d \in Drivers |-> IF d \in again THEN "PENDING" ELSE @[d]]]
    /\ lapsed'   = [lapsed EXCEPT ![q] =
                      [d \in Drivers |-> IF d \in again THEN FALSE ELSE @[d]]]
    /\ round'    = [round EXCEPT ![q] = IF again # {} /\ slot[w] > @ THEN slot[w] ELSE @]
    /\ Call(q)
    /\ LeaveRound(w)
    /\ UNCHANGED <<request, due, boosts, ride, announced, accepting, boosted,
                   lock, job, overran, faults>>

-----------------------------------------------------------------------------
(* The drivers.                                                            *)

(* rejectOffer: its transaction, then a dispatch round of its own. *)
RejectOffer(q, d) ==
    /\ response[q][d] = "PENDING" /\ accepting[q] # d
    /\ response' = [response EXCEPT ![q][d] = "REJECTED"]
    /\ Call(q)
    /\ UNCHANGED <<request, due, lapsed, round, boosts, ride, announced, accepting,
                   boosted, lock, locals, job, overran, faults>>

(* acceptRideRequest up to its claim: the request row is locked, the offer *)
(* must be pending and inside its window.                                  *)
BeginAccept(q, d) ==
    /\ Unlocked(q) /\ request[q] # "NONE"
    /\ response[q][d] = "PENDING" /\ ~lapsed[q][d]
    /\ accepting' = [accepting EXCEPT ![q] = d]
    /\ UNCHANGED <<tables, calls, boosted, lock, locals, job, overran, faults>>

(* Mutant of CommitAccept: rides.request_id is not unique. *)
CommitAcceptAgain(q) ==
    LET d == accepting[q] IN
    /\ d # None /\ request[q] \in Open
    /\ request'   = [request EXCEPT ![q] = "MATCHED"]
    /\ ride'      = [ride EXCEPT ![q] = d]
    /\ response'  = [response EXCEPT ![q] =
                       [e \in Drivers |-> IF @[e] # "PENDING" THEN @[e]
                                          ELSE IF e = d THEN "ACCEPTED" ELSE "CANCELLED"]]
    /\ Announce(q, "ACCEPTED")
    /\ accepting' = [accepting EXCEPT ![q] = None]
    /\ UNCHANGED <<due, lapsed, round, boosts, calls, boosted, lock, locals,
                   job, overran, faults>>

(* claimForMatch, the ride (unique per request), resolveOffers, commit. *)
CommitAccept(q) ==
    LET d == accepting[q] IN
    /\ d # None /\ request[q] \in Open /\ ride[q] = None
    /\ request'   = [request EXCEPT ![q] = "MATCHED"]
    /\ ride'      = [ride EXCEPT ![q] = d]
    /\ response'  = [response EXCEPT ![q] =
                       [e \in Drivers |-> IF @[e] # "PENDING" THEN @[e]
                                          ELSE IF e = d THEN "ACCEPTED" ELSE "CANCELLED"]]
    /\ Announce(q, "ACCEPTED")
    /\ accepting' = [accepting EXCEPT ![q] = None]
    /\ UNCHANGED <<due, lapsed, round, boosts, calls, boosted, lock, locals,
                   job, overran, faults>>

(* Any later check fails (the claim, the unique indexes, the driver no     *)
(* longer online, the vehicle, the balance), or the transaction dies.      *)
RollBackAccept(q) ==
    /\ accepting[q] # None
    /\ accepting' = [accepting EXCEPT ![q] = None]
    /\ UNCHANGED <<tables, calls, boosted, lock, locals, job, overran, faults>>

-----------------------------------------------------------------------------
(* The jobs.                                                               *)

(* DispatchTimeoutJob: reads the overdue offers, then answers each one     *)
(* that is still pending, then dispatches the affected requests.           *)
SweepOffers ==
    LET overdue == {p \in Requests \X Drivers : /\ response[p[1]][p[2]] = "PENDING"
                                                /\ lapsed[p[1]][p[2]]} IN
    /\ sweep = {} /\ affected = {} /\ overdue # {}
    /\ sweep' = overdue
    /\ UNCHANGED <<tables, accepting, calls, boosted, lock, locals, affected, overran, faults>>

TimeOutOffer(q, d) ==
    /\ <<q, d>> \in sweep /\ accepting[q] # d
    /\ sweep' = sweep \ {<<q, d>>}
    /\ IF response[q][d] = "PENDING"
       THEN /\ response' = [response EXCEPT ![q][d] = "TIMEOUT"]
            /\ affected' = affected \cup {q}
       ELSE UNCHANGED <<response, affected>>
    /\ UNCHANGED <<request, due, lapsed, round, boosts, ride, announced,
                   accepting, calls, boosted, lock, locals, overran, faults>>

DispatchAffected(q) ==
    /\ sweep = {} /\ q \in affected
    /\ affected' = affected \ {q}
    /\ Call(q)
    /\ UNCHANGED <<tables, accepting, boosted, lock, locals, sweep, overran, faults>>

(* Mutant of ExpireOverdue: searching requests are left alone. *)
ExpireOverdueCreated(q) ==
    /\ request[q] = "CREATED" /\ due[q]
    /\ Expire(q)
    /\ UNCHANGED <<due, response, lapsed, round, boosts, ride, accepting, calls,
                   boosted, lock, locals, job, overran, faults>>

(* RequestExpiryJob.expire: conditional on the status and on expires_at. *)
ExpireOverdue(q) ==
    /\ request[q] \in Open /\ due[q]
    /\ Expire(q)
    /\ UNCHANGED <<due, response, lapsed, round, boosts, ride, accepting, calls,
                   boosted, lock, locals, job, overran, faults>>

-----------------------------------------------------------------------------
(* What goes wrong.                                                        *)

(* The outbox delivers at least once. *)
Redeliver(q) ==
    /\ Fault
    /\ \/ request[q] # "NONE" /\ Call(q) /\ UNCHANGED boosted
       \/ boosts[q] > 0 /\ boosted' = [boosted EXCEPT ![q] = @ + 1] /\ UNCHANGED calls
    /\ UNCHANGED <<tables, accepting, lock, locals, job, overran>>

(* The caller of a round dies before making the call. *)
LoseCall(q) ==
    /\ Fault /\ calls[q] > 0
    /\ calls' = [calls EXCEPT ![q] = @ - 1]
    /\ UNCHANGED <<tables, accepting, boosted, lock, locals, job, overran>>

(* A process dies inside a round; its lock stays until it expires. *)
WorkerDies(w) ==
    /\ Fault /\ pc[w] # "idle"
    /\ LeaveRound(w)
    /\ UNCHANGED <<tables, accepting, calls, boosted, lock, job, overran>>

(* PX 10000 runs out: harmless when the holder is dead, an overrun when it *)
(* is still in its round.                                                  *)
LockExpires(q) ==
    LET running == at[lock[q]] = q IN
    /\ lock[q] # None
    /\ lock' = [lock EXCEPT ![q] = None]
    /\ IF running THEN Fault ELSE UNCHANGED faults
    /\ overran' = (overran \/ running)
    /\ UNCHANGED <<tables, accepting, calls, boosted, locals, job>>

-----------------------------------------------------------------------------
Round(w) ==
    \/ ReadRequest(w) \/ CountLive(w)
    \/ PlanLimitReached(w) \/ PlanNobody(w) \/ PlanBatch(w)
    \/ \E d \in Drivers : OfferTo(w, d) \/ OfferTaken(w, d) \/ OfferUnpublished(w, d)
    \/ PromoteToSearching(w) \/ ExpireExhausted(w) \/ ReleaseLock(w) \/ RefreshOffers(w)

Next ==
    \/ \E q \in Requests :
          \/ CreateRequest(q) \/ CancelRequest(q) \/ BoostRequest(q) \/ RequestLapses(q)
          \/ SkipRound(q) \/ CommitAccept(q) \/ RollBackAccept(q)
          \/ DispatchAffected(q) \/ ExpireOverdue(q)
          \/ Redeliver(q) \/ LoseCall(q) \/ LockExpires(q)
          \/ \E d \in Drivers : \/ OfferLapses(q, d) \/ RejectOffer(q, d)
                                \/ BeginAccept(q, d) \/ TimeOutOffer(q, d)
          \/ \E w \in Workers : EnterRound(w, q) \/ BeginRedispatch(w, q)
    \/ \E w \in Workers : Round(w) \/ WorkerDies(w)
    \/ SweepOffers

Spec == Init /\ [][Next]_vars

(* Time passes, transactions end, and the expiry job keeps running.  No    *)
(* driver need answer, and no dispatch round need ever run.                *)
Fairness ==
    /\ \A q \in Requests : /\ WF_vars(RequestLapses(q))
                           /\ WF_vars(ExpireOverdue(q))
                           /\ WF_vars(CommitAccept(q) \/ RollBackAccept(q))
    /\ \A q \in Requests, d \in Drivers : WF_vars(OfferLapses(q, d))

FairSpec == Spec /\ Fairness

-----------------------------------------------------------------------------
(* Properties.                                                             *)

(* Type invariant. *)
TypeOK ==
    /\ request \in [Requests -> {"NONE"} \cup Open \cup Closed]
    /\ due \in [Requests -> BOOLEAN]
    /\ response \in [Requests -> [Drivers -> Responses]]
    /\ lapsed \in [Requests -> [Drivers -> BOOLEAN]]
    /\ round \in [Requests -> Nat]
    /\ boosts \in [Requests -> Nat]
    /\ ride \in [Requests -> Drivers \cup {None}]
    /\ accepting \in [Requests -> Drivers \cup {None}]
    /\ calls \in [Requests -> Nat]
    /\ boosted \in [Requests -> Nat]
    /\ lock \in [Requests -> Workers \cup {None}]
    /\ pc \in [Workers -> Places]
    /\ at \in [Workers -> Requests \cup {None}]
    /\ snap \in [Workers -> {"NONE"} \cup Open \cup Closed]
    /\ live \in [Workers -> Nat]
    /\ slot \in [Workers -> Nat]
    /\ fresh \in [Workers -> SUBSET Drivers]
    /\ offered \in [Workers -> BOOLEAN]
    /\ sweep \in SUBSET (Requests \X Drivers)
    /\ affected \in SUBSET Requests
    /\ announced \in [Requests -> SUBSET {"ACCEPTED", "ABANDONED", "EXPIRED"}]
    /\ overran \in BOOLEAN
    /\ faults \in Nat

(* Exactly one offer of a request is ACCEPTED, and only when the ride is   *)
(* that driver's: a late rejection, sweep or refresh never undoes the win, *)
(* and no second winner appears even when a request is searched again. A   *)
(* MATCHED request has its ride, and the rider of a ride was told.         *)
AcceptedIffRide ==
    \A q \in Requests :
        /\ \A d \in Drivers : response[q][d] = "ACCEPTED" <=> ride[q] = d
        /\ request[q] = "MATCHED" => ride[q] # None
        /\ ride[q] # None => "ACCEPTED" \in announced[q]

(* While no lock ran out under a round, the drivers holding a live offer   *)
(* of an unboosted request are never more than the batch, and the drivers  *)
(* ever asked never more than the configured attempts.                     *)
RoundsDoNotStack ==
    \A q \in Requests : ~overran =>
        /\ boosts[q] = 0 => Cardinality(Live(q)) <= BatchSize
        /\ Cardinality(Asked(q)) <= MaxAttempted

(* The outcome of a search stands: the ride of a request is never replaced  *)
(* by another driver's, and a closed request is reopened by nothing but a   *)
(* round that read it while it was still CREATED and made an offer since.   *)
OutcomeStands ==
    [][\A q \in Requests :
          /\ ride[q] # None => ride'[q] = ride[q]
          /\ request[q] \in Closed /\ request'[q] # request[q] =>
                \E w \in Workers : at[w] = q /\ snap[w] = "CREATED" /\ offered[w]]_vars

(* The rider of every request hears of an outcome: no search stays open    *)
(* forever, whatever drivers, rounds and locks do.                         *)
EverySearchEnds ==
    \A q \in Requests : request[q] \in Open ~> request[q] \in Closed
=============================================================================
