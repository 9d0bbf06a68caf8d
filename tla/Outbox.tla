-------------------------------- MODULE Outbox --------------------------------
(***************************************************************************)
(* The transactional outbox: rows of outbox_events, and one OutboxRelay    *)
(* per API replica that claims, dispatches, retries, dead-letters, reaps   *)
(* and prunes them.  A row is inserted in the producer's own transaction,  *)
(* so an event exists exactly when its business change committed.          *)
(*                                                                         *)
(* Every SQL statement is one atomic step; everything a relay does between *)
(* two statements (awaiting the subscribers of an event, above all) is     *)
(* interleaved with the other relays, with the passing of time and with    *)
(* the death of the process.                                               *)
(***************************************************************************)
EXTENDS Naturals, FiniteSets

CONSTANTS
    Events,       \* events, numbered in (created_at, id) order
    Relays,       \* API replicas, each running one relay
    Tokens,       \* claim tokens; a randomUUID() is one that nobody holds
    NoToken,      \* SQL NULL / no batch in hand
    BatchSize,    \* DEFAULT_BATCH_SIZE
    MaxAttempts,  \* MAX_ATTEMPTS
    MaintenanceEvery,  \* MAINTENANCE_EVERY_TICKS
    MaxFaults     \* bound on crashes, restarts, failed ticks and slow batches

ASSUME OutboxAssumption ==
    /\ Events \subseteq Nat
    /\ MaxAttempts \in Nat \ {0}
    /\ BatchSize \in Nat \ {0}
    /\ MaintenanceEvery \in Nat \ {0}
    /\ MaxFaults \in Nat
    /\ NoToken \notin Tokens

VARIABLES
    status,      \* status[e], the row's column ("ABSENT" before it exists)
    retries,     \* retries[e]
    claimToken,  \* claimToken[e]
    due,         \* due[e]: next_attempt_at <= now
    stale,       \* stale[e]: claimed_at < now - CLAIM_TIMEOUT_MS
    pc,          \* pc[r]: where relay r's tick is
    stopping,    \* stopping[r]
    ticks,       \* ticks[r], modulo MaintenanceEvery
    token,       \* token[r]: claimToken of the batch r is working on
    todo,        \* todo[r]: rows of the batch not yet dispatched
    seen,        \* seen[r][e]: event.retries as the claim returned it
    publishedIds,\* publishedIds[r]
    delivered,   \* events every subscriber has handled in some one dispatch
    faults       \* faults so far

rows  == <<status, retries, claimToken, due, stale>>
relay == <<pc, stopping, ticks, token, todo, seen, publishedIds>>
vars  == <<rows, relay, delivered, faults>>

Statuses == {"ABSENT", "PENDING", "PROCESSING", "PUBLISHED", "FAILED", "PRUNED"}
Places   == {"down", "idle", "claim", "dispatch", "settle", "retire", "maintain", "prune"}

Init ==
    /\ status       = [e \in Events |-> "ABSENT"]
    /\ retries      = [e \in Events |-> 0]
    /\ claimToken   = [e \in Events |-> NoToken]
    /\ due          = [e \in Events |-> TRUE]
    /\ stale        = [e \in Events |-> FALSE]
    /\ pc           = [r \in Relays |-> "idle"]
    /\ stopping     = [r \in Relays |-> FALSE]
    /\ ticks        = [r \in Relays |-> 0]
    /\ token        = [r \in Relays |-> NoToken]
    /\ todo         = [r \in Relays |-> {}]
    /\ seen         = [r \in Relays |-> [e \in Events |-> 0]]
    /\ publishedIds = [r \in Relays |-> {}]
    /\ delivered    = {}
    /\ faults       = 0

-----------------------------------------------------------------------------
(* The statements of OutboxRepository.                                     *)

(* Each one moves the rows of S to status st, charging `attempt' retries,  *)
(* clearing the claim and leaving next_attempt_at past or future.          *)
Put(S, st, attempt, isDue) ==
    /\ status'     = [e \in Events |-> IF e \in S THEN st ELSE status[e]]
    /\ retries'    = [e \in Events |-> IF e \in S THEN retries[e] + attempt
                                                   ELSE retries[e]]
    /\ claimToken' = [e \in Events |-> IF e \in S THEN NoToken ELSE claimToken[e]]
    /\ due'        = [e \in Events |-> IF e \in S THEN isDue ELSE due[e]]
    /\ stale'      = [e \in Events |-> IF e \in S THEN FALSE ELSE stale[e]]

Owned(r, S) == {e \in S : claimToken[e] = token[r]}

MarkPublished(r)       == Put(Owned(r, publishedIds[r]), "PUBLISHED", 0, TRUE)
ReleaseUnprocessed(r)  == Put(Owned(r, todo[r]), "PENDING", 0, TRUE)
ReleaseForRetry(r, e)  == Put(Owned(r, {e}), "PENDING", 1, FALSE)
MarkDead(r, e)         == Put(Owned(r, {e}), "FAILED", 1, TRUE)

(* ORDER BY created_at, id LIMIT n *)
Oldest(S, n) == {e \in S : Cardinality({f \in S : f < e}) < n}
First(S)     == {e \in S : \A f \in S : e <= f}

Claimable == {e \in Events : status[e] = "PENDING" /\ due[e]}
Fresh     == Tokens \ ({claimToken[e] : e \in Events} \cup {token[r] : r \in Relays})

ClaimRows(S, t) ==
    /\ status'     = [e \in Events |-> IF e \in S THEN "PROCESSING" ELSE status[e]]
    /\ claimToken' = [e \in Events |-> IF e \in S THEN t ELSE claimToken[e]]
    /\ UNCHANGED <<retries, due, stale>>

-----------------------------------------------------------------------------
(* Producers and the clock.                                                *)

Fault == faults < MaxFaults /\ faults' = faults + 1

(* EventPublisher.publish(durable): the row commits with its transaction. *)
Enqueue(e) ==
    /\ status[e] = "ABSENT"
    /\ status' = [status EXCEPT ![e] = "PENDING"]
    /\ UNCHANGED <<retries, claimToken, due, stale, relay, delivered, faults>>

BackoffElapses(e) ==
    /\ status[e] = "PENDING" /\ ~due[e]
    /\ due' = [due EXCEPT ![e] = TRUE]
    /\ UNCHANGED <<status, retries, claimToken, stale, relay, delivered, faults>>

(* The rows of one claim grow old together.  Outliving the claim while its *)
(* relay is still at work is a fault; a claim nobody works on just ages.   *)
ClaimAges(t) ==
    /\ \E e \in Events : claimToken[e] = t /\ ~stale[e]
    /\ stale' = [e \in Events |-> stale[e] \/ claimToken[e] = t]
    /\ IF \E r \in Relays : token[r] = t THEN Fault ELSE UNCHANGED faults
    /\ UNCHANGED <<status, retries, claimToken, due, relay, delivered>>

-----------------------------------------------------------------------------
(* A relay's tick.                                                         *)

Goto(r, place) == pc' = [pc EXCEPT ![r] = place]

(* End of processBatch: every MaintenanceEvery-th tick goes on to          *)
(* maintenance unless the relay is stopping.  The batch is forgotten.      *)
EndBatch(r) ==
    /\ Goto(r, IF ticks[r] = 0 /\ ~stopping[r] THEN "maintain" ELSE "idle")
    /\ token'        = [token EXCEPT ![r] = NoToken]
    /\ todo'         = [todo EXCEPT ![r] = {}]
    /\ publishedIds' = [publishedIds EXCEPT ![r] = {}]
    /\ UNCHANGED <<stopping, ticks, seen>>

(* The timer fires; stop() clears it, so a stopping relay starts no tick. *)
Tick(r) ==
    /\ pc[r] = "idle" /\ ~stopping[r]
    /\ ticks' = [ticks EXCEPT ![r] = (@ + 1) % MaintenanceEvery]
    /\ Goto(r, "claim")
    /\ UNCHANGED <<rows, stopping, token, todo, seen, publishedIds, delivered, faults>>

ClaimBatch(r) ==
    LET batch == Oldest(Claimable, BatchSize) IN
    /\ pc[r] = "claim" /\ batch # {}
    /\ \E t \in Fresh :
          /\ ClaimRows(batch, t)
          /\ token' = [token EXCEPT ![r] = t]
    /\ todo' = [todo EXCEPT ![r] = batch]
    /\ seen' = [seen EXCEPT ![r] = retries]
    /\ Goto(r, "dispatch")
    /\ UNCHANGED <<stopping, ticks, publishedIds, delivered, faults>>

ClaimNothing(r) ==
    /\ pc[r] = "claim" /\ Claimable = {}
    /\ EndBatch(r)
    /\ UNCHANGED <<rows, delivered, faults>>

(* The claim commits and its reply is lost: the tick throws, and the rows  *)
(* stay PROCESSING under a token no relay knows.                           *)
ClaimReplyLost(r) ==
    LET batch == Oldest(Claimable, BatchSize) IN
    /\ pc[r] = "claim" /\ batch # {}
    /\ Fault
    /\ \E t \in Fresh : ClaimRows(batch, t)
    /\ Goto(r, "idle")
    /\ UNCHANGED <<stopping, ticks, token, todo, seen, publishedIds, delivered>>

(* One iteration of the loop: every subscriber of the oldest undispatched  *)
(* event is awaited; all succeed, or the failure is to be settled.         *)
DispatchSucceeds(r) ==
    /\ pc[r] = "dispatch" /\ todo[r] # {} /\ ~stopping[r]
    /\ delivered'    = delivered \cup First(todo[r])
    /\ publishedIds' = [publishedIds EXCEPT ![r] = @ \cup First(todo[r])]
    /\ todo'         = [todo EXCEPT ![r] = @ \ First(todo[r])]
    /\ UNCHANGED <<rows, pc, stopping, ticks, token, seen, faults>>

(* Mutant of DispatchFails: a subscriber's failure counts as handled. *)
DispatchFailsUnnoticed(r) ==
    /\ pc[r] = "dispatch" /\ todo[r] # {} /\ ~stopping[r]
    /\ publishedIds' = [publishedIds EXCEPT ![r] = @ \cup First(todo[r])]
    /\ todo'         = [todo EXCEPT ![r] = @ \ First(todo[r])]
    /\ UNCHANGED <<rows, pc, stopping, ticks, token, seen, delivered, faults>>

DispatchFails(r) ==
    /\ pc[r] = "dispatch" /\ todo[r] # {} /\ ~stopping[r]
    /\ Goto(r, "settle")
    /\ UNCHANGED <<rows, stopping, ticks, token, todo, seen, publishedIds, delivered, faults>>

SettleFailure(r) ==
    /\ pc[r] = "settle"
    /\ \E e \in First(todo[r]) :
          /\ IF seen[r][e] + 1 >= MaxAttempts THEN MarkDead(r, e)
                                             ELSE ReleaseForRetry(r, e)
          /\ todo' = [todo EXCEPT ![r] = @ \ {e}]
    /\ Goto(r, "dispatch")
    /\ UNCHANGED <<stopping, ticks, token, seen, publishedIds, delivered, faults>>

(* `stopping' is read between two events: the tail goes back at once. *)
ReleaseTail(r) ==
    /\ pc[r] = "dispatch" /\ todo[r] # {} /\ stopping[r]
    /\ ReleaseUnprocessed(r)
    /\ todo' = [todo EXCEPT ![r] = {}]
    /\ UNCHANGED <<pc, stopping, ticks, token, seen, publishedIds, delivered, faults>>

LoopDone(r) ==
    /\ pc[r] = "dispatch" /\ todo[r] = {}
    /\ Goto(r, "retire")
    /\ UNCHANGED <<rows, stopping, ticks, token, todo, seen, publishedIds, delivered, faults>>

(* Every success of the batch is marked in one statement, at the end. *)
Retire(r) ==
    /\ pc[r] = "retire"
    /\ MarkPublished(r)
    /\ EndBatch(r)
    /\ UNCHANGED <<delivered, faults>>

StaleReversed == {e \in Events : status[e] = "PROCESSING" /\ ~stale[e]} \* mutant of Stale
Stale == {e \in Events : status[e] = "PROCESSING" /\ stale[e]}

ReclaimStale(r) ==
    /\ pc[r] = "maintain"
    /\ Put(Stale, "PENDING", 0, TRUE)
    /\ Goto(r, "prune")
    /\ UNCHANGED <<stopping, ticks, token, todo, seen, publishedIds, delivered, faults>>

(* Mutant of PrunePublished: dead letters are pruned too. *)
PruneSettled(r) ==
    /\ pc[r] = "prune"
    /\ \E S \in SUBSET {e \in Events : status[e] \in {"PUBLISHED", "FAILED"}} :
          Put(S, "PRUNED", 0, TRUE)
    /\ Goto(r, "idle")
    /\ UNCHANGED <<stopping, ticks, token, todo, seen, publishedIds, delivered, faults>>

PrunePublished(r) ==
    /\ pc[r] = "prune"
    /\ \E S \in SUBSET {e \in Events : status[e] = "PUBLISHED"} :
          Put(S, "PRUNED", 0, TRUE)
    /\ Goto(r, "idle")
    /\ UNCHANGED <<stopping, ticks, token, todo, seen, publishedIds, delivered, faults>>

-----------------------------------------------------------------------------
(* Failure, shutdown and restart.                                          *)

Forget(r) ==
    /\ token'        = [token EXCEPT ![r] = NoToken]
    /\ todo'         = [todo EXCEPT ![r] = {}]
    /\ publishedIds' = [publishedIds EXCEPT ![r] = {}]
    /\ UNCHANGED seen

(* A statement fails: tick() rejects, start()'s catch logs it, and the     *)
(* rest of the batch stays claimed.                                        *)
TickThrows(r) ==
    /\ \/ pc[r] \in {"claim", "settle", "retire", "maintain", "prune"}
       \/ pc[r] = "dispatch" /\ todo[r] # {} /\ stopping[r]
    /\ Fault
    /\ Goto(r, "idle")
    /\ Forget(r)
    /\ UNCHANGED <<rows, stopping, ticks, delivered>>

Crash(r) ==
    /\ pc[r] # "down"
    /\ Fault
    /\ Goto(r, "down")
    /\ Forget(r)
    /\ UNCHANGED <<rows, stopping, ticks, delivered>>

(* stop() on SIGTERM. *)
Stop(r) ==
    /\ pc[r] # "down" /\ ~stopping[r]
    /\ Fault
    /\ stopping' = [stopping EXCEPT ![r] = TRUE]
    /\ UNCHANGED <<rows, pc, ticks, token, todo, seen, publishedIds, delivered>>

(* stop() resolved: nothing was in flight any more, or STOP_TIMEOUT_MS     *)
(* passed with the batch still in hand.  The process closes and exits.     *)
Halt(r) ==
    /\ pc[r] # "down" /\ stopping[r]
    /\ IF pc[r] = "idle" THEN UNCHANGED faults ELSE Fault
    /\ Goto(r, "down")
    /\ Forget(r)
    /\ UNCHANGED <<rows, stopping, ticks, delivered>>

(* start() in a new process. *)
Start(r) ==
    /\ pc[r] = "down"
    /\ Goto(r, "idle")
    /\ stopping' = [stopping EXCEPT ![r] = FALSE]
    /\ ticks'    = [ticks EXCEPT ![r] = 0]
    /\ UNCHANGED <<rows, token, todo, seen, publishedIds, delivered, faults>>

-----------------------------------------------------------------------------
Work(r) ==
    \/ Tick(r) \/ ClaimBatch(r) \/ ClaimNothing(r)
    \/ DispatchSucceeds(r) \/ DispatchFails(r) \/ SettleFailure(r)
    \/ ReleaseTail(r) \/ LoopDone(r) \/ Retire(r)
    \/ ReclaimStale(r) \/ PrunePublished(r)

Break(r) == ClaimReplyLost(r) \/ TickThrows(r) \/ Crash(r) \/ Stop(r) \/ Halt(r)

Next ==
    \/ \E e \in Events : Enqueue(e) \/ BackoffElapses(e)
    \/ \E t \in Tokens : ClaimAges(t)
    \/ \E r \in Relays : Work(r) \/ Break(r) \/ Start(r)

Spec == Init /\ [][Next]_vars

(* A relay that is up keeps ticking, an idle stopping process exits, a     *)
(* dead replica is restarted, and time passes.  Nothing is promised about  *)
(* the outcome of a dispatch.                                              *)
Fairness ==
    /\ \A r \in Relays : /\ WF_vars(Work(r))
                         /\ WF_vars(Start(r))
                         /\ WF_vars(pc[r] = "idle" /\ Halt(r))
    /\ \A e \in Events : WF_vars(BackoffElapses(e))
    /\ \A t \in Tokens : WF_vars(ClaimAges(t) /\ UNCHANGED faults)

FairSpec == Spec /\ Fairness

-----------------------------------------------------------------------------
(* Properties.                                                             *)

(* Type invariant: every column and every relay local has its type. *)
TypeOK ==
    /\ status \in [Events -> Statuses]
    /\ retries \in [Events -> Nat]
    /\ claimToken \in [Events -> Tokens \cup {NoToken}]
    /\ due \in [Events -> BOOLEAN]
    /\ stale \in [Events -> BOOLEAN]
    /\ pc \in [Relays -> Places]
    /\ stopping \in [Relays -> BOOLEAN]
    /\ ticks \in [Relays -> Nat]
    /\ token \in [Relays -> Tokens \cup {NoToken}]
    /\ todo \in [Relays -> SUBSET Events]
    /\ seen \in [Relays -> [Events -> Nat]]
    /\ publishedIds \in [Relays -> SUBSET Events]
    /\ delivered \in SUBSET Events
    /\ faults \in Nat

(* A row is retired as PUBLISHED, or deleted by the pruner, only if in one *)
(* dispatch every subscriber handled it: markPublished never covers a row  *)
(* of the batch that failed, was released, or was never reached.           *)
PublishedWasDelivered ==
    \A e \in Events : status[e] \in {"PUBLISHED", "PRUNED"} => e \in delivered

(* A row is dead exactly when it used up MAX_ATTEMPTS, although the        *)
(* attempt number is the one read when the batch was claimed: no stale     *)
(* owner charges an attempt twice, and no live row runs out of attempts.   *)
DeadIffExhausted ==
    \A e \in Events :
        retries[e] <= MaxAttempts /\ (status[e] = "FAILED" <=> retries[e] = MaxAttempts)

(* An outcome is earned: published and pruned rows were delivered, and a   *)
(* row was given up exactly when its attempts were spent.                  *)
OutcomesEarned == PublishedWasDelivered /\ DeadIffExhausted

(* Once PUBLISHED or FAILED a row is never re-queued, whichever relay is   *)
(* late: the statement of a relay that outlived its claim matches nothing. *)
OutcomeIsFinal ==
    [][\A e \in Events :
          /\ status[e] = "PUBLISHED" => status'[e] \in {"PUBLISHED", "PRUNED"}
          /\ status[e] \in {"FAILED", "PRUNED"} => status'[e] = status[e]]_vars

(* A claimed row is settled by the relay that holds it, or put back as it  *)
(* was because the claim had outlived CLAIM_TIMEOUT_MS.                    *)
SettledByOwner ==
    [][\A e \in Events :
          status[e] = "PROCESSING" /\ status'[e] # "PROCESSING" =>
              \/ \E r \in Relays : token[r] = claimToken[e] /\ e \notin todo'[r]
              \/ stale[e] /\ status'[e] = "PENDING" /\ retries'[e] = retries[e]]_vars

(* No event is forgotten: whatever crashes, restarts, lost replies and     *)
(* slow batches happen, an inserted row ends PUBLISHED or FAILED.          *)
EveryEventSettles ==
    \A e \in Events :
        status[e] # "ABSENT" ~> status[e] \in {"PUBLISHED", "PRUNED", "FAILED"}

(* What the outbox promises its producers, and how it keeps it. *)
Outcome(e) == CASE status[e] = "ABSENT" -> "none"
                [] status[e] \in {"PENDING", "PROCESSING"} -> "owed"
                [] OTHER -> status[e]

Promise == INSTANCE OutboxPromise WITH outcome <- [e \in Events |-> Outcome(e)]

(* The relays implement the promise of OutboxPromise. *)
KeepsPromise == Promise!Spec
=============================================================================
