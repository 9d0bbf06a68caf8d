----------------------------- MODULE OutboxProofs -----------------------------
(***************************************************************************)
(* Safety of the outbox for any number of events, relays and attempts.     *)
(* The inductive invariant says what a claim token buys: two relays never  *)
(* hold the same one, a row carries one exactly while it is PROCESSING,    *)
(* and while a relay holds a row the retries it read are still the row's.  *)
(***************************************************************************)
EXTENDS Outbox, TLAPS

TokenMarksClaim ==
    \A e \in Events : claimToken[e] # NoToken <=> status[e] = "PROCESSING"

TokensApart ==
    \A r, s \in Relays : r # s /\ token[r] # NoToken => token[r] # token[s]

SeenIsCurrent ==
    \A r \in Relays, e \in Events :
        token[r] # NoToken /\ claimToken[e] = token[r] => seen[r][e] = retries[e]

WorkingHoldsToken ==
    \A r \in Relays : pc[r] \in {"dispatch", "settle", "retire"} => token[r] # NoToken

MarksOnlyDelivered == \A r \in Relays : publishedIds[r] \subseteq delivered

IInv ==
    /\ TypeOK
    /\ TokenMarksClaim
    /\ TokensApart
    /\ SeenIsCurrent
    /\ WorkingHoldsToken
    /\ MarksOnlyDelivered
    /\ PublishedWasDelivered
    /\ DeadIffExhausted

(* The initial state: no row, no token. *)
LEMMA InitEstablishes == Init => IInv
BY OutboxAssumption
   DEF Init, IInv, TypeOK, TokenMarksClaim, TokensApart, SeenIsCurrent, WorkingHoldsToken, MarksOnlyDelivered, PublishedWasDelivered, DeadIffExhausted, Statuses, Places

(* What a statement leaves in each row, and that the columns keep their    *)
(* types.                                                                  *)
LEMMA PutKeepsTypes ==
  ASSUME TypeOK, NEW S, NEW st \in Statuses, NEW n \in Nat, NEW d \in BOOLEAN,
         Put(S, st, n, d)
  PROVE  /\ status' \in [Events -> Statuses]
         /\ retries' \in [Events -> Nat]
         /\ claimToken' \in [Events -> Tokens \cup {NoToken}]
         /\ due' \in [Events -> BOOLEAN]
         /\ stale' \in [Events -> BOOLEAN]
<1> USE DEF TypeOK, Put
<1>1. status' \in [Events -> Statuses]  OBVIOUS
<1>2. retries' \in [Events -> Nat]  OBVIOUS
<1>3. claimToken' \in [Events -> Tokens \cup {NoToken}]  OBVIOUS
<1>4. due' \in [Events -> BOOLEAN]  OBVIOUS
<1>5. stale' \in [Events -> BOOLEAN]  OBVIOUS
<1>q. QED  BY <1>1, <1>2, <1>3, <1>4, <1>5

(* The failed event of a batch: dead when the attempt just made was the    *)
(* last one, otherwise back in the queue.                                  *)
LEMMA SettleFailureKeeps ==
  ASSUME IInv, NEW r \in Relays, SettleFailure(r)
  PROVE  IInv'
<1>0. /\ token' = token /\ seen' = seen /\ publishedIds' = publishedIds
      /\ delivered' = delivered /\ pc' = [pc EXCEPT ![r] = "dispatch"]
      /\ pc[r] = "settle" /\ token[r] # NoToken
      /\ stopping' = stopping /\ ticks' = ticks /\ faults' = faults
  BY DEF SettleFailure, Goto, IInv, WorkingHoldsToken
<1>1. PICK e \in Events : /\ IF seen[r][e] + 1 >= MaxAttempts
                             THEN MarkDead(r, e) ELSE ReleaseForRetry(r, e)
                          /\ todo' = [todo EXCEPT ![r] = @ \ {e}]
  BY DEF SettleFailure, First, IInv, TypeOK
<1> DEFINE mine == Owned(r, {e})
           st   == IF seen[r][e] + 1 >= MaxAttempts THEN "FAILED" ELSE "PENDING"
<1>2. ASSUME NEW f \in mine
      PROVE  /\ f \in Events /\ f = e /\ claimToken[f] = token[r]
             /\ status[f] = "PROCESSING"
             /\ retries[f] \in Nat /\ seen[r][e] = retries[f]
             /\ retries[f] <= MaxAttempts /\ retries[f] # MaxAttempts
  BY <1>0 DEF Owned, IInv, TypeOK, TokenMarksClaim, SeenIsCurrent, DeadIffExhausted
<1>3. Put(mine, st, 1, st = "FAILED")
  BY <1>1 DEF MarkDead, ReleaseForRetry
<1>4. TypeOK'
  <2>1. st \in Statuses /\ (st = "FAILED") \in BOOLEAN
    BY DEF Statuses
  <2>2. TypeOK
    BY DEF IInv
  <2>q. QED
    BY <1>0, <1>1, <1>3, <2>1, <2>2, PutKeepsTypes DEF TypeOK, Places
<1>5. \A f \in Events : IF f \in mine
          THEN status'[f] = st /\ retries'[f] = retries[f] + 1 /\ claimToken'[f] = NoToken
          ELSE status'[f] = status[f] /\ retries'[f] = retries[f]
               /\ claimToken'[f] = claimToken[f]
  BY <1>3 DEF Put
<1> HIDE DEF mine
<1>6. TokenMarksClaim'
  BY <1>5 DEF IInv, TokenMarksClaim
<1>7. TokensApart'
  BY <1>0 DEF IInv, TokensApart
<1>8. SeenIsCurrent'
  BY <1>0, <1>5 DEF IInv, SeenIsCurrent
<1>9. WorkingHoldsToken'
  BY <1>0 DEF IInv, WorkingHoldsToken, TypeOK
<1>10. MarksOnlyDelivered'
  BY <1>0 DEF IInv, MarksOnlyDelivered
<1>11. PublishedWasDelivered'
  BY <1>0, <1>5 DEF IInv, PublishedWasDelivered
<1>12. DeadIffExhausted'
  <2> SUFFICES ASSUME NEW f \in Events
               PROVE  retries'[f] <= MaxAttempts
                      /\ (status'[f] = "FAILED" <=> retries'[f] = MaxAttempts)
    BY DEF DeadIffExhausted
  <2>1. CASE f \in mine
    <3>1. retries'[f] = retries[f] + 1 /\ status'[f] = st
      BY <1>5, <2>1
    <3>2. MaxAttempts \in Nat
      BY OutboxAssumption
    <3>q. QED
      BY <1>2, <2>1, <3>1, <3>2
  <2>2. CASE f \notin mine
    BY <1>5, <2>2 DEF IInv, DeadIffExhausted
  <2>q. QED
    BY <2>1, <2>2
<1>q. QED
  BY <1>4, <1>6, <1>7, <1>8, <1>9, <1>10, <1>11, <1>12 DEF IInv

(* Every other statement leaves the attempts alone; it is described by the *)
(* rows it takes, where it takes them, and what it does to relay r.        *)
LEMMA MoveKeeps ==
  ASSUME IInv, NEW r \in Relays, NEW S \in SUBSET Events,
         NEW st \in {"PENDING", "PUBLISHED", "PRUNED"}, Put(S, st, 0, TRUE),
         \A e \in S : status[e] \in {"PROCESSING", "PUBLISHED"},
         st \in {"PUBLISHED", "PRUNED"} => S \subseteq delivered,
         NEW place \in Places, pc' = [pc EXCEPT ![r] = place],
         \/ token' = token /\ publishedIds' = publishedIds /\ place = pc[r]
         \/ /\ token' = token /\ publishedIds' = publishedIds
            /\ place \in {"idle", "prune"}
         \/ /\ token' = [token EXCEPT ![r] = NoToken] /\ place \in {"idle", "maintain"}
            /\ publishedIds' = [publishedIds EXCEPT ![r] = {}],
         todo' = todo \/ todo' = [todo EXCEPT ![r] = {}],
         UNCHANGED <<stopping, ticks, seen, delivered, faults>>
  PROVE  IInv'
<1>1. \A e \in Events : IF e \in S
          THEN status'[e] = st /\ retries'[e] = retries[e] + 0 /\ claimToken'[e] = NoToken
          ELSE status'[e] = status[e] /\ retries'[e] = retries[e]
               /\ claimToken'[e] = claimToken[e]
  BY DEF Put
<1>2. \A e \in Events : retries[e] \in Nat /\ retries'[e] = retries[e]
  BY <1>1 DEF IInv, TypeOK
<1>3. TypeOK'
  <2>1. st \in Statuses /\ TypeOK
    BY DEF Statuses, IInv
  <2>q. QED
    BY <2>1, PutKeepsTypes DEF TypeOK
<1>4. TokenMarksClaim'
  BY <1>1 DEF IInv, TokenMarksClaim
<1>5. TokensApart'
  BY DEF IInv, TokensApart, TypeOK
<1>6. SeenIsCurrent'
  BY <1>1, <1>2 DEF IInv, SeenIsCurrent, TypeOK
<1>7. WorkingHoldsToken'
  BY DEF IInv, WorkingHoldsToken, TypeOK
<1>8. MarksOnlyDelivered'
  BY DEF IInv, MarksOnlyDelivered, TypeOK
<1>9. PublishedWasDelivered'
  BY <1>1 DEF IInv, PublishedWasDelivered
<1>10. DeadIffExhausted'
  BY <1>1, <1>2, OutboxAssumption DEF IInv, DeadIffExhausted
<1>q. QED
  BY <1>3, <1>4, <1>5, <1>6, <1>7, <1>8, <1>9, <1>10 DEF IInv

(* A stopping relay puts the rest of its batch back. *)
LEMMA ReleaseTailKeeps ==
  ASSUME IInv, NEW r \in Relays, ReleaseTail(r)
  PROVE  IInv'
<1> DEFINE mine == Owned(r, todo[r])
<1>1. Put(mine, "PENDING", 0, TRUE)
  BY DEF ReleaseTail, ReleaseUnprocessed
<1>2. mine \in SUBSET Events /\ \A e \in mine : status[e] = "PROCESSING"
  BY DEF ReleaseTail, Owned, IInv, TypeOK, TokenMarksClaim, WorkingHoldsToken
<1>3. pc' = [pc EXCEPT ![r] = pc[r]] /\ pc[r] \in Places
  BY DEF ReleaseTail, IInv, TypeOK
<1> HIDE DEF mine
<1>q. QED
  BY <1>1, <1>2, <1>3, MoveKeeps DEF ReleaseTail

(* The end of a batch: what was delivered becomes PUBLISHED. *)
LEMMA RetireKeeps ==
  ASSUME IInv, NEW r \in Relays, Retire(r)
  PROVE  IInv'
<1> DEFINE mine  == Owned(r, publishedIds[r])
           place == IF ticks[r] = 0 /\ ~stopping[r] THEN "maintain" ELSE "idle"
<1>1. Put(mine, "PUBLISHED", 0, TRUE)
  BY DEF Retire, MarkPublished
<1>2. /\ mine \in SUBSET Events /\ mine \subseteq delivered
      /\ \A e \in mine : status[e] = "PROCESSING"
  BY DEF Retire, Owned, IInv, TypeOK, TokenMarksClaim, WorkingHoldsToken, MarksOnlyDelivered
<1>3. /\ pc' = [pc EXCEPT ![r] = place] /\ place \in {"idle", "maintain"}
      /\ place \in Places
      /\ token' = [token EXCEPT ![r] = NoToken]
      /\ todo' = [todo EXCEPT ![r] = {}]
      /\ publishedIds' = [publishedIds EXCEPT ![r] = {}]
      /\ UNCHANGED <<stopping, ticks, seen, delivered, faults>>
  BY DEF Retire, EndBatch, Goto, Places
<1> HIDE DEF mine, place
<1>q. QED
  BY <1>1, <1>2, <1>3, MoveKeeps

(* Reclaiming puts every stale claim back, its attempts unchanged. *)
LEMMA ReclaimStaleKeeps ==
  ASSUME IInv, NEW r \in Relays, ReclaimStale(r)
  PROVE  IInv'
<1>1. Stale \in SUBSET Events /\ \A e \in Stale : status[e] = "PROCESSING"
  BY DEF Stale
<1>2. "prune" \in Places
  BY DEF Places
<1>q. QED
  BY <1>1, <1>2, MoveKeeps DEF ReclaimStale, Goto

(* Pruning touches published rows only. *)
LEMMA PrunePublishedKeeps ==
  ASSUME IInv, NEW r \in Relays, PrunePublished(r)
  PROVE  IInv'
<1>1. PICK S \in SUBSET {e \in Events : status[e] = "PUBLISHED"} : Put(S, "PRUNED", 0, TRUE)
  BY DEF PrunePublished
<1>2. S \in SUBSET Events /\ S \subseteq delivered /\ \A e \in S : status[e] = "PUBLISHED"
  BY DEF IInv, PublishedWasDelivered
<1>3. "idle" \in Places
  BY DEF Places
<1>q. QED
  BY <1>1, <1>2, <1>3, MoveKeeps DEF PrunePublished, Goto

(* No step of a producer, of the clock, of a relay or of a failure breaks  *)
(* the inductive invariant.                                                *)
LEMMA StepPreserves == IInv /\ [Next]_vars => IInv'
<1> SUFFICES ASSUME IInv, [Next]_vars PROVE IInv'
  OBVIOUS
<1> USE OutboxAssumption DEF IInv, TypeOK, TokenMarksClaim, TokensApart, SeenIsCurrent, WorkingHoldsToken, MarksOnlyDelivered, PublishedWasDelivered, DeadIffExhausted
<1> USE DEF Statuses, Places, rows, relay
<1>1. ASSUME NEW e \in Events, Enqueue(e) PROVE IInv'
  BY <1>1 DEF Enqueue
<1>2. ASSUME NEW e \in Events, BackoffElapses(e) PROVE IInv'
  BY <1>2 DEF BackoffElapses
<1>3. ASSUME NEW t \in Tokens, ClaimAges(t) PROVE IInv'
  BY <1>3 DEF ClaimAges, Fault
<1>4. ASSUME NEW r \in Relays, Tick(r) PROVE IInv'
  BY <1>4 DEF Tick, Goto
<1>5. ASSUME NEW r \in Relays, ClaimBatch(r) PROVE IInv'
  BY <1>5 DEF ClaimBatch, ClaimRows, Fresh, Claimable, Oldest, Goto
<1>6. ASSUME NEW r \in Relays, ClaimNothing(r) PROVE IInv'
  BY <1>6 DEF ClaimNothing, EndBatch, Goto
<1>7. ASSUME NEW r \in Relays, ClaimReplyLost(r) PROVE IInv'
  BY <1>7 DEF ClaimReplyLost, ClaimRows, Fresh, Claimable, Oldest, Goto, Fault
<1>8. ASSUME NEW r \in Relays, DispatchSucceeds(r) PROVE IInv'
  BY <1>8 DEF DispatchSucceeds, First
<1>9. ASSUME NEW r \in Relays, DispatchFails(r) PROVE IInv'
  BY <1>9 DEF DispatchFails, Goto
<1>10. ASSUME NEW r \in Relays, SettleFailure(r) PROVE IInv'
  BY <1>10, SettleFailureKeeps
<1>11. ASSUME NEW r \in Relays, ReleaseTail(r) PROVE IInv'
  BY <1>11, ReleaseTailKeeps
<1>12. ASSUME NEW r \in Relays, LoopDone(r) PROVE IInv'
  BY <1>12 DEF LoopDone, Goto
<1>13. ASSUME NEW r \in Relays, Retire(r) PROVE IInv'
  BY <1>13, RetireKeeps
<1>14. ASSUME NEW r \in Relays, ReclaimStale(r) PROVE IInv'
  BY <1>14, ReclaimStaleKeeps
<1>15. ASSUME NEW r \in Relays, PrunePublished(r) PROVE IInv'
  BY <1>15, PrunePublishedKeeps
<1>16. ASSUME NEW r \in Relays, TickThrows(r) PROVE IInv'
  BY <1>16 DEF TickThrows, Forget, Goto, Fault
<1>17. ASSUME NEW r \in Relays, Crash(r) PROVE IInv'
  BY <1>17 DEF Crash, Forget, Goto, Fault
<1>18. ASSUME NEW r \in Relays, Stop(r) PROVE IInv'
  BY <1>18 DEF Stop, Fault
<1>19. ASSUME NEW r \in Relays, Halt(r) PROVE IInv'
  BY <1>19 DEF Halt, Forget, Goto, Fault
<1>20. ASSUME NEW r \in Relays, Start(r) PROVE IInv'
  BY <1>20 DEF Start, Goto
<1>21. CASE UNCHANGED vars
  BY <1>21 DEF vars
<1>q. QED
  BY <1>1, <1>2, <1>3, <1>4, <1>5, <1>6, <1>7, <1>8, <1>9, <1>10, <1>11, <1>12, <1>13, <1>14, <1>15, <1>16, <1>17, <1>18, <1>19, <1>20, <1>21 DEF Next, Work, Break

-----------------------------------------------------------------------------
(* The inductive invariant holds in every reachable state. *)
THEOREM Invariance == Spec => []IInv
<1>1. Init => IInv
  BY InitEstablishes
<1>2. IInv /\ [Next]_vars => IInv'
  BY StepPreserves
<1>q. QED
  BY <1>1, <1>2, PTL DEF Spec

(* Every column and relay local keeps its type. *)
THEOREM TypeCorrect == Spec => []TypeOK
<1>1. IInv => TypeOK
  BY DEF IInv
<1>q. QED
  BY <1>1, Invariance, PTL

(* A row is PUBLISHED, or pruned, only after some dispatch of it succeeded *)
(* with every subscriber, and dead exactly when MAX_ATTEMPTS were charged  *)
(* to it, whatever relays crash, stall or lose their claim.                *)
THEOREM OutcomesAreEarned == Spec => []OutcomesEarned
<1>1. IInv => OutcomesEarned
  BY DEF IInv, OutcomesEarned
<1>q. QED
  BY <1>1, Invariance, PTL

(* What one statement can do to one row: nothing; the insert; a claim; or  *)
(* an outcome recorded by the relay whose token the row carries, a reap of *)
(* a stale claim, a prune.                                                 *)
RowStep(e) ==
    \/ status'[e] = status[e]
    \/ status[e] = "ABSENT" /\ status'[e] = "PENDING"
    \/ status[e] = "PENDING" /\ status'[e] = "PROCESSING"
    \/ /\ status[e] = "PROCESSING" /\ status'[e] \in {"PENDING", "PUBLISHED", "FAILED"}
       /\ \E r \in Relays : token[r] = claimToken[e] /\ e \notin todo'[r]
    \/ /\ status[e] = "PROCESSING" /\ status'[e] = "PENDING"
       /\ stale[e] /\ retries'[e] = retries[e]
    \/ status[e] = "PUBLISHED" /\ status'[e] = "PRUNED"

(* Every step of the relays is a RowStep of each event. *)
LEMMA StepsOfARow ==
  ASSUME IInv, [Next]_vars, NEW e \in Events
  PROVE  RowStep(e)
<1> USE DEF RowStep
<1>1. CASE UNCHANGED status
  BY <1>1
<1>2. ASSUME NEW f \in Events, Enqueue(f) PROVE RowStep(e)
  BY <1>2 DEF Enqueue, IInv, TypeOK
<1>3. ASSUME NEW r \in Relays, ClaimBatch(r) \/ ClaimReplyLost(r) PROVE RowStep(e)
  BY <1>3 DEF ClaimBatch, ClaimReplyLost, ClaimRows, Oldest, Claimable
<1>4. ASSUME NEW r \in Relays, SettleFailure(r) PROVE RowStep(e)
  <2>1. PICK f \in Events : /\ \E st \in {"FAILED", "PENDING"} : \E n, d : Put(Owned(r, {f}), st, n, d)
                            /\ todo' = [todo EXCEPT ![r] = @ \ {f}]
    BY <1>4 DEF SettleFailure, First, MarkDead, ReleaseForRetry, IInv, TypeOK
  <2>2. status'[e] = status[e] \/ (e = f /\ claimToken[e] = token[r]
                                   /\ status'[e] \in {"PENDING", "FAILED"})
    BY <2>1 DEF Put, Owned
  <2>3. claimToken[e] = token[r] => status[e] = "PROCESSING"
    BY <1>4 DEF SettleFailure, IInv, WorkingHoldsToken, TokenMarksClaim
  <2>4. e = f => e \notin todo'[r]
    BY <2>1 DEF IInv, TypeOK
  <2>q. QED
    BY <2>2, <2>3, <2>4
<1>5. ASSUME NEW r \in Relays, ReleaseTail(r) \/ Retire(r) PROVE RowStep(e)
  <2>1. status'[e] = status[e] \/ (claimToken[e] = token[r]
                                   /\ status'[e] \in {"PENDING", "PUBLISHED"})
    BY <1>5 DEF ReleaseTail, ReleaseUnprocessed, Retire, MarkPublished, Put, Owned
  <2>2. claimToken[e] = token[r] => status[e] = "PROCESSING"
    BY <1>5 DEF ReleaseTail, Retire, IInv, WorkingHoldsToken, TokenMarksClaim
  <2>3. todo'[r] = {}
    BY <1>5 DEF ReleaseTail, Retire, EndBatch, IInv, TypeOK
  <2>q. QED
    BY <2>1, <2>2, <2>3
<1>6. ASSUME NEW r \in Relays, ReclaimStale(r) PROVE RowStep(e)
  BY <1>6 DEF ReclaimStale, Stale, Put, IInv, TypeOK
<1>7. ASSUME NEW r \in Relays, PrunePublished(r) PROVE RowStep(e)
  BY <1>7 DEF PrunePublished, Put
<1>q. QED
  BY <1>1, <1>2, <1>3, <1>4, <1>5, <1>6, <1>7
     DEF Next, Work, Break, vars, rows, BackoffElapses, ClaimAges, Tick, ClaimNothing,
         DispatchSucceeds, DispatchFails, LoopDone, TickThrows, Crash, Stop, Halt, Start

(* An outcome is final: no relay, however late, re-queues a settled row. *)
THEOREM OutcomesAreFinal == Spec => OutcomeIsFinal
<1> DEFINE Final(e) == /\ status[e] = "PUBLISHED" => status'[e] \in {"PUBLISHED", "PRUNED"}
                       /\ status[e] \in {"FAILED", "PRUNED"} => status'[e] = status[e]
<1>1. IInv /\ [Next]_vars => [\A e \in Events : Final(e)]_vars
  BY StepsOfARow DEF RowStep
<1>q. QED
  BY <1>1, Invariance, PTL DEF Spec, OutcomeIsFinal

(* A claimed row is settled by the relay holding its token, or reaped. *)
THEOREM OnlyOwnersSettle == Spec => SettledByOwner
<1> DEFINE Settled(e) ==
      status[e] = "PROCESSING" /\ status'[e] # "PROCESSING" =>
          \/ \E r \in Relays : token[r] = claimToken[e] /\ e \notin todo'[r]
          \/ stale[e] /\ status'[e] = "PENDING" /\ retries'[e] = retries[e]
<1>1. IInv /\ [Next]_vars => [\A e \in Events : Settled(e)]_vars
  BY StepsOfARow DEF RowStep
<1>q. QED
  BY <1>1, Invariance, PTL DEF Spec, SettledByOwner

-----------------------------------------------------------------------------
(* The relays implement OutboxPromise.  Besides IInv this needs that a     *)
(* relay only ever dispatches rows that exist.                             *)
BatchIsStored == \A r \in Relays : \A e \in todo[r] : status[e] # "ABSENT"

(* Rows a relay has in hand were inserted, and stay so. *)
LEMMA BatchStaysStored == IInv /\ BatchIsStored /\ [Next]_vars => BatchIsStored'
<1> SUFFICES ASSUME IInv, BatchIsStored, [Next]_vars,
                    NEW r \in Relays, NEW e \in todo'[r]
             PROVE  status'[e] # "ABSENT"
  BY DEF BatchIsStored
<1>1. e \in Events /\ (e \in todo[r] \/ (status[e] = "PENDING" /\ status'[e] = "PROCESSING"))
  <2>1. TypeOK
    BY DEF IInv
  <2>2. TypeOK'
    BY StepPreserves DEF IInv
  <2>3. CASE todo' = todo
    BY <2>1, <2>3 DEF TypeOK
  <2>4. ASSUME NEW q \in Relays, ClaimBatch(q)
        PROVE  e \in todo[r] \/ (status[e] = "PENDING" /\ status'[e] = "PROCESSING")
    BY <2>1, <2>2, <2>4 DEF ClaimBatch, ClaimRows, Oldest, Claimable, TypeOK
  <2>5. ASSUME NEW q \in Relays, NEW S, todo' = [todo EXCEPT ![q] = @ \ S]
        PROVE  e \in todo[r]
    BY <2>1, <2>5 DEF TypeOK
  <2>6. ASSUME NEW q \in Relays, todo' = [todo EXCEPT ![q] = {}]
        PROVE  e \in todo[r]
    BY <2>1, <2>6 DEF TypeOK
  <2>7. e \in Events
    BY <2>2 DEF TypeOK
  <2>q. QED
    BY <2>3, <2>4, <2>5, <2>6, <2>7
       DEF Next, Work, Break, vars, relay, Enqueue, BackoffElapses, ClaimAges, Tick,
           ClaimNothing, ClaimReplyLost, DispatchSucceeds, DispatchFails, SettleFailure,
           ReleaseTail, LoopDone, Retire, EndBatch, ReclaimStale, PrunePublished,
           TickThrows, Crash, Stop, Halt, Forget, Start
<1>2. RowStep(e)
  BY <1>1, StepsOfARow
<1>q. QED
  BY <1>1, <1>2 DEF RowStep, BatchIsStored

(* The outcome of a row, under the refinement mapping, by its status. *)
LEMMA OutcomeValues ==
  ASSUME NEW e \in Events, TypeOK
  PROVE  /\ Outcome(e) \in {"none", "owed", "PUBLISHED", "FAILED", "PRUNED"}
         /\ Outcome(e) = "none" <=> status[e] = "ABSENT"
         /\ Outcome(e) = "owed" <=> status[e] \in {"PENDING", "PROCESSING"}
         /\ \A st \in {"PUBLISHED", "FAILED", "PRUNED"} : Outcome(e) = st <=> status[e] = st
BY DEF Outcome, TypeOK, Statuses

(* A step that moves the outcome of the rows of S, and nothing else. *)
LEMMA MovesOutcome ==
  ASSUME NEW S, NEW to, UNCHANGED delivered,
         \A e \in Events : Outcome(e)' = IF e \in S THEN to ELSE Outcome(e)
  PROVE  Promise!Move(S, to)
BY DEF Promise!Move

(* Every step of the relays is a step of OutboxPromise, or none. *)
LEMMA StepRefines ==
  ASSUME IInv, BatchIsStored, [Next]_vars
  PROVE  Promise!Next \/ UNCHANGED Promise!vars
<1>0. TypeOK /\ TypeOK'
  BY StepPreserves DEF IInv
<1>01. \A e \in Events : (status'[e] = status[e] => Outcome(e)' = Outcome(e))
  BY DEF Outcome
<1>02. \A e \in Events :
          /\ status'[e] = "PENDING" \/ status'[e] = "PROCESSING" => Outcome(e)' = "owed"
          /\ status'[e] = "PUBLISHED" => Outcome(e)' = "PUBLISHED"
          /\ status'[e] = "FAILED" => Outcome(e)' = "FAILED"
          /\ status'[e] = "PRUNED" => Outcome(e)' = "PRUNED"
  BY DEF Outcome
<1>1. CASE UNCHANGED <<status, delivered>>
  BY <1>1 DEF Promise!vars, Outcome
<1>2. ASSUME NEW e \in Events, Enqueue(e) PROVE Promise!Next
  <2>1. Outcome(e) = "none" /\ UNCHANGED delivered
    BY <1>0, <1>2, OutcomeValues DEF Enqueue
  <2>2. \A f \in Events : Outcome(f)' = IF f = e THEN "owed" ELSE Outcome(f)
    BY <1>0, <1>01, <1>02, <1>2 DEF Enqueue, TypeOK
  <2>3. Promise!Commit(e)
    BY <2>1, <2>2 DEF Promise!Commit
  <2>q. QED
    BY <2>3 DEF Promise!Next
<1>3. ASSUME NEW r \in Relays, ClaimBatch(r) \/ ClaimReplyLost(r)
      PROVE  UNCHANGED Promise!vars
  <2>1. \A e \in Events : status'[e] = status[e]
                          \/ (status[e] = "PENDING" /\ status'[e] = "PROCESSING")
    BY <1>3 DEF ClaimBatch, ClaimReplyLost, ClaimRows, Oldest, Claimable
  <2>2. \A e \in Events : Outcome(e)' = Outcome(e)
    BY <1>0, <1>01, <1>02, <2>1, OutcomeValues
  <2>q. QED
    BY <1>3, <2>2 DEF Promise!vars, ClaimBatch, ClaimReplyLost
<1>4. ASSUME NEW r \in Relays, DispatchSucceeds(r) PROVE Promise!Next \/ UNCHANGED Promise!vars
  <2>1. UNCHANGED status /\ delivered' = delivered \cup First(todo[r])
    BY <1>4 DEF DispatchSucceeds, rows
  <2>2. \A e \in Events : Outcome(e)' = Outcome(e)
    BY <1>01, <2>1
  <2>3. CASE First(todo[r]) = {}
    BY <2>1, <2>2, <2>3 DEF Promise!vars
  <2>4. CASE First(todo[r]) # {}
    <3>1. PICK e : e \in First(todo[r])
      BY <2>4
    <3>2. e \in Events /\ First(todo[r]) = {e}
      <4>1. todo[r] \subseteq Nat /\ todo[r] \subseteq Events
        BY <1>0, OutboxAssumption DEF TypeOK
      <4>2. \A f \in First(todo[r]) : f \in Nat /\ f \in todo[r] /\ \A g \in todo[r] : f <= g
        BY <4>1 DEF First
      <4>3. \A f \in First(todo[r]) : f = e
        BY <3>1, <4>2
      <4>q. QED
        BY <3>1, <4>1, <4>2, <4>3
    <3>3. Outcome(e) # "none"
      BY <1>0, <3>1, <3>2, OutcomeValues DEF First, BatchIsStored
    <3>4. Promise!Deliver(e)
      BY <2>1, <2>2, <3>2, <3>3 DEF Promise!Deliver
    <3>q. QED
      BY <3>2, <3>4 DEF Promise!Next
  <2>q. QED
    BY <2>3, <2>4
<1>5. ASSUME NEW r \in Relays, SettleFailure(r) PROVE Promise!Next \/ UNCHANGED Promise!vars
  <2>1. PICK e \in Events, st \in {"FAILED", "PENDING"} :
            \E n, d : Put(Owned(r, {e}), st, n, d)
    BY <1>0, <1>5 DEF SettleFailure, First, MarkDead, ReleaseForRetry, TypeOK
  <2>2. UNCHANGED delivered
    BY <1>5 DEF SettleFailure
  <2>3. \A f \in Owned(r, {e}) : f = e /\ status[f] = "PROCESSING"
    BY <1>5 DEF SettleFailure, Owned, IInv, WorkingHoldsToken, TokenMarksClaim
  <2>4. \A f \in Events : status'[f] = IF f \in Owned(r, {e}) THEN st ELSE status[f]
    BY <2>1 DEF Put
  <2>5. CASE st = "PENDING" \/ e \notin Owned(r, {e})
    <3>1. \A f \in Events : Outcome(f)' = Outcome(f)
      BY <1>0, <1>01, <1>02, <2>3, <2>4, <2>5, OutcomeValues
    <3>q. QED
      BY <2>2, <3>1 DEF Promise!vars
  <2>6. CASE st = "FAILED" /\ e \in Owned(r, {e})
    <3>1. \A f \in Events : Outcome(f)' = IF f \in {e} THEN "FAILED" ELSE Outcome(f)
      BY <1>01, <1>02, <2>3, <2>4, <2>6
    <3>2. Promise!Move({e}, "FAILED")
      BY <2>2, <3>1, MovesOutcome
    <3>3. Outcome(e) = "owed"
      BY <1>0, <2>3, <2>6, OutcomeValues
    <3>4. Promise!GiveUp(e)
      BY <3>2, <3>3 DEF Promise!GiveUp
    <3>q. QED
      BY <3>4 DEF Promise!Next
  <2>q. QED
    BY <2>1, <2>5, <2>6
<1>6. ASSUME NEW r \in Relays, ReleaseTail(r) \/ ReclaimStale(r) PROVE UNCHANGED Promise!vars
  <2>1. \A e \in Events : status'[e] = status[e]
                          \/ (status[e] = "PROCESSING" /\ status'[e] = "PENDING")
    BY <1>6 DEF ReleaseTail, ReleaseUnprocessed, ReclaimStale, Stale, Put, Owned,
                IInv, WorkingHoldsToken, TokenMarksClaim
  <2>2. \A e \in Events : Outcome(e)' = Outcome(e)
    BY <1>0, <1>01, <1>02, <2>1, OutcomeValues
  <2>q. QED
    BY <1>6, <2>2 DEF Promise!vars, ReleaseTail, ReclaimStale
<1>7. ASSUME NEW r \in Relays, Retire(r) PROVE Promise!Next
  <2> DEFINE S == Owned(r, publishedIds[r])
  <2>1. UNCHANGED delivered /\ \A e \in Events : status'[e] = IF e \in S THEN "PUBLISHED" ELSE status[e]
    BY <1>7 DEF Retire, MarkPublished, Put
  <2>2. S \in SUBSET Events /\ \A e \in S : status[e] = "PROCESSING" /\ e \in delivered
    BY <1>0, <1>7 DEF Retire, Owned, IInv, WorkingHoldsToken, TokenMarksClaim, MarksOnlyDelivered, TypeOK
  <2>3. \A e \in Events : Outcome(e)' = IF e \in S THEN "PUBLISHED" ELSE Outcome(e)
    BY <1>01, <1>02, <2>1
  <2>4. Promise!Move(S, "PUBLISHED")
    BY <2>1, <2>3, MovesOutcome
  <2>5. \A e \in S : Outcome(e) = "owed" /\ e \in delivered
    BY <1>0, <2>2, OutcomeValues
  <2>6. Promise!Publish(S)
    BY <2>2, <2>4, <2>5 DEF Promise!Publish
  <2>q. QED
    BY <2>2, <2>6 DEF Promise!Next
<1>8. ASSUME NEW r \in Relays, PrunePublished(r) PROVE Promise!Next
  <2>1. PICK S \in SUBSET {e \in Events : status[e] = "PUBLISHED"} : Put(S, "PRUNED", 0, TRUE)
    BY <1>8 DEF PrunePublished
  <2>2. UNCHANGED delivered /\ \A e \in Events : status'[e] = IF e \in S THEN "PRUNED" ELSE status[e]
    BY <1>8, <2>1 DEF PrunePublished, Put
  <2>3. \A e \in Events : Outcome(e)' = IF e \in S THEN "PRUNED" ELSE Outcome(e)
    BY <1>01, <1>02, <2>2
  <2>4. Promise!Move(S, "PRUNED")
    BY <2>2, <2>3, MovesOutcome
  <2>5. S \in SUBSET Events /\ \A e \in S : Outcome(e) = "PUBLISHED"
    BY <1>0, OutcomeValues
  <2>6. Promise!Delete(S)
    BY <2>4, <2>5 DEF Promise!Delete
  <2>q. QED
    BY <2>5, <2>6 DEF Promise!Next
<1>q. QED
  BY <1>1, <1>2, <1>3, <1>4, <1>5, <1>6, <1>7, <1>8
     DEF Next, Work, Break, vars, rows, BackoffElapses, ClaimAges, Tick, ClaimNothing,
         DispatchFails, LoopDone, TickThrows, Crash, Stop, Halt, Start

(* The relays implement the promise: whatever they do, a producer sees an  *)
(* event that is owed until it was delivered to all or given up for good.  *)
THEOREM ImplementsPromise == Spec => KeepsPromise
<1>1. Init => Promise!Init
  BY DEF Init, Promise!Init, Outcome
<1>2. Init => BatchIsStored
  BY DEF Init, BatchIsStored
<1>3. IInv /\ BatchIsStored /\ [Next]_vars => BatchIsStored'
  BY BatchStaysStored
<1>4. IInv /\ BatchIsStored /\ [Next]_vars => [Promise!Next]_(Promise!vars)
  BY StepRefines
<1>q. QED
  BY <1>1, <1>2, <1>3, <1>4, Invariance, PTL DEF Spec, KeepsPromise, Promise!Spec
=============================================================================
