------------------------------ MODULE Notification ------------------------------
(* One ride event told to one user: the row written for it, its delivery to   *)
(* each device of the user, the queue between them, and the two sweeps behind *)
(* them, one for rows that were never written and one for jobs that were      *)
(* never queued.                                                              *)
EXTENDS Naturals, FiniteSets, Sequences, SequencesExt

CONSTANTS
    Devices,     \* devices the user may have
    Runs,        \* slots of the delivery worker
    Writers,     \* dispatches of the event, and runs of the event sweep
    Nothing,     \* no device, no run
    Attempts,    \* NOTIFICATION_JOB_OPTIONS.attempts
    MaxSurprises \* bound on what goes wrong, and on what the user does meanwhile

ASSUME AttemptsAssumption == Attempts \in Nat \ {0}
ASSUME DevicesAssumption == IsFiniteSet(Devices)
ASSUME NothingAssumption == Nothing \notin Devices \cup Runs
ASSUME BoundAssumption == MaxSurprises \in Nat

VARIABLES
    offer,        \* the event is a ride offer, with a window of its own
    elapsed,      \* that window, or the delivery TTL of the class, is over
    published,    \* the relay marked the event PUBLISHED
    passed,       \* the event sweep moved its cursor past the event without a row
    notification, \* status of the row, "none" while there is no row
    delivery,     \* its delivery rows
    reachable,    \* devices with a push token that are not revoked
    job,          \* the job of that id in the queue
    late,         \* an add that was abandoned may still reach the queue
    writer,       \* where each writer is
    run,          \* where each slot of the worker is
    pushed,       \* devices the provider pushed to
    disturbed,    \* a run was overtaken, died or never heard the provider
    surprises     \* how often something of either kind happened

queue == <<job, late>>
event == <<published, passed>>
rows == <<notification, delivery>>
world == <<offer, elapsed, reachable>>
vars == <<offer, elapsed, published, passed, notification, delivery, reachable,
          job, late, writer, run, pushed, disturbed, surprises>>

Idle == [at |-> "idle", found |-> {}, todo |-> {}, fit |-> {}, row |-> 0,
         attempt |-> 0, answer |-> "none", lapsed |-> FALSE, again |-> FALSE,
         verdict |-> "open"]

Missing == [state |-> "missing", made |-> 0, stalls |-> 0, owner |-> Nothing]

Added == [Missing EXCEPT !.state = "waiting"]

\* waiting stands for every state in which the job still is to run.
Live == {"waiting", "active"}

Init ==
    /\ offer \in BOOLEAN
    /\ elapsed = FALSE
    /\ published = FALSE /\ passed = FALSE
    /\ notification = "none" /\ delivery = <<>>
    /\ reachable = Devices
    /\ job = Missing /\ late = FALSE
    /\ writer = [w \in Writers |-> [at |-> "idle", recovering |-> FALSE]]
    /\ run = [r \in Runs |-> Idle]
    /\ pushed = {} /\ disturbed = FALSE
    /\ surprises = 0

Surprise == surprises < MaxSurprises /\ surprises' = surprises + 1

-----------------------------------------------------------------------------
(* The rows. *)

Queued(ds) == {i \in DOMAIN ds : ds[i].status = "QUEUED"}

\* The lease and the attempts of a delivery that ended are never read again.
Ended(d, status) == [d EXCEPT !.status = status, !.attempts = 0, !.leased = FALSE]

(* Mutant of Finalized: whatever the delivery is by now. *)
FinalizedAnyway(ds, i, status) == [ds EXCEPT ![i] = Ended(ds[i], status)]

\* finalizeDelivery: only from QUEUED.
Finalized(ds, i, status) ==
    IF ds[i].status = "QUEUED" THEN [ds EXCEPT ![i] = Ended(ds[i], status)] ELSE ds

(* Mutant of Released: whoever claimed the delivery meanwhile. *)
ReleasedAnyway(ds, i, attempt) ==
    IF ds[i].status = "QUEUED" THEN [ds EXCEPT ![i].leased = FALSE] ELSE ds

\* releaseDelivery: only while nobody claimed the delivery again.
Released(ds, i, attempt) ==
    IF ds[i].status = "QUEUED" /\ ds[i].attempts = attempt
    THEN [ds EXCEPT ![i].leased = FALSE] ELSE ds

\* failQueuedDeliveries
QueuedFailed(ds) == [i \in DOMAIN ds |-> IF i \in Queued(ds) THEN Ended(ds[i], "FAILED") ELSE ds[i]]

\* What settleNotification makes of the deliveries it read,
VerdictOf(ds) ==
    CASE \E i \in DOMAIN ds : ds[i].status = "SENT" -> "SENT"
      [] \A i \in DOMAIN ds : ds[i].status = "FAILED" -> "FAILED"
      [] OTHER -> "open"

\* and its conditional write.
SettledAs(status, verdict) ==
    CASE verdict = "SENT" /\ status \in {"QUEUED", "FAILED"} -> "SENT"
      [] verdict = "FAILED" /\ status = "QUEUED" -> "FAILED"
      [] OTHER -> status

Row(d) == [device |-> d, status |-> "QUEUED", attempts |-> 0, leased |-> FALSE]

\* planDeviceDeliveries: the first run that finds devices binds the one row
\* there is to the first of them, and adds a row for each of the others.
Planned(ds, found) ==
    LET bound == \E i \in DOMAIN ds : ds[i].device # Nothing
        first == SetToSeq(found)[1]
    IN  IF ~bound /\ Queued(ds) # {} /\ found # {}
        THEN [ds EXCEPT ![1].device = first]
             \o [i \in 1..Cardinality(found) - 1 |-> Row(SetToSeq(found)[i + 1])]
        ELSE ds

-----------------------------------------------------------------------------
(* Writing the notification: the consumer of the outbox, and the sweep over   *)
(* published events, with the same writer.                                    *)

\* The writer is done; the event sweep gave the event up if it is unwritable.
Return(w, unwritable) ==
    /\ writer' = [writer EXCEPT ![w] = [at |-> "idle", recovering |-> FALSE]]
    /\ published' = (published \/ ~writer[w].recovering)
    /\ passed' = (passed \/ (writer[w].recovering /\ unwritable))

\* The relay dispatches an event at least once before it is published.
Dispatch(w) ==
    /\ ~published /\ writer[w].at = "idle"
    /\ writer' = [writer EXCEPT ![w].at = "write"]
    /\ UNCHANGED <<world, event, rows, queue, run, pushed, disturbed, surprises>>

\* Offers are not recovered; of an event that has its row only the cursor moves.
Recover(w) ==
    /\ published /\ ~passed /\ ~offer /\ writer[w].at = "idle" /\ notification = "none"
    /\ IF elapsed
       THEN passed' = TRUE /\ UNCHANGED writer
       ELSE /\ writer' = [writer EXCEPT ![w] = [at |-> "write", recovering |-> TRUE]]
            /\ UNCHANGED passed
    /\ UNCHANGED <<world, published, rows, queue, run, pushed, disturbed, surprises>>

\* createNotificationWithDelivery: one row for a key, whoever else writes it.
Write(w) ==
    /\ writer[w].at = "write"
    /\ IF notification = "none"
       THEN /\ notification' = "QUEUED"
            /\ delivery' = <<Row(Nothing)>>
            /\ writer' = [writer EXCEPT ![w].at = IF offer THEN "judge" ELSE "enqueue"]
            /\ UNCHANGED event
       ELSE Return(w, FALSE) /\ UNCHANGED rows
    /\ UNCHANGED <<world, queue, run, pushed, disturbed, surprises>>

\* The insert fails: the consumer swallows it; the sweep passes the event over
\* if the failure is permanent, and starts with it again otherwise.
WriteFails(w) ==
    /\ writer[w].at = "write" /\ Surprise
    /\ \E permanent \in BOOLEAN : Return(w, permanent)
    /\ UNCHANGED <<world, rows, queue, run, pushed, disturbed>>

\* An offer whose window closed meanwhile is settled, not queued.
Judge(w) ==
    /\ writer[w].at = "judge"
    /\ writer' = [writer EXCEPT ![w].at = IF elapsed THEN "expire" ELSE "enqueue"]
    /\ delivery' = IF elapsed THEN [delivery EXCEPT ![1].status = "FAILED"] ELSE delivery
    /\ UNCHANGED <<world, event, notification, queue, run, pushed, disturbed, surprises>>

ExpireOffer(w) ==
    /\ writer[w].at = "expire"
    /\ notification' = "FAILED"
    /\ Return(w, FALSE)
    /\ UNCHANGED <<world, delivery, queue, run, pushed, disturbed, surprises>>

\* The queue ignores a second job of an id it still has.
AddTo(j) == IF j.state = "missing" THEN Added ELSE j

Enqueue(w) ==
    /\ writer[w].at = "enqueue"
    /\ job' = AddTo(job)
    /\ Return(w, FALSE)
    /\ UNCHANGED <<world, rows, late, run, pushed, disturbed, surprises>>

\* It fails, or does not answer within ENQUEUE_TIMEOUT_MS and may land later.
EnqueueFails(w) ==
    /\ writer[w].at = "enqueue" /\ Surprise
    /\ late' \in {late, TRUE}
    /\ Return(w, FALSE)
    /\ UNCHANGED <<world, rows, job, run, pushed, disturbed>>

CrashWriter(w) ==
    /\ writer[w].at # "idle" /\ Surprise
    /\ writer' = [writer EXCEPT ![w] = [at |-> "idle", recovering |-> FALSE]]
    /\ UNCHANGED <<world, event, rows, queue, run, pushed, disturbed>>

\* An abandoned add reaches the queue, or dies with its process.
LateAdd ==
    /\ late /\ late' = FALSE
    /\ job' \in {job, AddTo(job)}
    /\ UNCHANGED <<world, event, rows, writer, run, pushed, disturbed, surprises>>

-----------------------------------------------------------------------------
(* The delivery job. *)

StartRun(r) ==
    /\ run[r].at = "idle" /\ job.state = "waiting"
    /\ job' = [job EXCEPT !.state = "active", !.owner = r]
    /\ run' = [run EXCEPT ![r] = [Idle EXCEPT !.at = "plan", !.found = reachable]]
    /\ UNCHANGED <<world, event, rows, late, writer, pushed, disturbed, surprises>>

\* The queue takes a result only from the run it still counts as the owner.
Completed(r) == IF job.owner = r THEN [job EXCEPT !.state = "completed", !.owner = Nothing] ELSE job

\* The plan, under the row's lock, and which devices can be pushed to now.
Plan(r) ==
    LET ds == Planned(delivery, run[r].found)
        fit == {i \in Queued(ds) : ds[i].device \in reachable}
    IN  /\ run[r].at = "plan"
        /\ delivery' = ds
        /\ IF Queued(ds) = {}
           THEN run' = [run EXCEPT ![r] = Idle] /\ job' = Completed(r)
           ELSE /\ run' = [run EXCEPT ![r].at = "each", ![r].todo = Queued(ds),
                                      ![r].fit = fit, ![r].found = {}]
                /\ UNCHANGED job
        /\ UNCHANGED <<world, event, notification, late, writer, pushed, disturbed, surprises>>

Skipped(r, i, busy) ==
    [run EXCEPT ![r].todo = @ \ {i}, ![r].fit = @ \ {i}, ![r].again = @ \/ busy]

\* Deliveries are taken in the order of their creation.
Upcoming(r) == {i \in run[r].todo : \A j \in run[r].todo : i <= j}

\* The device lost its token, no device was found, or the offer is over.
FailDelivery(r) ==
    \E i \in Upcoming(r) :
        /\ run[r].at = "each"
        /\ i \notin run[r].fit \/ (offer /\ elapsed)
        /\ delivery' = Finalized(delivery, i, "FAILED")
        /\ run' = Skipped(r, i, FALSE)
        /\ UNCHANGED <<world, event, notification, queue, writer, pushed, disturbed, surprises>>

\* A delivery another attempt finished is skipped; one whose lease another
\* attempt holds makes this one fail, to be tried again.
Claimable(i) == delivery[i].status = "QUEUED" /\ ~delivery[i].leased

ClaimDelivery(r) ==
    \E i \in Upcoming(r) \cap run[r].fit :
        /\ run[r].at = "each" /\ ~(offer /\ elapsed)
        /\ IF Claimable(i)
           THEN /\ delivery' = [delivery EXCEPT ![i].attempts = @ + 1, ![i].leased = TRUE]
                /\ run' = [run EXCEPT ![r].at = "send", ![r].row = i, ![r].lapsed = FALSE,
                                      ![r].attempt = delivery[i].attempts + 1]
           ELSE /\ run' = Skipped(r, i, delivery[i].status = "QUEUED")
                /\ UNCHANGED delivery
        /\ UNCHANGED <<world, event, notification, queue, writer, pushed, disturbed, surprises>>

\* The provider's answer: it pushes, refuses the token or the payload for good,
\* fails for now, or the call throws, perhaps after the push.
SendPush(r) ==
    /\ run[r].at = "send"
    /\ \E answer \in {"accepted", "refused", "failed", "threw"}, unheard \in BOOLEAN :
          /\ unheard => answer = "threw" /\ Surprise
          /\ ~unheard => UNCHANGED surprises
          /\ run' = [run EXCEPT ![r].at = "record", ![r].answer = answer]
          /\ pushed' = IF answer = "accepted" \/ unheard
                       THEN pushed \cup {delivery[run[r].row].device} ELSE pushed
          /\ disturbed' = (disturbed \/ unheard)
    /\ UNCHANGED <<world, event, rows, queue, writer>>

\* What the run does with it; an exception leaves the other devices untried.
RecordAnswer(r) ==
    LET i == run[r].row
        answer == run[r].answer
    IN  /\ run[r].at = "record"
        /\ delivery' = CASE answer = "accepted" -> Finalized(delivery, i, "SENT")
                         [] answer = "refused" -> Finalized(delivery, i, "FAILED")
                         [] OTHER -> Released(delivery, i, run[r].attempt)
        /\ run' = [run EXCEPT ![r].at = "each", ![r].row = 0, ![r].attempt = 0,
                              ![r].answer = "none", ![r].lapsed = FALSE,
                              ![r].again = @ \/ answer \in {"failed", "threw"},
                              ![r].todo = IF answer = "threw" THEN {} ELSE @ \ {i},
                              ![r].fit = IF answer = "threw" THEN {} ELSE @ \ {i}]
        /\ UNCHANGED <<world, event, notification, queue, writer, pushed, disturbed, surprises>>

\* settleNotification reads the deliveries,
ReadDeliveries(r) ==
    /\ run[r].at = "each" /\ run[r].todo = {} /\ VerdictOf(delivery) # "open"
    /\ run' = [run EXCEPT ![r].at = "settle", ![r].verdict = VerdictOf(delivery)]
    /\ UNCHANGED <<world, event, rows, queue, writer, pushed, disturbed, surprises>>

\* and writes what it concluded.
Settle(r) ==
    /\ run[r].at = "settle"
    /\ notification' = SettledAs(notification, run[r].verdict)
    /\ run' = [run EXCEPT ![r].at = "end", ![r].verdict = "open"]
    /\ UNCHANGED <<world, event, delivery, queue, writer, pushed, disturbed, surprises>>

\* The run ends, settled or with nothing to settle yet: the job is done, to be
\* tried again, or out of attempts.
EndRun(r) ==
    LET last == job.made + 1 >= Attempts
    IN  /\ \/ run[r].at = "end"
           \/ run[r].at = "each" /\ run[r].todo = {} /\ VerdictOf(delivery) = "open"
        /\ IF job.owner = r /\ run[r].again
           THEN /\ job' = [job EXCEPT !.made = @ + 1, !.owner = Nothing,
                                      !.state = IF last THEN "failed" ELSE "waiting"]
                /\ run' = [run EXCEPT ![r] = IF last THEN [Idle EXCEPT !.at = "exhaust"] ELSE Idle]
           ELSE /\ job' = Completed(r)
                /\ run' = [run EXCEPT ![r] = Idle]
        /\ UNCHANGED <<world, event, rows, late, writer, pushed, disturbed, surprises>>

\* markExhausted fails what is still queued, and settles.
MarkExhausted(r) ==
    /\ run[r].at = "exhaust"
    /\ delivery' = QueuedFailed(delivery)
    /\ run' = [run EXCEPT ![r].at = "each"]
    /\ UNCHANGED <<world, event, notification, queue, writer, pushed, disturbed, surprises>>

\* The queue puts back, once, the job of a run it lost sight of.
Stalled(r) ==
    CASE job.owner # r -> job
      [] job.owner = r /\ job.stalls = 0 -> [job EXCEPT !.state = "waiting", !.stalls = 1, !.owner = Nothing]
      [] OTHER -> [job EXCEPT !.state = "failed", !.owner = Nothing]

\* The run is still there, and goes on,
Stall(r) ==
    /\ job.owner = r /\ Surprise
    /\ job' = Stalled(r)
    /\ disturbed' = TRUE
    /\ UNCHANGED <<world, event, rows, late, writer, run, pushed>>

\* or it died.
Crash(r) ==
    /\ run[r].at # "idle" /\ Surprise
    /\ job' = Stalled(r)
    /\ run' = [run EXCEPT ![r] = Idle]
    /\ disturbed' = TRUE
    /\ UNCHANGED <<world, event, rows, late, writer, pushed>>

\* SEND_LEASE_SECONDS pass: under a run that is still sending, or one that died.
LeaseExpires ==
    \E i \in DOMAIN delivery :
        LET under == {r \in Runs : run[r].row = i /\ run[r].attempt = delivery[i].attempts}
        IN  /\ delivery[i].status = "QUEUED" /\ delivery[i].leased
            /\ IF under = {} THEN UNCHANGED surprises ELSE Surprise
            /\ delivery' = [delivery EXCEPT ![i].leased = FALSE]
            /\ run' = [r \in Runs |-> IF r \in under THEN [run[r] EXCEPT !.lapsed = TRUE] ELSE run[r]]
            /\ disturbed' = (disturbed \/ under # {})
            /\ UNCHANGED <<world, event, notification, queue, writer, pushed>>

-----------------------------------------------------------------------------
(* The sweep over queued rows (PA-11). It decides under the row's lock, which  *)
(* plans and settlements wait for; what a send or the queue itself changes     *)
(* meanwhile leads it to the same decision, so that it is one step.            *)

\* It looks at rows older than RECONCILE_STALE_AFTER_MS, by which an offer is over.
Stale == notification = "QUEUED" /\ (offer => elapsed)

Open == Queued(delivery) # {}

\* A job that failed, or a row that expired: nothing more is sent.
GivenUp == job.state = "failed" \/ (Open /\ elapsed)

(* Mutant of SweepSettles: a row with nothing queued is somebody else's. *)
SweepSettlesQueued ==
    LET ds == QueuedFailed(delivery)
    IN  /\ Stale /\ job.state \notin Live /\ Open /\ GivenUp
        /\ delivery' = ds
        /\ notification' = SettledAs(notification, VerdictOf(ds))
        /\ UNCHANGED <<world, event, queue, writer, run, pushed, disturbed, surprises>>

\* What is given up fails; a row with nothing queued is settled.
SweepSettles ==
    LET ds == IF GivenUp THEN QueuedFailed(delivery) ELSE delivery
    IN  /\ Stale /\ job.state \notin Live
        /\ GivenUp \/ ~Open
        /\ delivery' = ds
        /\ notification' = SettledAs(notification, VerdictOf(ds))
        /\ UNCHANGED <<world, event, queue, writer, run, pushed, disturbed, surprises>>

\* The rest is queued again, in the place of a record that completed.
SweepRequeues ==
    /\ Stale /\ job.state \notin Live
    /\ Open /\ ~GivenUp
    /\ job' = Added
    /\ UNCHANGED <<world, event, rows, late, writer, run, pushed, disturbed, surprises>>

\* The queue does not answer: the transaction is rolled back, and the job may
\* land later.
SweepAborts ==
    /\ Stale /\ job.state = "missing" /\ Open /\ ~GivenUp /\ Surprise
    /\ late' = TRUE
    /\ UNCHANGED <<world, event, rows, job, writer, run, pushed, disturbed>>

-----------------------------------------------------------------------------
(* The user, his devices and the clock. *)

MarkRead ==
    /\ notification \in {"QUEUED", "SENT", "FAILED"} /\ Surprise
    /\ notification' = "READ"
    /\ UNCHANGED <<offer, elapsed, reachable, event, delivery, queue, writer, run, pushed, disturbed>>

ChangeDevice(d) ==
    /\ Surprise
    /\ reachable' = IF d \in reachable THEN reachable \ {d} ELSE reachable \cup {d}
    /\ UNCHANGED <<offer, elapsed, event, rows, queue, writer, run, pushed, disturbed>>

\* Nobody looks at the TTL of another notification while its job is live.
Elapse ==
    /\ ~elapsed /\ (offer \/ job.state \notin Live)
    /\ elapsed' = TRUE
    /\ UNCHANGED <<offer, reachable, event, rows, queue, writer, run, pushed, disturbed, surprises>>

-----------------------------------------------------------------------------
Writing(w) == Recover(w) \/ Write(w) \/ Judge(w) \/ ExpireOffer(w) \/ Enqueue(w)

Running(r) ==
    \/ Plan(r) \/ FailDelivery(r) \/ ClaimDelivery(r) \/ SendPush(r) \/ RecordAnswer(r)
    \/ ReadDeliveries(r) \/ Settle(r) \/ EndRun(r) \/ MarkExhausted(r)

Sweeping == SweepSettles \/ SweepRequeues

Next ==
    \/ \E w \in Writers : \/ Dispatch(w) \/ Writing(w) \/ WriteFails(w)
                          \/ EnqueueFails(w) \/ CrashWriter(w)
    \/ \E r \in Runs : StartRun(r) \/ Running(r) \/ Stall(r) \/ Crash(r)
    \/ Sweeping \/ SweepAborts \/ LateAdd \/ LeaseExpires
    \/ MarkRead \/ Elapse \/ \E d \in Devices : ChangeDevice(d)

Spec == Init /\ [][Next]_vars

(* The relay, the queue and the sweeps keep running, leases run out and the    *)
(* window of an offer closes; the TTL of another notification need not.        *)
FairSpec ==
    /\ Spec
    /\ \A w \in Writers : WF_vars(Dispatch(w)) /\ WF_vars(Writing(w))
    /\ WF_vars(\E r \in Runs : StartRun(r))
    /\ \A r \in Runs : WF_vars(Running(r))
    /\ WF_vars(LeaseExpires) /\ WF_vars(Sweeping) /\ WF_vars(offer /\ Elapse)

-----------------------------------------------------------------------------
Deliveries ==
    [device : Devices \cup {Nothing}, status : {"QUEUED", "SENT", "FAILED"},
     attempts : Nat, leased : BOOLEAN]

RunStates ==
    [at : {"idle", "plan", "each", "send", "record", "settle", "end", "exhaust"},
     found : SUBSET Devices, todo : SUBSET Nat, fit : SUBSET Nat, row : Nat, attempt : Nat,
     answer : {"none", "accepted", "refused", "failed", "threw"},
     lapsed : BOOLEAN, again : BOOLEAN, verdict : {"open", "SENT", "FAILED"}]

WriterStates == [at : {"idle", "write", "judge", "expire", "enqueue"}, recovering : BOOLEAN]

JobStates ==
    [state : {"missing", "waiting", "active", "completed", "failed"},
     made : Nat, stalls : 0..1, owner : Runs \cup {Nothing}]

TypeOK ==
    /\ offer \in BOOLEAN /\ elapsed \in BOOLEAN /\ published \in BOOLEAN /\ passed \in BOOLEAN
    /\ notification \in {"none", "QUEUED", "SENT", "FAILED", "READ"}
    /\ delivery \in Seq(Deliveries)
    /\ reachable \in SUBSET Devices /\ pushed \in SUBSET Devices
    /\ job \in JobStates
    /\ writer \in [Writers -> WriterStates]
    /\ run \in [Runs -> RunStates]
    /\ late \in BOOLEAN /\ disturbed \in BOOLEAN /\ surprises \in Nat

\* Until its lease runs out under it, nobody claims the delivery a run is
\* sending: not a retry, a stalled job started again, nor a run let in by the
\* release of another run that was overtaken before.
ClaimIsExclusive ==
    \A r \in Runs : run[r].at \in {"send", "record"} /\ ~run[r].lapsed =>
        LET d == delivery[run[r].row]
        IN  d.status = "QUEUED" => d.leased /\ d.attempts = run[r].attempt

\* The row says what became of its deliveries, although it is written after
\* they were read, and a delivery says what became of its push, unless a run was
\* overtaken, died or did not hear the provider: each device has one delivery.
StatusTellsDelivery ==
    /\ notification = "SENT" => \E i \in DOMAIN delivery : delivery[i].status = "SENT"
    /\ notification = "FAILED" => \A i \in DOMAIN delivery : delivery[i].status = "FAILED"
    /\ \A i \in DOMAIN delivery :
          /\ delivery[i].status = "SENT" => delivery[i].device \in pushed
          /\ delivery[i].status = "FAILED" /\ delivery[i].device \in pushed => disturbed
          /\ \A j \in DOMAIN delivery : delivery[i].device = delivery[j].device => i = j

\* An event that was published ends in a row that is sent, failed or read,
\* unless it could never be written: whatever insert, add, lease, run or sweep
\* is lost on the way.
EveryNotificationSettles ==
    published ~> \/ notification \in {"SENT", "FAILED", "READ"}
                 \/ notification = "none" /\ (offer \/ passed)
=============================================================================
