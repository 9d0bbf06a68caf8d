---------------------------- MODULE ScheduledRide ----------------------------
(***************************************************************************)
(* Bookings for later: the scheduled_rides row, the ride request parked    *)
(* behind it, the drivers' accept and decline, the customer's three ways   *)
(* of touching it (cancel the booking, cancel the request, boost the       *)
(* request) and the reminder sweep.                                        *)
(*                                                                         *)
(* Transactions run at READ COMMITTED and accept, decline and cancel read  *)
(* the row without locking it, so each is two steps here: the read with    *)
(* its checks, which leaves a call in flight, and the write, which commits *)
(* together with the event it publishes.  The request row is locked FOR    *)
(* UPDATE before it is read, so its operations are one step.               *)
(***************************************************************************)
EXTENDS Naturals, FiniteSets

CONSTANTS
    Bookings,   \* bookings, each with the ride request behind it
    Drivers,
    Workers,    \* processes that run the reminder job
    MaxCalls,   \* bound: accept, decline and cancel calls in flight at once
    None

VARIABLES
    status,     \* scheduled_rides.status; None before the booking exists
    driver,     \* scheduled_rides.driver_id
    marked,     \* scheduled_rides.reminder_sent_at is set
    when,       \* scheduled_for against now: far off, within 30 minutes, past
    request,    \* ride_requests.status; None before it exists
    expiry,     \* ride_requests.expires_at: unset, ahead of now, or past
    accepting,  \* calls between their read and their write
    declining,
    cancelling,
    lock,       \* Redis lock of the reminder job
    job,        \* the sweep each worker is running
    sent,       \* reminders published for a booking
    lost        \* reminders marked by a sweep that then failed

row    == <<status, driver>>
search == <<request, expiry>>
calls  == <<accepting, declining, cancelling>>
sweep  == <<lock, job, marked, sent, lost>>
vars   == <<row, search, calls, sweep, when>>

Status        == {"SCHEDULED", "ACCEPTED", "DECLINED", "CANCELLED"}
RequestStatus == {"CREATED", "SEARCHING", "MATCHED", "EXPIRED", "ABANDONED"}
Open          == {"CREATED", "SEARCHING"}

ASSUME NoneAssumption == None \notin Drivers \cup Workers \cup Status \cup RequestStatus

\* OFFERED is accepted by every check of the code and written by none of it.
CustomerOpen == {"SCHEDULED", "ACCEPTED"}

Calls       == Bookings \X Drivers
Cancels     == [booking : Bookings, saw : CustomerOpen, told : Drivers \cup {None}]
Due         == Bookings \X Drivers
Idle        == [at |-> "idle", due |-> {}, claimed |-> {}]
Running     == {"locked", "claiming"}
Sweeps      == [at : {"idle"} \cup Running, due : SUBSET Due, claimed : SUBSET Due]

TypeOK ==
    /\ status  \in [Bookings -> Status \cup {None}]
    /\ driver  \in [Bookings -> Drivers \cup {None}]
    /\ marked  \in [Bookings -> BOOLEAN]
    /\ when    \in [Bookings -> {"far", "near", "past"}]
    /\ request \in [Bookings -> RequestStatus \cup {None}]
    /\ expiry  \in [Bookings -> {"unset", "ahead", "past"}]
    /\ accepting  \subseteq Calls
    /\ declining  \subseteq Calls
    /\ cancelling \subseteq Cancels
    /\ lock \in Workers \cup {None}
    /\ job  \in [Workers -> Sweeps]
    /\ sent \in [Bookings -> Nat]
    /\ lost \in [Bookings -> BOOLEAN]

Init ==
    /\ status  = [b \in Bookings |-> None]
    /\ driver  = [b \in Bookings |-> None]
    /\ marked  = [b \in Bookings |-> FALSE]
    /\ when    \in [Bookings -> {"far", "near"}]
    /\ request = [b \in Bookings |-> None]
    /\ expiry  = [b \in Bookings |-> "unset"]
    /\ accepting = {} /\ declining = {} /\ cancelling = {}
    /\ lock = None
    /\ job  = [w \in Workers |-> Idle]
    /\ sent = [b \in Bookings |-> 0]
    /\ lost = [b \in Bookings |-> FALSE]

-----------------------------------------------------------------------------
(* The customer *)

\* The unique index of open requests leaves scheduled ones out: a customer may
\* hold any number of bookings.
Create(b) ==
    /\ request[b] = None
    /\ when[b] # "past"
    /\ request' = [request EXCEPT ![b] = "CREATED"]
    /\ expiry'  = [expiry EXCEPT ![b] = "unset"]
    /\ status'  = [status EXCEPT ![b] = "SCHEDULED"]
    /\ UNCHANGED <<driver, calls, sweep, when>>

BelowBound ==
    Cardinality(accepting) + Cardinality(declining) + Cardinality(cancelling) < MaxCalls

ReadToCancel(b) ==
    /\ BelowBound
    /\ status[b] \in CustomerOpen
    /\ cancelling' = cancelling \cup {[booking |-> b, saw |-> status[b], told |-> driver[b]]}
    /\ UNCHANGED <<row, search, accepting, declining, sweep, when>>

\* The status claim: the row still has the status that was read.
StillAs(c) == status[c.booking] = c.saw

CommitCancel(c) ==
    /\ StillAs(c)
    /\ status' = [status EXCEPT ![c.booking] = "CANCELLED"]
    /\ request' = IF request[c.booking] \in Open
                  THEN [request EXCEPT ![c.booking] = "ABANDONED"]
                  ELSE request
    /\ cancelling' = cancelling \ {c}
    /\ UNCHANGED <<driver, expiry, accepting, declining, sweep, when>>

\* SCHEDULED_RIDE_CONFLICT rolls the transaction back.
ConflictCancel(c) ==
    /\ ~StillAs(c)
    /\ cancelling' = cancelling \ {c}
    /\ UNCHANGED <<row, search, accepting, declining, sweep, when>>

\* Cancelling the request alone: the booking's row is not touched.
CancelRequest(b) ==
    /\ request[b] \in Open
    /\ request' = [request EXCEPT ![b] = "ABANDONED"]
    /\ UNCHANGED <<row, expiry, calls, sweep, when>>

BoostableAny(b) == request[b] # None  \* mutant of Boostable: closed requests too
Boostable(b) == request[b] \in Open

BoostRequest(b) ==
    /\ Boostable(b)
    /\ request' = [request EXCEPT ![b] = "SEARCHING"]
    /\ expiry'  = [expiry EXCEPT ![b] = "ahead"]
    /\ UNCHANGED <<row, calls, sweep, when>>

-----------------------------------------------------------------------------
(* The drivers *)

HeldByAnother(b, d) == driver[b] \notin {None, d}

ReadToAccept(b, d) ==
    /\ BelowBound
    /\ status[b] = "SCHEDULED"
    /\ ~HeldByAnother(b, d)
    /\ accepting' = accepting \cup {<<b, d>>}
    /\ UNCHANGED <<row, search, declining, cancelling, sweep, when>>

\* The update is by id alone.
CommitAccept(b, d) ==
    /\ <<b, d>> \in accepting
    /\ status' = [status EXCEPT ![b] = "ACCEPTED"]
    /\ driver' = [driver EXCEPT ![b] = d]
    /\ accepting' = accepting \ {<<b, d>>}
    /\ UNCHANGED <<search, declining, cancelling, sweep, when>>

ReadToDecline(b, d) ==
    /\ BelowBound
    /\ ~HeldByAnother(b, d)
    /\ status[b] \in CustomerOpen
    /\ declining' = declining \cup {<<b, d>>}
    /\ UNCHANGED <<row, search, accepting, cancelling, sweep, when>>

\* Mutant of CommitDecline: the driver stays on the row.
CommitDeclineKeeping(b, d) ==
    /\ <<b, d>> \in declining
    /\ status' = [status EXCEPT ![b] = "DECLINED"]
    /\ declining' = declining \ {<<b, d>>}
    /\ UNCHANGED <<driver, search, accepting, cancelling, sweep, when>>

CommitDecline(b, d) ==
    /\ <<b, d>> \in declining
    /\ status' = [status EXCEPT ![b] = "DECLINED"]
    /\ driver' = [driver EXCEPT ![b] = None]
    /\ declining' = declining \ {<<b, d>>}
    /\ UNCHANGED <<search, accepting, cancelling, sweep, when>>

-----------------------------------------------------------------------------
(* The request once a boost has sent it to dispatch, and the clock *)

\* A dispatched offer is accepted (RideDispatch has the offers).
Match(b) ==
    /\ expiry[b] # "unset"
    /\ request[b] \in Open
    /\ request' = [request EXCEPT ![b] = "MATCHED"]
    /\ UNCHANGED <<row, expiry, calls, sweep, when>>

ExpireRequest(b) ==
    /\ request[b] \in Open
    /\ expiry[b] = "past"
    /\ request' = [request EXCEPT ![b] = "EXPIRED"]
    /\ UNCHANGED <<row, expiry, calls, sweep, when>>

SearchRunsOut(b) ==
    /\ expiry[b] = "ahead"
    /\ expiry' = [expiry EXCEPT ![b] = "past"]
    /\ UNCHANGED <<row, request, calls, sweep, when>>

TimePasses(b) ==
    /\ \/ when[b] = "far"  /\ when' = [when EXCEPT ![b] = "near"]
       \/ when[b] = "near" /\ when' = [when EXCEPT ![b] = "past"]
    /\ UNCHANGED <<row, search, calls, sweep>>

-----------------------------------------------------------------------------
(* The reminder sweep *)

StartSweep(w) ==
    /\ job[w].at = "idle"
    /\ lock = None
    /\ lock' = w
    /\ job' = [job EXCEPT ![w].at = "locked"]
    /\ UNCHANGED <<row, search, calls, marked, sent, lost, when>>

DueReminders ==
    {<<b, driver[b]>> : b \in {c \in Bookings :
        status[c] = "ACCEPTED" /\ ~marked[c] /\ when[c] = "near" /\ driver[c] # None}}

ReadDue(w) ==
    /\ job[w].at = "locked"
    /\ job' = [job EXCEPT ![w] = [at |-> "claiming", due |-> DueReminders, claimed |-> {}]]
    /\ UNCHANGED <<row, search, calls, lock, marked, sent, lost, when>>

UnmarkedOrNot(b) == TRUE  \* mutant of Unmarked: the mark is not tested again
Unmarked(b) == ~marked[b]

\* One conditional update per row read; only a row it marked is kept.
ClaimReminder(w, b, d) ==
    /\ <<b, d>> \in job[w].due
    /\ job' = [job EXCEPT ![w].due = @ \ {<<b, d>>},
                          ![w].claimed = IF Unmarked(b) THEN @ \cup {<<b, d>>} ELSE @]
    /\ marked' = [marked EXCEPT ![b] = TRUE]
    /\ UNCHANGED <<row, search, calls, lock, sent, lost, when>>

PublishReminder(w, b, d) ==
    /\ job[w].due = {}
    /\ <<b, d>> \in job[w].claimed
    /\ sent' = [sent EXCEPT ![b] = @ + 1]
    /\ job' = [job EXCEPT ![w].claimed = @ \ {<<b, d>>}]
    /\ UNCHANGED <<row, search, calls, lock, marked, lost, when>>

Released(w) == IF lock = w THEN None ELSE lock

FinishSweep(w) ==
    /\ job[w].at = "claiming"
    /\ job[w].due = {} /\ job[w].claimed = {}
    /\ job' = [job EXCEPT ![w] = Idle]
    /\ lock' = Released(w)
    /\ UNCHANGED <<row, search, calls, marked, sent, lost, when>>

\* A statement throws (the job catches it and releases the lock) or the
\* process dies (the lock stays until it lapses): what was marked and not yet
\* published is forgotten.
FailSweep(w) ==
    /\ job[w].at \in Running
    /\ lost' = [b \in Bookings |-> lost[b] \/ \E d \in Drivers : <<b, d>> \in job[w].claimed]
    /\ job' = [job EXCEPT ![w] = Idle]
    /\ lock' \in {lock, Released(w)}
    /\ UNCHANGED <<row, search, calls, marked, sent, when>>

LapseLock ==
    /\ lock # None
    /\ lock' = None
    /\ UNCHANGED <<row, search, calls, job, marked, sent, lost, when>>

-----------------------------------------------------------------------------
CustomerStep ==
    \/ \E b \in Bookings :
        Create(b) \/ ReadToCancel(b) \/ CancelRequest(b) \/ BoostRequest(b)
    \/ \E c \in cancelling : CommitCancel(c) \/ ConflictCancel(c)

DriverStep ==
    \E b \in Bookings, d \in Drivers :
        \/ ReadToAccept(b, d)  \/ CommitAccept(b, d)
        \/ ReadToDecline(b, d) \/ CommitDecline(b, d)

SearchStep ==
    \E b \in Bookings :
        Match(b) \/ ExpireRequest(b) \/ SearchRunsOut(b) \/ TimePasses(b)

SweepStep ==
    \/ LapseLock
    \/ \E w \in Workers : StartSweep(w) \/ ReadDue(w) \/ FinishSweep(w) \/ FailSweep(w)
    \/ \E w \in Workers, b \in Bookings, d \in Drivers :
        ClaimReminder(w, b, d) \/ PublishReminder(w, b, d)

Next == CustomerStep \/ DriverStep \/ SearchStep \/ SweepStep

Spec == Init /\ [][Next]_vars

-----------------------------------------------------------------------------
(* Properties *)

Holds(w, b) == \E d \in Drivers : <<b, d>> \in job[w].claimed

\* A booking is accepted exactly when a driver is answerable for it, whatever
\* accepts and declines cross: an accepted booking names its driver, a booking
\* nobody took or that was declined names none (accept, decline).
DriverMatchesStatus ==
    \A b \in Bookings :
        /\ status[b] = "ACCEPTED" => driver[b] # None
        /\ status[b] \in {None, "SCHEDULED", "DECLINED"} => driver[b] = None

\* A cancelled booking leaves no search behind it: its request is not open,
\* and no boost, which races the cancel on the request's row, reopens it.
CancelledClosesRequest ==
    \A b \in Bookings : status[b] = "CANCELLED" => request[b] \notin Open

\* A reminder is sent at most once although the Redis lock may lapse under a
\* running sweep: a mark stands for one reminder, which one sweep still holds,
\* or was published once, or was lost with the sweep that made the mark.
OneReminderPerMark ==
    \A b \in Bookings :
        /\ ~marked[b] => sent[b] = 0 /\ ~lost[b] /\ \A w \in Workers : ~Holds(w, b)
        /\ sent[b] \in {0, 1}
        /\ sent[b] = 1 => ~lost[b] /\ \A w \in Workers : ~Holds(w, b)
        /\ lost[b] => \A w \in Workers : ~Holds(w, b)
        /\ \A w, x \in Workers : Holds(w, b) /\ Holds(x, b) => w = x
        /\ marked[b] => sent[b] = 1 \/ lost[b] \/ \E w \in Workers : Holds(w, b)

\* The customer's cancel only ever closes a booking that is open when it
\* commits: a decline that lands between its read and its claim is kept.
CancelKeepsDecline ==
    [][\A b \in Bookings :
        status'[b] = "CANCELLED" => status[b] \in CustomerOpen \cup {"CANCELLED"}]_vars
=============================================================================
