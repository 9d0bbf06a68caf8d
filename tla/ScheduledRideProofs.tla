------------------------- MODULE ScheduledRideProofs -------------------------
(***************************************************************************)
(* Safety for any number of bookings, drivers, sweeps and calls in flight. *)
(* The booking and its request are one half of the invariant, the reminder *)
(* sweep the other: no step writes both.                                   *)
(***************************************************************************)
EXTENDS ScheduledRide, TLAPS

BookingHasRequest == \A b \in Bookings : request[b] = None <=> status[b] = None

CallsAreOnBookings ==
    \A b \in Bookings, d \in Drivers :
        <<b, d>> \in accepting \cup declining => request[b] # None

OneDriverPerReminder ==
    \A w \in Workers, b \in Bookings, d, e \in Drivers :
        <<b, d>> \in job[w].claimed /\ <<b, e>> \in job[w].claimed => d = e

QuietHoldsNothing ==
    \A w \in Workers : job[w].at # "claiming" => job[w].due = {} /\ job[w].claimed = {}

BookingInv ==
    /\ BookingHasRequest
    /\ CallsAreOnBookings
    /\ DriverMatchesStatus
    /\ CancelledClosesRequest

SweepInv ==
    /\ OneDriverPerReminder
    /\ QuietHoldsNothing
    /\ OneReminderPerMark

IInv == TypeOK /\ BookingInv /\ SweepInv

(* The initial state: no booking, no call, no sweep. *)
LEMMA InitEstablishes == Init => IInv
<1> SUFFICES ASSUME Init PROVE IInv
  OBVIOUS
<1>1. TypeOK
  BY DEF Init, TypeOK, Idle, Sweeps
<1>2. BookingInv
  BY NoneAssumption
     DEF Init, BookingInv, BookingHasRequest, CallsAreOnBookings, DriverMatchesStatus,
         CancelledClosesRequest, Open, Status, RequestStatus
<1>3. SweepInv
  BY DEF Init, Idle, SweepInv, OneDriverPerReminder, QuietHoldsNothing, OneReminderPerMark, Holds
<1>q. QED
  BY <1>1, <1>2, <1>3 DEF IInv

(* The types of what the sweeps keep, from each step of theirs. *)
LEMMA SweepKeepsTypes ==
  ASSUME TypeOK, SweepStep
  PROVE  TypeOK'
<1> USE NoneAssumption DEF TypeOK
<1>0. UNCHANGED <<row, search, calls, when>>
  BY DEF SweepStep, StartSweep, ReadDue, FinishSweep, FailSweep, ClaimReminder,
         PublishReminder, LapseLock
<1>1. UNCHANGED <<status, driver, when, request, expiry, accepting, declining, cancelling>>
  BY <1>0 DEF row, search, calls
<1>2. CASE LapseLock
  BY <1>1, <1>2 DEF LapseLock
<1>3. ASSUME NEW w \in Workers, StartSweep(w) PROVE TypeOK'
  <2>1. job'[w] \in Sweeps /\ job' \in [Workers -> Sweeps]
    BY <1>3 DEF StartSweep, Sweeps, Running
  <2>q. QED
    BY <1>1, <1>3, <2>1 DEF StartSweep
<1>4. ASSUME NEW w \in Workers, ReadDue(w) PROVE TypeOK'
  <2>1. DueReminders \subseteq Due
    BY DEF DueReminders, Due
  <2>q. QED
    BY <1>1, <1>4, <2>1 DEF ReadDue, Sweeps, Running
<1>5. ASSUME NEW w \in Workers, FinishSweep(w) PROVE TypeOK'
  BY <1>1, <1>5 DEF FinishSweep, Released, Idle, Sweeps
<1>6. ASSUME NEW w \in Workers, FailSweep(w) PROVE TypeOK'
  BY <1>1, <1>6 DEF FailSweep, Released, Idle, Sweeps
<1>7. ASSUME NEW w \in Workers, NEW b \in Bookings, NEW d \in Drivers, ClaimReminder(w, b, d)
      PROVE  TypeOK'
  <2>1. job' \in [Workers -> Sweeps]
    <3>1. job[w] \in Sweeps /\ <<b, d>> \in Due
      BY DEF Due
    <3>2. job'[w] = [job[w] EXCEPT !.due = @ \ {<<b, d>>},
                                   !.claimed = IF Unmarked(b) THEN @ \cup {<<b, d>>} ELSE @]
      BY <1>7 DEF ClaimReminder
    <3>3. job'[w] = [at |-> job[w].at, due |-> job'[w].due, claimed |-> job'[w].claimed]
      BY <3>1, <3>2 DEF Sweeps
    <3>4. job'[w].due \subseteq Due /\ job'[w].claimed \subseteq Due
      <4>1. job[w].due \subseteq Due /\ job[w].claimed \subseteq Due
        BY <3>1 DEF Sweeps
      <4>2. job'[w].due = job[w].due \ {<<b, d>>}
            /\ job'[w].claimed \in {job[w].claimed, job[w].claimed \cup {<<b, d>>}}
        BY <3>1, <3>2 DEF Sweeps
      <4>q. QED
        BY <3>1, <4>1, <4>2
    <3>5. job'[w] \in Sweeps
      BY <3>1, <3>3, <3>4 DEF Sweeps
    <3>q. QED
      BY <1>7, <3>5 DEF ClaimReminder
  <2>q. QED
    BY <1>1, <1>7, <2>1 DEF ClaimReminder
<1>8. ASSUME NEW w \in Workers, NEW b \in Bookings, NEW d \in Drivers, PublishReminder(w, b, d)
      PROVE  TypeOK'
  <2>1. job' \in [Workers -> Sweeps]
    BY <1>8 DEF PublishReminder, Sweeps, Due
  <2>q. QED
    BY <1>1, <1>8, <2>1 DEF PublishReminder
<1>q. QED
  BY <1>2, <1>3, <1>4, <1>5, <1>6, <1>7, <1>8 DEF SweepStep

(* The types of the booking, its request and the calls, from every step of *)
(* the customer, the drivers, dispatch and the clock.                      *)
LEMMA BookingKeepsTypes ==
  ASSUME TypeOK, CustomerStep \/ DriverStep \/ SearchStep
  PROVE  TypeOK' /\ UNCHANGED sweep
<1> USE DEF TypeOK, row, search, calls
<1>1. UNCHANGED sweep
  BY DEF CustomerStep, DriverStep, SearchStep, Create, ReadToCancel, CommitCancel,
         ConflictCancel, CancelRequest, BoostRequest, ReadToAccept, CommitAccept,
         ReadToDecline, CommitDecline, Match, ExpireRequest, SearchRunsOut, TimePasses
<1>2. /\ marked' \in [Bookings -> BOOLEAN] /\ lock' \in Workers \cup {None}
      /\ job' \in [Workers -> Sweeps] /\ sent' \in [Bookings -> Nat]
      /\ lost' \in [Bookings -> BOOLEAN]
  BY <1>1 DEF sweep
<1>3. CASE CustomerStep
  <2>1. ASSUME NEW b \in Bookings, Create(b) PROVE TypeOK'
    BY <1>2, <2>1 DEF Create, Status, RequestStatus
  <2>2. ASSUME NEW b \in Bookings, ReadToCancel(b) PROVE TypeOK'
    BY <1>2, <2>2 DEF ReadToCancel, Cancels
  <2>3. ASSUME NEW b \in Bookings, CancelRequest(b) PROVE TypeOK'
    BY <1>2, <2>3 DEF CancelRequest, RequestStatus
  <2>4. ASSUME NEW b \in Bookings, BoostRequest(b) PROVE TypeOK'
    BY <1>2, <2>4 DEF BoostRequest, RequestStatus
  <2>5. ASSUME NEW c \in cancelling, CommitCancel(c) PROVE TypeOK'
    BY <1>2, <2>5 DEF CommitCancel, Cancels, Status, RequestStatus
  <2>6. ASSUME NEW c \in cancelling, ConflictCancel(c) PROVE TypeOK'
    BY <1>2, <2>6 DEF ConflictCancel
  <2>q. QED
    BY <1>1, <1>3, <2>1, <2>2, <2>3, <2>4, <2>5, <2>6 DEF CustomerStep
<1>4. CASE DriverStep
  <2>1. ASSUME NEW b \in Bookings, NEW d \in Drivers, ReadToAccept(b, d) PROVE TypeOK'
    BY <1>2, <2>1 DEF ReadToAccept, Calls
  <2>2. ASSUME NEW b \in Bookings, NEW d \in Drivers, CommitAccept(b, d) PROVE TypeOK'
    BY <1>2, <2>2 DEF CommitAccept, Status
  <2>3. ASSUME NEW b \in Bookings, NEW d \in Drivers, ReadToDecline(b, d) PROVE TypeOK'
    BY <1>2, <2>3 DEF ReadToDecline, Calls
  <2>4. ASSUME NEW b \in Bookings, NEW d \in Drivers, CommitDecline(b, d) PROVE TypeOK'
    BY <1>2, <2>4 DEF CommitDecline, Status
  <2>q. QED
    BY <1>1, <1>4, <2>1, <2>2, <2>3, <2>4 DEF DriverStep
<1>5. CASE SearchStep
  BY <1>1, <1>2, <1>5 DEF SearchStep, Match, ExpireRequest, SearchRunsOut, TimePasses, RequestStatus
<1>q. QED
  BY <1>1, <1>3, <1>4, <1>5

(* The booking's half: an answer in flight is about a booking that exists, *)
(* and a request that was closed is never opened again.                    *)
LEMMA BookingStepKeeps ==
  ASSUME TypeOK, BookingInv, CustomerStep \/ DriverStep \/ SearchStep
  PROVE  BookingInv'
<1> USE NoneAssumption
    DEF TypeOK, BookingInv, BookingHasRequest, CallsAreOnBookings, DriverMatchesStatus,
        CancelledClosesRequest, row, search, calls, Status, RequestStatus
<1>1. ASSUME NEW b \in Bookings, Create(b) PROVE BookingInv'
  BY <1>1 DEF Create, Open
<1>2. ASSUME NEW b \in Bookings, ReadToCancel(b) \/ CancelRequest(b) \/ BoostRequest(b)
      PROVE  BookingInv'
  BY <1>2 DEF ReadToCancel, CancelRequest, BoostRequest, Boostable, Open
<1>3. ASSUME NEW c \in cancelling, CommitCancel(c) PROVE BookingInv'
  <2>1. c.booking \in Bookings /\ status[c.booking] \in {"SCHEDULED", "ACCEPTED"}
    BY <1>3 DEF CommitCancel, StillAs, Cancels, CustomerOpen
  <2>2. /\ status' = [status EXCEPT ![c.booking] = "CANCELLED"]
        /\ request'[c.booking] \notin Open /\ request'[c.booking] # None
        /\ \A b \in Bookings : b # c.booking => request'[b] = request[b]
        /\ UNCHANGED <<driver, accepting, declining>>
    BY <1>3, <2>1 DEF CommitCancel, Open
  <2>q. QED
    BY <2>1, <2>2
<1>4. ASSUME NEW c \in cancelling, ConflictCancel(c) PROVE BookingInv'
  BY <1>4 DEF ConflictCancel
<1>5. ASSUME NEW b \in Bookings, NEW d \in Drivers, ReadToAccept(b, d) \/ ReadToDecline(b, d)
      PROVE  BookingInv'
  BY <1>5 DEF ReadToAccept, ReadToDecline, CustomerOpen
<1>6. ASSUME NEW b \in Bookings, NEW d \in Drivers, CommitAccept(b, d) PROVE BookingInv'
  BY <1>6 DEF CommitAccept
<1>7. ASSUME NEW b \in Bookings, NEW d \in Drivers, CommitDecline(b, d) PROVE BookingInv'
  BY <1>7 DEF CommitDecline
<1>8. CASE SearchStep
  BY <1>8 DEF SearchStep, Match, ExpireRequest, SearchRunsOut, TimePasses, Open
<1>q. QED
  BY <1>1, <1>2, <1>3, <1>4, <1>5, <1>6, <1>7, <1>8 DEF CustomerStep, DriverStep

(* A row is marked by the one sweep whose conditional update found it      *)
(* unmarked: nobody held, sent or lost its reminder before.                *)
LEMMA ClaimKeeps ==
  ASSUME TypeOK, SweepInv, NEW w \in Workers, NEW b \in Bookings, NEW d \in Drivers,
         ClaimReminder(w, b, d)
  PROVE  SweepInv'
<1> USE DEF TypeOK, SweepInv
<1>1. /\ job[w].at = "claiming" /\ job'[w].at = job[w].at
      /\ \A x \in Workers : x # w => job'[x] = job[x]
      /\ job'[w].claimed = IF marked[b] THEN job[w].claimed ELSE job[w].claimed \cup {<<b, d>>}
      /\ marked' = [marked EXCEPT ![b] = TRUE]
      /\ UNCHANGED <<sent, lost>>
  BY DEF ClaimReminder, Unmarked, QuietHoldsNothing, Sweeps
<1>2. QuietHoldsNothing'
  BY <1>1 DEF QuietHoldsNothing
<1>3. CASE marked[b]
  BY <1>1, <1>2, <1>3 DEF OneDriverPerReminder, OneReminderPerMark, Holds
<1>4. CASE ~marked[b]
  <2>1. \A x \in Workers, e \in Drivers : <<b, e>> \notin job[x].claimed
    BY <1>4 DEF OneReminderPerMark, Holds
  <2>2. OneDriverPerReminder'
    BY <1>1, <1>4, <2>1 DEF OneDriverPerReminder
  <2>3. \A x \in Workers, c \in Bookings : Holds(x, c)' <=> Holds(x, c) \/ (x = w /\ c = b)
    <3>1. \A c \in Bookings, e \in Drivers :
              <<c, e>> \in job'[w].claimed <=> <<c, e>> \in job[w].claimed \/ (c = b /\ e = d)
      BY <1>1, <1>4
    <3>2. \A x \in Workers, c \in Bookings, e \in Drivers :
              x # w => (<<c, e>> \in job'[x].claimed <=> <<c, e>> \in job[x].claimed)
      BY <1>1
    <3>q. QED
      BY <3>1, <3>2 DEF Holds
  <2>4. sent[b] = 0 /\ ~lost[b] /\ \A x \in Workers : ~Holds(x, b)
    BY <1>4 DEF OneReminderPerMark
  <2>5. OneReminderPerMark'
    BY <1>1, <2>3, <2>4 DEF OneReminderPerMark
  <2>q. QED
    BY <1>2, <2>2, <2>5
<1>q. QED
  BY <1>3, <1>4

(* A published reminder was held by one sweep, and by none afterwards.     *)
LEMMA PublishKeeps ==
  ASSUME TypeOK, SweepInv, NEW w \in Workers, NEW b \in Bookings, NEW d \in Drivers,
         PublishReminder(w, b, d)
  PROVE  SweepInv'
<1> USE DEF TypeOK, SweepInv
<1>1. /\ job[w].at = "claiming" /\ job'[w].at = job[w].at
      /\ \A x \in Workers : x # w => job'[x] = job[x]
      /\ job'[w].due = job[w].due
      /\ job'[w].claimed = job[w].claimed \ {<<b, d>>} /\ <<b, d>> \in job[w].claimed
      /\ sent' = [sent EXCEPT ![b] = @ + 1]
      /\ UNCHANGED <<marked, lost>>
  BY DEF PublishReminder, QuietHoldsNothing, Sweeps
<1>2. Holds(w, b)
  BY <1>1 DEF Holds
<1>3. marked[b] /\ sent[b] = 0 /\ ~lost[b] /\ \A x \in Workers : Holds(x, b) => x = w
  BY <1>2 DEF OneReminderPerMark
<1>4. \A x \in Workers, c \in Bookings : Holds(x, c)' <=> Holds(x, c) /\ c # b
  <2>1. ASSUME NEW x \in Workers, NEW c \in Bookings, Holds(x, c)' PROVE Holds(x, c) /\ c # b
    <3>1. PICK e \in Drivers : <<c, e>> \in job'[x].claimed
      BY <2>1 DEF Holds
    <3>2. Holds(x, c)
      BY <1>1, <3>1 DEF Holds
    <3>3. ASSUME c = b PROVE FALSE
      <4>1. x = w
        BY <1>3, <3>2, <3>3
      <4>2. <<b, e>> \in job[w].claimed /\ e # d
        BY <1>1, <3>1, <3>3, <4>1
      <4>q. QED
        BY <1>1, <4>2 DEF OneDriverPerReminder
    <3>q. QED
      BY <3>2, <3>3
  <2>2. ASSUME NEW x \in Workers, NEW c \in Bookings, Holds(x, c), c # b PROVE Holds(x, c)'
    <3>1. PICK e \in Drivers : <<c, e>> \in job[x].claimed
      BY <2>2 DEF Holds
    <3>2. <<c, e>> \in job'[x].claimed
      BY <1>1, <2>2, <3>1
    <3>q. QED
      BY <3>2 DEF Holds
  <2>q. QED
    BY <2>1, <2>2
<1>5. QuietHoldsNothing'
  BY <1>1 DEF QuietHoldsNothing
<1>6. OneDriverPerReminder'
  BY <1>1 DEF OneDriverPerReminder
<1>7. OneReminderPerMark'
  BY <1>1, <1>3, <1>4 DEF OneReminderPerMark
<1>q. QED
  BY <1>5, <1>6, <1>7

(* A failing sweep loses exactly the reminders it held. *)
LEMMA FailKeeps ==
  ASSUME TypeOK, SweepInv, NEW w \in Workers, FailSweep(w)
  PROVE  SweepInv'
<1> USE DEF TypeOK, SweepInv
<1>1. /\ job'[w] = Idle
      /\ \A x \in Workers : x # w => job'[x] = job[x]
      /\ \A b \in Bookings : lost'[b] <=> lost[b] \/ Holds(w, b)
      /\ UNCHANGED <<marked, sent>>
  BY DEF FailSweep, Holds
<1>2. QuietHoldsNothing' /\ OneDriverPerReminder'
  BY <1>1 DEF QuietHoldsNothing, OneDriverPerReminder, Idle
<1>3. \A x \in Workers, b \in Bookings : Holds(x, b)' <=> Holds(x, b) /\ x # w
  <2>1. job'[w].claimed = {}
    BY <1>1 DEF Idle
  <2>2. \A x \in Workers : x # w => job'[x].claimed = job[x].claimed
    BY <1>1
  <2>q. QED
    BY <2>1, <2>2 DEF Holds
<1>4. OneReminderPerMark'
  BY <1>1, <1>3 DEF OneReminderPerMark
<1>q. QED
  BY <1>2, <1>4

(* The sweeps' half of the invariant, over all their steps. *)
LEMMA SweepStepKeeps ==
  ASSUME TypeOK, SweepInv, SweepStep
  PROVE  SweepInv'
<1>1. CASE LapseLock
  BY <1>1 DEF LapseLock, SweepInv, OneDriverPerReminder, QuietHoldsNothing, OneReminderPerMark, Holds
<1>2. ASSUME NEW w \in Workers, StartSweep(w) \/ ReadDue(w) \/ FinishSweep(w)
      PROVE  SweepInv'
  <2>1. /\ \A x \in Workers : job'[x].claimed = job[x].claimed
        /\ UNCHANGED <<marked, sent, lost>>
    <3>1. CASE StartSweep(w)
      BY <3>1 DEF StartSweep, TypeOK, Sweeps
    <3>2. CASE ReadDue(w)
      <4>1. job[w].claimed = {}
        BY <3>2 DEF ReadDue, SweepInv, QuietHoldsNothing
      <4>2. job'[w].claimed = {} /\ \A x \in Workers \ {w} : job'[x] = job[x]
        BY <3>2 DEF ReadDue, TypeOK
      <4>q. QED
        BY <3>2, <4>1, <4>2 DEF ReadDue
    <3>3. CASE FinishSweep(w)
      <4>1. job'[w].claimed = {} /\ \A x \in Workers \ {w} : job'[x] = job[x]
        BY <3>3 DEF FinishSweep, Idle, TypeOK
      <4>q. QED
        BY <3>3, <4>1 DEF FinishSweep
    <3>q. QED
      BY <1>2, <3>1, <3>2, <3>3
  <2>2. QuietHoldsNothing'
    BY <1>2 DEF StartSweep, ReadDue, FinishSweep, Idle, TypeOK, Sweeps, SweepInv, QuietHoldsNothing
  <2>3. OneDriverPerReminder'
    BY <2>1 DEF SweepInv, OneDriverPerReminder
  <2>4. OneReminderPerMark'
    BY <2>1 DEF SweepInv, OneReminderPerMark, Holds
  <2>q. QED
    BY <2>2, <2>3, <2>4 DEF SweepInv
<1>q. QED
  BY <1>1, <1>2, ClaimKeeps, PublishKeeps, FailKeeps DEF SweepStep

(* A step of one half leaves the other half as it was. *)
LEMMA StepKeeps == IInv /\ [Next]_vars => IInv'
<1> SUFFICES ASSUME IInv, [Next]_vars PROVE IInv'
  OBVIOUS
<1>1. CASE CustomerStep \/ DriverStep \/ SearchStep
  <2>1. TypeOK' /\ UNCHANGED sweep
    BY <1>1, BookingKeepsTypes DEF IInv
  <2>2. BookingInv'
    BY <1>1, BookingStepKeeps DEF IInv
  <2>3. SweepInv'
    BY <2>1 DEF IInv, SweepInv, sweep, OneDriverPerReminder, QuietHoldsNothing, OneReminderPerMark, Holds
  <2>q. QED
    BY <2>1, <2>2, <2>3 DEF IInv
<1>2. CASE SweepStep
  <2>1. TypeOK'
    BY <1>2, SweepKeepsTypes DEF IInv
  <2>2. SweepInv'
    BY <1>2, SweepStepKeeps DEF IInv
  <2>3. UNCHANGED <<row, search, calls>>
    BY <1>2 DEF SweepStep, StartSweep, ReadDue, FinishSweep, FailSweep, ClaimReminder,
                PublishReminder, LapseLock
  <2>4. BookingInv'
    BY <2>3 DEF IInv, BookingInv, BookingHasRequest, CallsAreOnBookings, DriverMatchesStatus,
                CancelledClosesRequest, row, search, calls
  <2>q. QED
    BY <2>1, <2>2, <2>4 DEF IInv
<1>3. CASE UNCHANGED vars
  BY <1>3 DEF vars, row, search, calls, sweep, IInv, TypeOK, BookingInv, BookingHasRequest,
              CallsAreOnBookings, DriverMatchesStatus, CancelledClosesRequest, SweepInv,
              OneDriverPerReminder, QuietHoldsNothing, OneReminderPerMark, Holds
<1>q. QED
  BY <1>1, <1>2, <1>3 DEF Next

(* The inductive invariant holds in every reachable state. *)
THEOREM Invariance == Spec => []IInv
  BY InitEstablishes, StepKeeps, PTL DEF Spec

(* Every column of the two tables and every local of the sweeps keeps its  *)
(* type.                                                                   *)
THEOREM TypeCorrect == Spec => []TypeOK
<1>1. IInv => TypeOK
  BY DEF IInv
<1>q. QED
  BY <1>1, Invariance, PTL

(* However accepts and declines cross, an accepted booking names a driver  *)
(* and one that is waiting or declined names none.                         *)
THEOREM DriverIsAnswerable == Spec => []DriverMatchesStatus
<1>1. IInv => DriverMatchesStatus
  BY DEF IInv, BookingInv
<1>q. QED
  BY <1>1, Invariance, PTL

(* No boost or cancel, in any order, leaves a cancelled booking searching. *)
THEOREM CancelClosesSearch == Spec => []CancelledClosesRequest
<1>1. IInv => CancelledClosesRequest
  BY DEF IInv, BookingInv
<1>q. QED
  BY <1>1, Invariance, PTL

(* However many sweeps the Redis lock lets overlap, a booking is reminded  *)
(* at most once, and every mark is accounted for.                          *)
THEOREM RemindedOnce == Spec => []OneReminderPerMark
<1>1. IInv => OneReminderPerMark
  BY DEF IInv, SweepInv
<1>q. QED
  BY <1>1, Invariance, PTL

(* Only the conditional claim of cancelForCustomer writes CANCELLED, and   *)
(* the status it claims is one a customer may cancel.                      *)
LEMMA CancelStep == TypeOK /\ [Next]_vars =>
                    \A b \in Bookings :
                        status'[b] = "CANCELLED" => status[b] \in CustomerOpen \cup {"CANCELLED"}
<1> SUFFICES ASSUME TypeOK, [Next]_vars, NEW b \in Bookings, status'[b] = "CANCELLED"
             PROVE  status[b] \in CustomerOpen \cup {"CANCELLED"}
  OBVIOUS
<1> USE DEF TypeOK, row
<1>1. ASSUME NEW c \in cancelling, CommitCancel(c)
      PROVE  status[b] \in CustomerOpen \cup {"CANCELLED"}
  BY <1>1 DEF CommitCancel, StillAs, Cancels
<1>2. ASSUME NEW a \in Bookings, Create(a) PROVE status[b] = "CANCELLED"
  BY <1>2 DEF Create
<1>3. ASSUME NEW a \in Bookings, NEW d \in Drivers, CommitAccept(a, d) \/ CommitDecline(a, d)
      PROVE  status[b] = "CANCELLED"
  BY <1>3 DEF CommitAccept, CommitDecline
<1>4. CASE UNCHANGED status
  BY <1>4
<1>q. QED
  BY <1>1, <1>2, <1>3, <1>4
     DEF Next, vars, CustomerStep, DriverStep, SearchStep, SweepStep, ReadToCancel, ConflictCancel,
         CancelRequest, BoostRequest, ReadToAccept, ReadToDecline, Match, ExpireRequest,
         SearchRunsOut, TimePasses, StartSweep, ReadDue, FinishSweep, FailSweep, ClaimReminder,
         PublishReminder, LapseLock

(* The customer's cancel never overwrites a decline that landed after its  *)
(* read.                                                                   *)
THEOREM CancelsOnlyOpen == Spec => CancelKeepsDecline
<1>1. IInv => TypeOK
  BY DEF IInv
<1>2. TypeOK /\ [Next]_vars =>
        [\A b \in Bookings :
            status'[b] = "CANCELLED" => status[b] \in CustomerOpen \cup {"CANCELLED"}]_vars
  BY CancelStep
<1>q. QED
  BY <1>1, <1>2, Invariance, PTL DEF Spec, CancelKeepsDecline
=============================================================================
