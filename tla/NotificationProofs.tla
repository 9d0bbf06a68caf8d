--------------------------- MODULE NotificationProofs ---------------------------
(***************************************************************************)
(* Safety of the deliveries for any finite set of devices, any worker      *)
(* slots, writers, attempts and bounds.                                    *)
(*                                                                         *)
(* That a claim is exclusive rests on Numbered: of the runs that send one  *)
(* delivery each has an attempt of its own, so that the release of one is  *)
(* not taken for the release of another.  That the row tells the truth     *)
(* although it is written after it was read rests on Advances: whatever a  *)
(* step does to the deliveries, what was decided of them stays decided.    *)
(***************************************************************************)
EXTENDS Notification, FiniteSetTheorems, SequenceTheorems, TLAPS

AllFailed(ds) == ds # <<>> /\ \A i \in DOMAIN ds : ds[i].status = "FAILED"

SomeSent(ds) == \E i \in DOMAIN ds : ds[i].status = "SENT"

\* The queue has not heard of the notification, nor will it by itself.
Untouched ==
    /\ job.state = "missing" /\ ~late
    /\ \A r \in Runs : run[r].at = "idle"

\* There are deliveries as soon as there is a row, and no job before.
Begun ==
    /\ notification = "none" <=> delivery = <<>>
    /\ notification = "none" => Untouched

\* w wrote the row, and has yet to enqueue it.
Past(w) == writer[w].at \in {"judge", "expire", "enqueue"}

\* One writer wrote the row, and until it enqueued it nobody else touches an
\* offer but the sweep that fails it.
Written ==
    /\ \A v, w \in Writers : Past(v) /\ Past(w) => v = w
    /\ \A w \in Writers :
          /\ Past(w) => notification # "none"
          /\ writer[w].at \in {"judge", "expire"} =>
                /\ Untouched /\ offer
                /\ Len(delivery) = 1 /\ delivery[1].status \in {"QUEUED", "FAILED"}
          /\ writer[w].at = "expire" => AllFailed(delivery)

\* The queue counts one run as the owner, of an active job; a job that failed
\* stays so.
Owned ==
    /\ job.owner # Nothing => job.state = "active"
    /\ \A r \in Runs : run[r].at = "exhaust" => job.state = "failed" /\ run[r].todo = {}

Sending(r) == run[r].at \in {"send", "record"}

\* What a run has before it are deliveries, and what it sends has a device.
Placed ==
    \A r \in Runs :
        /\ run[r].todo \subseteq DOMAIN delivery
        /\ run[r].fit \subseteq run[r].todo
        /\ \A i \in run[r].fit : delivery[i].device # Nothing
        /\ Sending(r) => run[r].row \in run[r].fit

\* Attempts of one delivery are numbered as they claim it.
Numbered ==
    \A r \in Runs : Sending(r) /\ delivery[run[r].row].status = "QUEUED" =>
        /\ run[r].attempt <= delivery[run[r].row].attempts
        /\ \A q \in Runs \ {r} : Sending(q) /\ run[q].row = run[r].row =>
               run[q].attempt # run[r].attempt

\* What settleNotification concluded stays true until it is written.
Concluded ==
    \A r \in Runs : run[r].at = "settle" =>
        /\ run[r].verdict = "SENT" => SomeSent(delivery)
        /\ run[r].verdict = "FAILED" => AllFailed(delivery)

\* What was pushed went to the device of a delivery.
Pushed ==
    /\ \A d \in pushed : \E i \in DOMAIN delivery : delivery[i].device = d
    /\ \A r \in Runs : run[r].at = "record" /\ run[r].answer = "accepted" =>
           delivery[run[r].row].device \in pushed

\* r still has something to send.
Busy(r) ==
    \/ run[r].at \in {"plan", "send", "record"}
    \/ run[r].at = "each" /\ run[r].todo # {}

\* While no run was overtaken or died only the owner sends, and a push is
\* followed by its record.
Undisturbed ==
    ~disturbed =>
        /\ \A r \in Runs : Busy(r) => job.owner = r
        /\ \A r \in Runs : Sending(r) => delivery[run[r].row].status = "QUEUED"
        /\ \A i \in DOMAIN delivery : delivery[i].device \in pushed =>
              \/ delivery[i].status = "SENT"
              \/ \E r \in Runs : /\ run[r].at = "record" /\ run[r].answer = "accepted"
                                 /\ run[r].row = i

IInv ==
    /\ TypeOK
    /\ Begun
    /\ Written
    /\ Owned
    /\ Placed
    /\ Numbered
    /\ ClaimIsExclusive
    /\ Concluded
    /\ Pushed
    /\ Undisturbed
    /\ StatusTellsDelivery

-----------------------------------------------------------------------------
(* What steps do to the deliveries.                                        *)

\* es is what ds may become: what was decided, and bound to a device, stays.
Advances(ds, es) ==
    /\ es \in Seq(Deliveries)
    /\ DOMAIN ds \subseteq DOMAIN es
    /\ \A i \in DOMAIN ds :
          /\ ds[i].status # "QUEUED" => es[i].status = ds[i].status
          /\ ds[i].device # Nothing => es[i].device = ds[i].device
    /\ AllFailed(ds) => AllFailed(es)

\* The same deliveries, each for its device, claimed again at most.
Updates(ds, es) ==
    /\ es \in Seq(Deliveries)
    /\ DOMAIN es = DOMAIN ds /\ Len(es) = Len(ds)
    /\ \A i \in DOMAIN ds :
          /\ ds[i].status # "QUEUED" => es[i].status = ds[i].status
          /\ es[i].device = ds[i].device
          /\ es[i].status = "QUEUED" => ds[i].attempts <= es[i].attempts

(* An update is an advance.                                                *)
LEMMA UpdatesAdvance ==
  ASSUME NEW ds \in Seq(Deliveries), NEW es, Updates(ds, es)
  PROVE  Advances(ds, es)
<1>1. DOMAIN ds = 1..Len(ds) /\ DOMAIN es = 1..Len(es) /\ Len(ds) \in Nat
  BY LenProperties DEF Updates
<1>2. ds # <<>> => es # <<>>
  BY <1>1, EmptySeq DEF Updates
<1>3. AllFailed(ds) => AllFailed(es)
  BY <1>2 DEF Updates, AllFailed
<1>q. QED
  BY <1>3 DEF Updates, Advances

(* What is sent or failed stays so in an advance.                          *)
LEMMA AdvanceKeeps ==
  ASSUME NEW ds, NEW es, Advances(ds, es)
  PROVE  /\ SomeSent(ds) => SomeSent(es)
         /\ AllFailed(ds) => AllFailed(es)
BY DEF Advances, SomeSent

(* Deliveries that change one by one are deliveries.                       *)
LEMMA SameLength ==
  ASSUME NEW ds \in Seq(Deliveries), NEW es, es = [i \in DOMAIN ds |-> es[i]],
         \A i \in DOMAIN ds : es[i] \in Deliveries
  PROVE  es \in Seq(Deliveries) /\ DOMAIN es = DOMAIN ds /\ Len(es) = Len(ds)
<1>1. DOMAIN ds = 1..Len(ds) /\ Len(ds) \in Nat
  BY LenProperties
<1>2. es \in [1..Len(ds) -> Deliveries]
  BY <1>1
<1>3. es \in Seq(Deliveries)
  BY <1>1, <1>2, SeqDef
<1>4. DOMAIN es = 1..Len(es) /\ Len(es) \in Nat
  BY <1>3, LenProperties
<1>q. QED
  BY <1>1, <1>2, <1>3, <1>4

(* An element of a sequence of deliveries.                                 *)
LEMMA ElementIsDelivery ==
  ASSUME NEW ds \in Seq(Deliveries), NEW i \in DOMAIN ds
  PROVE  /\ ds[i] \in Deliveries
         /\ ds[i].device \in Devices \cup {Nothing}
         /\ ds[i].status \in {"QUEUED", "SENT", "FAILED"}
         /\ ds[i].attempts \in Nat
         /\ ds[i].leased \in BOOLEAN
<1>1. ds[i] \in Deliveries
  BY LenProperties, ElementOfSeq
<1>q. QED
  BY <1>1 DEF Deliveries

(* One delivery changes.                                                   *)
LEMMA ChangeOne ==
  ASSUME NEW ds \in Seq(Deliveries), NEW i \in DOMAIN ds, NEW e \in Deliveries,
         ds[i].status # "QUEUED" => e.status = ds[i].status,
         e.device = ds[i].device,
         e.status = "QUEUED" => ds[i].attempts <= e.attempts
  PROVE  /\ Updates(ds, [ds EXCEPT ![i] = e])
         /\ [ds EXCEPT ![i] = e][i] = e
         /\ \A j \in DOMAIN ds \ {i} : [ds EXCEPT ![i] = e][j] = ds[j]
<1> DEFINE es == [ds EXCEPT ![i] = e]
<1>1. /\ es[i] = e
      /\ \A j \in DOMAIN ds \ {i} : es[j] = ds[j]
      /\ es = [j \in DOMAIN ds |-> es[j]]
  OBVIOUS
<1>2. \A j \in DOMAIN ds : ds[j] \in Deliveries /\ ds[j].attempts \in Nat
  BY ElementIsDelivery
<1> HIDE DEF es
<1>3. \A j \in DOMAIN ds : es[j] \in Deliveries
  BY <1>1, <1>2
<1>4. es \in Seq(Deliveries) /\ DOMAIN es = DOMAIN ds /\ Len(es) = Len(ds)
  BY <1>1, <1>3, SameLength
<1>5. Updates(ds, es)
  BY <1>1, <1>2, <1>4 DEF Updates
<1>q. QED
  BY <1>1, <1>5 DEF es

(* What ended is a delivery.                                               *)
LEMMA EndedIsDelivery ==
  ASSUME NEW d \in Deliveries, NEW s \in {"SENT", "FAILED"}
  PROVE  /\ Ended(d, s) \in Deliveries
         /\ Ended(d, s).status = s /\ Ended(d, s).device = d.device
<1>1. d \in [device : Devices \cup {Nothing}, status : {"QUEUED", "SENT", "FAILED"},
             attempts : Nat, leased : BOOLEAN]
  BY DEF Deliveries
<1>q. QED
  BY <1>1 DEF Ended, Deliveries

(* finalizeDelivery updates one delivery, if it is queued.                 *)
LEMMA FinalizedUpdates ==
  ASSUME NEW ds \in Seq(Deliveries), NEW i \in DOMAIN ds, NEW s \in {"SENT", "FAILED"}
  PROVE  /\ Updates(ds, Finalized(ds, i, s))
         /\ Finalized(ds, i, s)[i].status = IF ds[i].status = "QUEUED" THEN s ELSE ds[i].status
         /\ \A j \in DOMAIN ds \ {i} : Finalized(ds, i, s)[j] = ds[j]
         /\ \A j \in DOMAIN ds :
               Finalized(ds, i, s)[j].status = "QUEUED" => Finalized(ds, i, s)[j] = ds[j]
<1>1. \A j \in DOMAIN ds : ds[j] \in Deliveries /\ ds[j].attempts \in Nat
  BY ElementIsDelivery
<1>2. CASE ds[i].status = "QUEUED"
  <2>1. Finalized(ds, i, s) = [ds EXCEPT ![i] = Ended(ds[i], s)]
    BY <1>2 DEF Finalized
  <2>2. /\ Ended(ds[i], s) \in Deliveries
        /\ Ended(ds[i], s).status = s /\ Ended(ds[i], s).device = ds[i].device
    BY <1>1, EndedIsDelivery
  <2> DEFINE e == Ended(ds[i], s)
  <2> HIDE DEF e
  <2>3. /\ e \in Deliveries /\ e.status = s /\ e.device = ds[i].device
        /\ Finalized(ds, i, s) = [ds EXCEPT ![i] = e]
    BY <2>1, <2>2 DEF e
  <2>4. /\ Updates(ds, [ds EXCEPT ![i] = e]) /\ [ds EXCEPT ![i] = e][i] = e
        /\ \A j \in DOMAIN ds \ {i} : [ds EXCEPT ![i] = e][j] = ds[j]
    BY <1>2, <2>3, ChangeOne
  <2>q. QED
    BY <1>2, <2>3, <2>4
<1>3. CASE ds[i].status # "QUEUED"
  <2>1. Finalized(ds, i, s) = ds
    BY <1>3 DEF Finalized
  <2>q. QED
    BY <1>1, <1>3, <2>1 DEF Updates
<1>q. QED
  BY <1>2, <1>3

(* releaseDelivery frees the lease of one attempt, if it is the last.      *)
LEMMA ReleasedUpdates ==
  ASSUME NEW ds \in Seq(Deliveries), NEW i \in DOMAIN ds, NEW a
  PROVE  /\ Updates(ds, Released(ds, i, a))
         /\ \A j \in DOMAIN ds : /\ Released(ds, i, a)[j].status = ds[j].status
                                 /\ Released(ds, i, a)[j].attempts = ds[j].attempts
         /\ \A j \in DOMAIN ds :
               j # i \/ ds[i].attempts # a => Released(ds, i, a)[j] = ds[j]
<1>1. \A j \in DOMAIN ds : ds[j] \in Deliveries /\ ds[j].attempts \in Nat
  BY ElementIsDelivery
<1>2. CASE ds[i].status = "QUEUED" /\ ds[i].attempts = a
  <2> DEFINE e == [ds[i] EXCEPT !.leased = FALSE]
  <2>1. Released(ds, i, a) = [ds EXCEPT ![i] = e]
    BY <1>2 DEF Released
  <2>2. ds[i] \in [device : Devices \cup {Nothing}, status : {"QUEUED", "SENT", "FAILED"},
                   attempts : Nat, leased : BOOLEAN]
    BY <1>1 DEF Deliveries
  <2>3. /\ e \in Deliveries
        /\ e.status = ds[i].status /\ e.device = ds[i].device /\ e.attempts = ds[i].attempts
    BY <2>2 DEF Deliveries
  <2> HIDE DEF e
  <2>4. ds[i].attempts <= e.attempts
    BY <1>1, <2>3
  <2>5. /\ Updates(ds, [ds EXCEPT ![i] = e]) /\ [ds EXCEPT ![i] = e][i] = e
        /\ \A j \in DOMAIN ds \ {i} : [ds EXCEPT ![i] = e][j] = ds[j]
    BY <1>2, <2>3, <2>4, ChangeOne
  <2>q. QED
    BY <1>2, <2>1, <2>3, <2>5
<1>3. CASE ~(ds[i].status = "QUEUED" /\ ds[i].attempts = a)
  <2>1. Released(ds, i, a) = ds
    BY <1>3 DEF Released
  <2>q. QED
    BY <1>1, <1>3, <2>1 DEF Updates
<1>q. QED
  BY <1>2, <1>3

(* failQueuedDeliveries leaves nothing queued.                             *)
LEMMA QueuedFailedUpdates ==
  ASSUME NEW ds \in Seq(Deliveries)
  PROVE  /\ Updates(ds, QueuedFailed(ds))
         /\ \A i \in DOMAIN ds : QueuedFailed(ds)[i].status # "QUEUED"
<1> DEFINE es == QueuedFailed(ds)
<1>1. \A j \in DOMAIN ds : /\ ds[j] \in Deliveries /\ ds[j].attempts \in Nat
                           /\ Ended(ds[j], "FAILED") \in Deliveries
                           /\ Ended(ds[j], "FAILED").status = "FAILED"
                           /\ Ended(ds[j], "FAILED").device = ds[j].device
  BY ElementIsDelivery, EndedIsDelivery
<1>2. /\ es = [i \in DOMAIN ds |-> es[i]]
      /\ \A i \in DOMAIN ds :
            es[i] = IF ds[i].status = "QUEUED" THEN Ended(ds[i], "FAILED") ELSE ds[i]
  BY DEF QueuedFailed, Queued
<1> HIDE DEF es
<1>3. es \in Seq(Deliveries) /\ DOMAIN es = DOMAIN ds /\ Len(es) = Len(ds)
  BY <1>1, <1>2, SameLength
<1>4. Updates(ds, es)
  BY <1>1, <1>2, <1>3 DEF Updates
<1>q. QED
  BY <1>1, <1>2, <1>4 DEF es

(* SetToSeq enumerates a finite set.                                       *)
LEMMA SetToSeqEnumerates ==
  ASSUME NEW S, IsFiniteSet(S)
  PROVE  /\ Cardinality(S) \in Nat
         /\ SetToSeq(S) \in [1..Cardinality(S) -> S]
         /\ \A i, j \in 1..Cardinality(S) : SetToSeq(S)[i] = SetToSeq(S)[j] => i = j
<1>1. Cardinality(S) \in Nat /\ ExistsBijection(1..Cardinality(S), S)
  BY FS_CardinalityType
<1>2. PICK f \in Bijection(1..Cardinality(S), S) : TRUE
  BY <1>1 DEF ExistsBijection
<1>3. f \in [1..Cardinality(S) -> S] /\ IsInjective(f)
  BY <1>2 DEF Bijection, Injection, IsInjective
<1>4. SetToSeq(S) \in [1..Cardinality(S) -> S] /\ IsInjective(SetToSeq(S))
  BY <1>3 DEF SetToSeq
<1>q. QED
  BY <1>1, <1>4 DEF IsInjective

\* Each device has one delivery.
Distinct(ds) == \A i, j \in DOMAIN ds : ds[i].device = ds[j].device => i = j

(* A new row is a delivery.                                                *)
LEMMA RowIsDelivery ==
  ASSUME NEW d \in Devices
  PROVE  Row(d) \in Deliveries /\ Row(d).device = d /\ Row(d).status = "QUEUED"
BY DEF Row, Deliveries

(* planDeviceDeliveries either leaves the deliveries or binds the only one *)
(* and adds the others, each for a device of its own.                      *)
LEMMA PlannedDistinct ==
  ASSUME NEW ds \in Seq(Deliveries), Distinct(ds), NEW found \in SUBSET Devices,
         NEW es, es = Planned(ds, found), es # ds
  PROVE  /\ Queued(ds) # {} /\ \A i \in DOMAIN ds : ds[i].device = Nothing
         /\ es \in Seq(Deliveries) /\ Distinct(es)
         /\ DOMAIN ds \subseteq DOMAIN es
         /\ \A i \in DOMAIN ds : /\ es[i].status = ds[i].status
                                 /\ es[i].attempts = ds[i].attempts
                                 /\ es[i].leased = ds[i].leased
         /\ \A i \in DOMAIN es \ DOMAIN ds : es[i].status = "QUEUED"
<1> DEFINE n == Cardinality(found)
           s == SetToSeq(found)
           bs == [ds EXCEPT ![1].device = s[1]]
           ns == [i \in 1..n - 1 |-> Row(s[i + 1])]
<1>1. /\ ~\E i \in DOMAIN ds : ds[i].device # Nothing
      /\ Queued(ds) # {} /\ found # {}
      /\ es = bs \o ns
  BY DEF Planned
<1>2. /\ DOMAIN ds = 1..Len(ds) /\ Len(ds) \in Nat
  BY LenProperties
<1>3. Len(ds) = 1 /\ DOMAIN ds = {1}
  <2>1. \A i, j \in DOMAIN ds : i = j
    BY <1>1 DEF Distinct
  <2>2. DOMAIN ds # {}
    BY <1>1 DEF Queued
  <2>3. 1 \in DOMAIN ds
    BY <1>2, <2>2
  <2>4. ~(2 <= Len(ds))
    BY <1>2, <2>1, <2>3
  <2>q. QED
    BY <1>2, <2>3, <2>4
<1>4. IsFiniteSet(found)
  BY DevicesAssumption, FS_Subset
<1>5. /\ n \in Nat /\ s \in [1..n -> found]
      /\ \A i, j \in 1..n : s[i] = s[j] => i = j
  BY <1>4, SetToSeqEnumerates
<1>6. n >= 1
  BY <1>1, <1>4, <1>5, FS_EmptySet
<1> HIDE DEF n, s
<1>7. \A i \in 1..n : s[i] \in Devices
  BY <1>5
<1>8. /\ bs \in Seq(Deliveries) /\ Len(bs) = 1 /\ bs[1].device = s[1]
      /\ bs[1].status = ds[1].status
      /\ bs[1].attempts = ds[1].attempts /\ bs[1].leased = ds[1].leased
  <2>1. ds[1] \in Deliveries
    BY <1>3, ElementIsDelivery
  <2>2. ds[1] \in [device : Devices \cup {Nothing}, status : {"QUEUED", "SENT", "FAILED"},
                   attempts : Nat, leased : BOOLEAN]
    BY <2>1 DEF Deliveries
  <2>3. s[1] \in Devices
    BY <1>6, <1>5, <1>7
  <2> DEFINE e == [ds[1] EXCEPT !.device = s[1]]
  <2>4. /\ e \in Deliveries /\ e.device = s[1] /\ e.status = ds[1].status
        /\ e.attempts = ds[1].attempts /\ e.leased = ds[1].leased
    BY <2>2, <2>3 DEF Deliveries
  <2>5. bs = [ds EXCEPT ![1] = e]
    OBVIOUS
  <2> HIDE DEF e, bs
  <2>6. bs = [i \in DOMAIN ds |-> bs[i]] /\ bs[1] = e
    BY <1>3, <2>5
  <2>7. bs \in Seq(Deliveries) /\ Len(bs) = Len(ds)
    BY <1>3, <2>4, <2>6, SameLength
  <2>q. QED
    BY <1>3, <2>4, <2>6, <2>7
<1>9. /\ ns \in Seq(Deliveries) /\ Len(ns) = n - 1
      /\ \A i \in 1..n - 1 : ns[i].device = s[i + 1] /\ ns[i].status = "QUEUED"
  <2>1. n - 1 \in Nat /\ \A i \in 1..n - 1 : i + 1 \in 1..n
    BY <1>5, <1>6
  <2>2. \A i \in 1..n - 1 : /\ Row(s[i + 1]) \in Deliveries
                            /\ Row(s[i + 1]).device = s[i + 1]
                            /\ Row(s[i + 1]).status = "QUEUED"
    BY <1>7, <2>1, RowIsDelivery
  <2>3. ns \in [1..n - 1 -> Deliveries]
    BY <2>2
  <2>4. ns \in Seq(Deliveries)
    BY <2>1, <2>3, SeqDef
  <2>5. Len(ns) = n - 1
    BY <2>1, <2>3, <2>4, LenProperties
  <2>q. QED
    BY <2>2, <2>4, <2>5
<1> HIDE DEF bs, ns
<1>10. /\ es \in Seq(Deliveries) /\ Len(es) = n
       /\ \A i \in 1..n : es[i] = IF i <= 1 THEN bs[i] ELSE ns[i - 1]
  <2>1. /\ bs \o ns \in Seq(Deliveries)
        /\ Len(bs \o ns) = Len(bs) + Len(ns)
        /\ \A i \in 1..Len(bs) + Len(ns) :
              (bs \o ns)[i] = IF i <= Len(bs) THEN bs[i] ELSE ns[i - Len(bs)]
    <3>1. bs \in Seq(Deliveries) /\ ns \in Seq(Deliveries)
      BY <1>8, <1>9
    <3>q. QED
      BY <3>1, ConcatProperties, Zenon
  <2>2. Len(bs) + Len(ns) = n
    BY <1>5, <1>8, <1>9
  <2>q. QED
    BY <1>1, <1>8, <2>1, <2>2
<1>11. DOMAIN es = 1..n
  BY <1>5, <1>10, LenProperties
<1>12. \A i \in 1..n : es[i].device = s[i] /\ (i # 1 => es[i].status = "QUEUED")
  <2> SUFFICES ASSUME NEW i \in 1..n
               PROVE  es[i].device = s[i] /\ (i # 1 => es[i].status = "QUEUED")
    OBVIOUS
  <2>1. CASE i = 1
    BY <1>5, <1>6, <1>8, <1>10, <2>1
  <2>2. CASE i # 1
    <3>1. i - 1 \in 1..n - 1 /\ (i - 1) + 1 = i /\ es[i] = ns[i - 1]
      BY <1>5, <1>10, <2>2
    <3>q. QED
      BY <1>9, <3>1
  <2>q. QED
    BY <2>1, <2>2
<1>13. es[1] = bs[1]
  BY <1>5, <1>6, <1>10
<1>14. Distinct(es)
  BY <1>5, <1>11, <1>12 DEF Distinct
<1>15. DOMAIN ds \subseteq DOMAIN es
  BY <1>3, <1>5, <1>6, <1>11
<1>16. \A i \in DOMAIN ds : /\ es[i].status = ds[i].status
                           /\ es[i].attempts = ds[i].attempts
                           /\ es[i].leased = ds[i].leased
  BY <1>3, <1>8, <1>13
<1>17. \A i \in DOMAIN es \ DOMAIN ds : es[i].status = "QUEUED"
  BY <1>3, <1>11, <1>12
<1>q. QED
  BY <1>1, <1>10, <1>14, <1>15, <1>16, <1>17

(* It is an advance, and it claims nothing.                                *)
LEMMA PlannedAdvances ==
  ASSUME NEW ds \in Seq(Deliveries), Distinct(ds), NEW found \in SUBSET Devices,
         NEW es, es = Planned(ds, found)
  PROVE  /\ Advances(ds, es) /\ Distinct(es)
         /\ \A i \in DOMAIN ds : /\ es[i].status = ds[i].status
                                 /\ es[i].attempts = ds[i].attempts
                                 /\ es[i].leased = ds[i].leased
         /\ \A i \in DOMAIN es \ DOMAIN ds : es[i].status = "QUEUED"
         /\ es = ds \/ \A i \in DOMAIN ds : ds[i].device = Nothing
<1>1. CASE es = ds
  BY <1>1 DEF Advances
<1>2. CASE es # ds
  <2>1. /\ Queued(ds) # {} /\ \A i \in DOMAIN ds : ds[i].device = Nothing
        /\ es \in Seq(Deliveries) /\ Distinct(es)
        /\ DOMAIN ds \subseteq DOMAIN es
        /\ \A i \in DOMAIN ds : /\ es[i].status = ds[i].status
                                /\ es[i].attempts = ds[i].attempts
                                /\ es[i].leased = ds[i].leased
        /\ \A i \in DOMAIN es \ DOMAIN ds : es[i].status = "QUEUED"
    BY <1>2, PlannedDistinct
  <2>2. ~AllFailed(ds)
    BY <2>1 DEF AllFailed, Queued
  <2>q. QED
    BY <2>1, <2>2 DEF Advances
<1>q. QED
  BY <1>1, <1>2

-----------------------------------------------------------------------------
(* What steps do to the runs.                                              *)

Others(r) == \A q \in Runs \ {r} : run'[q] = run[q]

RunTyped == run' \in [Runs -> RunStates]

(* A run is a record with its fields.                                      *)
LEMMA RunFields ==
  ASSUME TypeOK, NEW r \in Runs
  PROVE  /\ run[r] \in RunStates
         /\ run[r].at \in {"idle", "plan", "each", "send", "record", "settle", "end", "exhaust"}
         /\ run[r].found \in SUBSET Devices
         /\ run[r].todo \in SUBSET Nat /\ run[r].fit \in SUBSET Nat
         /\ run[r].row \in Nat /\ run[r].attempt \in Nat
         /\ run[r].answer \in {"none", "accepted", "refused", "failed", "threw"}
         /\ run[r].lapsed \in BOOLEAN /\ run[r].again \in BOOLEAN
         /\ run[r].verdict \in {"open", "SENT", "FAILED"}
BY DEF TypeOK, RunStates

(* One run moves.                                                          *)
LEMMA OneMoves ==
  ASSUME TypeOK, NEW r \in Runs, NEW x \in RunStates, run' = [run EXCEPT ![r] = x]
  PROVE  RunTyped /\ Others(r) /\ run'[r] = x
BY DEF TypeOK, RunTyped, Others

(* The runs that StartRun, EndRun and Crash leave.                         *)
LEMMA IdleRuns ==
  /\ Idle \in RunStates /\ Idle.at = "idle" /\ Idle.todo = {} /\ Idle.fit = {}
  /\ [Idle EXCEPT !.at = "exhaust"] \in RunStates
  /\ [Idle EXCEPT !.at = "exhaust"].at = "exhaust"
  /\ [Idle EXCEPT !.at = "exhaust"].todo = {} /\ [Idle EXCEPT !.at = "exhaust"].fit = {}
  /\ \A D \in SUBSET Devices :
        /\ [Idle EXCEPT !.at = "plan", !.found = D] \in RunStates
        /\ [Idle EXCEPT !.at = "plan", !.found = D].at = "plan"
        /\ [Idle EXCEPT !.at = "plan", !.found = D].todo = {}
        /\ [Idle EXCEPT !.at = "plan", !.found = D].fit = {}
BY DEF Idle, RunStates

(* A run starts.                                                           *)
LEMMA StartMoves ==
  ASSUME TypeOK, NEW r \in Runs, StartRun(r)
  PROVE  /\ RunTyped /\ Others(r)
         /\ run'[r].at = "plan" /\ run'[r].todo = {} /\ run'[r].fit = {}
<1>1. reachable \in SUBSET Devices
  BY DEF TypeOK
<1>q. QED
  BY <1>1, IdleRuns, OneMoves DEF StartRun

(* A run ends, or dies.                                                    *)
LEMMA IdleMoves ==
  ASSUME TypeOK, NEW r \in Runs, run' = [run EXCEPT ![r] = Idle]
  PROVE  /\ RunTyped /\ Others(r)
         /\ run'[r].at = "idle" /\ run'[r].todo = {} /\ run'[r].fit = {}
BY IdleRuns, OneMoves

(* A run takes up the deliveries it planned.                               *)
LEMMA PlanMoves ==
  ASSUME TypeOK, NEW r \in Runs, NEW Q \in SUBSET Nat, NEW F \in SUBSET Nat,
         run' = [run EXCEPT ![r].at = "each", ![r].todo = Q, ![r].fit = F, ![r].found = {}]
  PROVE  /\ RunTyped /\ Others(r)
         /\ run'[r].at = "each" /\ run'[r].todo = Q /\ run'[r].fit = F
<1> DEFINE x == [run[r] EXCEPT !.at = "each", !.todo = Q, !.fit = F, !.found = {}]
<1>1. /\ x \in RunStates /\ x.at = "each" /\ x.todo = Q /\ x.fit = F
  BY RunFields DEF RunStates
<1>2. run' = [run EXCEPT ![r] = x]
  BY DEF TypeOK
<1> HIDE DEF x
<1>q. QED
  BY <1>1, <1>2, OneMoves

(* A run passes over a delivery.                                           *)
LEMMA SkipMoves ==
  ASSUME TypeOK, NEW r \in Runs, NEW i, NEW busy \in BOOLEAN, run' = Skipped(r, i, busy)
  PROVE  /\ RunTyped /\ Others(r)
         /\ run'[r].at = run[r].at /\ run'[r].row = run[r].row
         /\ run'[r].todo = run[r].todo \ {i} /\ run'[r].fit = run[r].fit \ {i}
<1> DEFINE x == [run[r] EXCEPT !.todo = @ \ {i}, !.fit = @ \ {i}, !.again = @ \/ busy]
<1>1. /\ x \in RunStates /\ x.at = run[r].at /\ x.row = run[r].row
      /\ x.todo = run[r].todo \ {i} /\ x.fit = run[r].fit \ {i}
  BY RunFields DEF RunStates
<1>2. run' = [run EXCEPT ![r] = x]
  BY DEF TypeOK, Skipped
<1> HIDE DEF x
<1>q. QED
  BY <1>1, <1>2, OneMoves

(* A run claims a delivery.                                                *)
LEMMA ClaimMoves ==
  ASSUME TypeOK, NEW r \in Runs, NEW i \in Nat, NEW a \in Nat,
         run' = [run EXCEPT ![r].at = "send", ![r].row = i, ![r].lapsed = FALSE, ![r].attempt = a]
  PROVE  /\ RunTyped /\ Others(r)
         /\ run'[r].at = "send" /\ run'[r].row = i /\ run'[r].attempt = a
         /\ run'[r].todo = run[r].todo /\ run'[r].fit = run[r].fit
<1> DEFINE x == [run[r] EXCEPT !.at = "send", !.row = i, !.lapsed = FALSE, !.attempt = a]
<1>1. /\ x \in RunStates /\ x.at = "send" /\ x.row = i /\ x.attempt = a
      /\ x.todo = run[r].todo /\ x.fit = run[r].fit
  BY RunFields DEF RunStates
<1>2. run' = [run EXCEPT ![r] = x]
  BY DEF TypeOK
<1> HIDE DEF x
<1>q. QED
  BY <1>1, <1>2, OneMoves

(* A run hears the provider.                                               *)
LEMMA SendMoves ==
  ASSUME TypeOK, NEW r \in Runs, NEW answer \in {"accepted", "refused", "failed", "threw"},
         run' = [run EXCEPT ![r].at = "record", ![r].answer = answer]
  PROVE  /\ RunTyped /\ Others(r)
         /\ run'[r].at = "record" /\ run'[r].answer = answer
         /\ run'[r].row = run[r].row /\ run'[r].attempt = run[r].attempt
         /\ run'[r].todo = run[r].todo /\ run'[r].fit = run[r].fit
         /\ run'[r].lapsed = run[r].lapsed
<1> DEFINE x == [run[r] EXCEPT !.at = "record", !.answer = answer]
<1>1. /\ x \in RunStates /\ x.at = "record" /\ x.answer = answer
      /\ x.row = run[r].row /\ x.attempt = run[r].attempt
      /\ x.todo = run[r].todo /\ x.fit = run[r].fit /\ x.lapsed = run[r].lapsed
  BY RunFields DEF RunStates
<1>2. run' = [run EXCEPT ![r] = x]
  BY DEF TypeOK
<1> HIDE DEF x
<1>q. QED
  BY <1>1, <1>2, OneMoves

(* A run notes what it heard, and goes on with the rest, if with any.      *)
LEMMA RecordMoves ==
  ASSUME TypeOK, NEW r \in Runs, RecordAnswer(r)
  PROVE  /\ RunTyped /\ Others(r)
         /\ run'[r].at = "each"
         /\ run'[r].todo \subseteq run[r].todo /\ run'[r].fit \subseteq run[r].fit
         /\ run'[r].fit \subseteq run'[r].todo \/ ~(run[r].fit \subseteq run[r].todo)
<1> DEFINE i == run[r].row
           answer == run[r].answer
           threw == answer = "threw"
           x == [run[r] EXCEPT !.at = "each", !.row = 0, !.attempt = 0,
                               !.answer = "none", !.lapsed = FALSE,
                               !.again = @ \/ answer \in {"failed", "threw"},
                               !.todo = IF threw THEN {} ELSE @ \ {i},
                               !.fit = IF threw THEN {} ELSE @ \ {i}]
<1>1. /\ x \in RunStates /\ x.at = "each"
      /\ x.todo = IF threw THEN {} ELSE run[r].todo \ {i}
      /\ x.fit = IF threw THEN {} ELSE run[r].fit \ {i}
  BY RunFields DEF RunStates
<1>2. run' = [run EXCEPT ![r] = x]
  BY DEF TypeOK, RecordAnswer
<1> HIDE DEF x
<1>q. QED
  BY <1>1, <1>2, OneMoves

(* A run settles.                                                          *)
LEMMA SettleMoves ==
  ASSUME TypeOK, NEW r \in Runs, NEW at \in {"settle", "end"},
         NEW v \in {"open", "SENT", "FAILED"},
         run' = [run EXCEPT ![r].at = at, ![r].verdict = v]
  PROVE  /\ RunTyped /\ Others(r)
         /\ run'[r].at = at /\ run'[r].verdict = v
         /\ run'[r].todo = run[r].todo /\ run'[r].fit = run[r].fit
<1> DEFINE x == [run[r] EXCEPT !.at = at, !.verdict = v]
<1>1. /\ x \in RunStates /\ x.at = at /\ x.verdict = v
      /\ x.todo = run[r].todo /\ x.fit = run[r].fit
  BY RunFields DEF RunStates
<1>2. run' = [run EXCEPT ![r] = x]
  BY DEF TypeOK
<1> HIDE DEF x
<1>q. QED
  BY <1>1, <1>2, OneMoves

(* A run that used up the attempts goes to its deliveries.                 *)
LEMMA ExhaustMoves ==
  ASSUME TypeOK, NEW r \in Runs, run' = [run EXCEPT ![r].at = "each"]
  PROVE  /\ RunTyped /\ Others(r)
         /\ run'[r].at = "each" /\ run'[r].todo = run[r].todo /\ run'[r].fit = run[r].fit
<1> DEFINE x == [run[r] EXCEPT !.at = "each"]
<1>1. /\ x \in RunStates /\ x.at = "each"
      /\ x.todo = run[r].todo /\ x.fit = run[r].fit
  BY RunFields DEF RunStates
<1>2. run' = [run EXCEPT ![r] = x]
  BY DEF TypeOK
<1> HIDE DEF x
<1>q. QED
  BY <1>1, <1>2, OneMoves

(* The lease runs out under some runs, which do not notice.                *)
LEMMA LapseMoves ==
  ASSUME TypeOK, NEW U \in SUBSET Runs,
         run' = [r \in Runs |-> IF r \in U THEN [run[r] EXCEPT !.lapsed = TRUE] ELSE run[r]]
  PROVE  /\ RunTyped
         /\ \A r \in Runs :
               /\ run'[r].at = run[r].at /\ run'[r].row = run[r].row
               /\ run'[r].todo = run[r].todo /\ run'[r].fit = run[r].fit
               /\ run'[r].attempt = run[r].attempt /\ run'[r].answer = run[r].answer
               /\ run'[r].verdict = run[r].verdict
               /\ ~run'[r].lapsed => ~run[r].lapsed /\ r \notin U
<1> DEFINE x(r) == [run[r] EXCEPT !.lapsed = TRUE]
<1>1. ASSUME NEW r \in Runs
      PROVE  /\ x(r) \in RunStates /\ x(r).at = run[r].at /\ x(r).row = run[r].row
             /\ x(r).todo = run[r].todo /\ x(r).fit = run[r].fit
             /\ x(r).attempt = run[r].attempt /\ x(r).answer = run[r].answer
             /\ x(r).verdict = run[r].verdict /\ x(r).lapsed = TRUE
  BY RunFields DEF RunStates
<1>2. \A r \in Runs : run'[r] = IF r \in U THEN x(r) ELSE run[r]
  OBVIOUS
<1>3. \A r \in Runs : run[r] \in RunStates /\ run[r].lapsed \in BOOLEAN
  BY RunFields
<1> HIDE DEF x
<1>4. RunTyped
  BY <1>1, <1>2, <1>3 DEF RunTyped
<1>5. ASSUME NEW r \in Runs
      PROVE  /\ run'[r].at = run[r].at /\ run'[r].row = run[r].row
             /\ run'[r].todo = run[r].todo /\ run'[r].fit = run[r].fit
             /\ run'[r].attempt = run[r].attempt /\ run'[r].answer = run[r].answer
             /\ run'[r].verdict = run[r].verdict
             /\ ~run'[r].lapsed => ~run[r].lapsed /\ r \notin U
  <2>1. CASE r \in U
    <3>1. run'[r] = x(r)
      BY <1>2, <2>1
    <3>q. QED
      BY <1>1, <3>1
  <2>2. CASE r \notin U
    <3>1. run'[r] = run[r]
      BY <1>2, <2>2
    <3>q. QED
      BY <2>2, <3>1
  <2>q. QED
    BY <2>1, <2>2
<1>q. QED
  BY <1>4, <1>5

-----------------------------------------------------------------------------
(* Claims: what a step does to the runs that send.                         *)

Kept == Placed /\ Numbered /\ ClaimIsExclusive /\ Concluded /\ Pushed

\* What is before a run, or is being sent, is still queued as it was.
ClaimsStay(R) ==
    \A q \in R : Sending(q) /\ delivery'[run[q].row].status = "QUEUED" =>
        /\ delivery[run[q].row].status = "QUEUED"
        /\ delivery'[run[q].row].attempts = delivery[run[q].row].attempts
        /\ ~run[q].lapsed => delivery'[run[q].row].leased = delivery[run[q].row].leased

(* Runs that do not move keep what they have.                              *)
LEMMA BystandersKeep ==
  ASSUME Kept, TypeOK, Advances(delivery, delivery'), pushed \subseteq pushed',
         NEW q \in Runs, run'[q] = run[q]
  PROVE  /\ run'[q].todo \subseteq DOMAIN delivery'
         /\ run'[q].fit \subseteq run'[q].todo
         /\ \A i \in run'[q].fit : /\ i \in DOMAIN delivery
                                   /\ delivery'[i].device = delivery[i].device
                                   /\ delivery'[i].device # Nothing
         /\ Sending(q)' => Sending(q) /\ run[q].row \in run[q].fit
         /\ run'[q].at = "settle" =>
               /\ run'[q].verdict = "SENT" => SomeSent(delivery')
               /\ run'[q].verdict = "FAILED" => AllFailed(delivery')
         /\ run'[q].at = "record" /\ run'[q].answer = "accepted" =>
               delivery'[run'[q].row].device \in pushed'
<1>1. /\ run[q].todo \subseteq DOMAIN delivery
      /\ run[q].fit \subseteq run[q].todo
      /\ \A i \in run[q].fit : delivery[i].device # Nothing
      /\ Sending(q) => run[q].row \in run[q].fit
  BY DEF Kept, Placed
<1>2. /\ DOMAIN delivery \subseteq DOMAIN delivery'
      /\ \A i \in DOMAIN delivery :
            delivery[i].device # Nothing => delivery'[i].device = delivery[i].device
  BY DEF Advances
<1>3. Sending(q)' <=> Sending(q)
  BY DEF Sending
<1>4. run[q].at = "settle" =>
        /\ run[q].verdict = "SENT" => SomeSent(delivery')
        /\ run[q].verdict = "FAILED" => AllFailed(delivery')
  BY AdvanceKeeps DEF Kept, Concluded
<1>5. run[q].at = "record" /\ run[q].answer = "accepted" =>
        delivery[run[q].row].device \in pushed /\ Sending(q)
  BY DEF Kept, Pushed, Sending
<1>q. QED
  BY <1>1, <1>2, <1>3, <1>4, <1>5

(* One run moves and sends nothing.                                        *)
LEMMA QuietKeeps ==
  ASSUME Kept, TypeOK, NEW r \in Runs, Others(r), RunTyped,
         Updates(delivery, delivery'), ClaimsStay(Runs \ {r}), pushed' = pushed,
         ~(run'[r].at \in {"send", "record"}),
         run'[r].todo \subseteq DOMAIN delivery', run'[r].fit \subseteq run'[r].todo,
         \A i \in run'[r].fit : delivery'[i].device # Nothing,
         run'[r].at = "settle" => /\ run'[r].verdict = "SENT" => SomeSent(delivery')
                                  /\ run'[r].verdict = "FAILED" => AllFailed(delivery')
  PROVE  Kept'
<1>0. Advances(delivery, delivery') /\ delivery \in Seq(Deliveries)
  BY UpdatesAdvance DEF TypeOK
<1>1. ASSUME NEW q \in Runs \ {r}
      PROVE  /\ run'[q] = run[q]
             /\ run'[q].todo \subseteq DOMAIN delivery'
             /\ run'[q].fit \subseteq run'[q].todo
             /\ \A i \in run'[q].fit : /\ i \in DOMAIN delivery
                                       /\ delivery'[i].device = delivery[i].device
                                       /\ delivery'[i].device # Nothing
             /\ Sending(q)' => Sending(q) /\ run[q].row \in run[q].fit
             /\ run'[q].at = "settle" =>
                   /\ run'[q].verdict = "SENT" => SomeSent(delivery')
                   /\ run'[q].verdict = "FAILED" => AllFailed(delivery')
             /\ run'[q].at = "record" /\ run'[q].answer = "accepted" =>
                   delivery'[run'[q].row].device \in pushed'
  <2>1. run'[q] = run[q]
    BY DEF Others
  <2>q. QED
    BY <1>0, <2>1, BystandersKeep
<1>2. ~Sending(r)'
  BY DEF Sending
<1>3. Placed'
  BY <1>1, <1>2 DEF Placed
<1>4. Numbered'
  BY <1>1, <1>2 DEF Numbered, Kept, ClaimsStay
<1>5. ClaimIsExclusive'
  <2> SUFFICES ASSUME NEW q \in Runs, Sending(q)', ~run'[q].lapsed,
                      delivery'[run'[q].row].status = "QUEUED"
               PROVE  /\ delivery'[run'[q].row].leased
                      /\ delivery'[run'[q].row].attempts = run'[q].attempt
    BY DEF ClaimIsExclusive, Sending
  <2>1. q # r /\ run'[q] = run[q] /\ Sending(q)
    BY <1>1, <1>2
  <2>2. /\ delivery[run[q].row].status = "QUEUED"
        /\ delivery'[run[q].row].attempts = delivery[run[q].row].attempts
        /\ delivery'[run[q].row].leased = delivery[run[q].row].leased
    BY <2>1 DEF ClaimsStay
  <2>3. delivery[run[q].row].leased /\ delivery[run[q].row].attempts = run[q].attempt
    BY <2>1, <2>2 DEF Kept, ClaimIsExclusive, Sending
  <2>q. QED
    BY <2>1, <2>2, <2>3
<1>6. Concluded'
  BY <1>1 DEF Concluded
<1>7. Pushed'
  <2>1. \A d \in pushed' : \E i \in DOMAIN delivery' : delivery'[i].device = d
    BY DEF Kept, Pushed, Updates
  <2>2. \A q \in Runs : run'[q].at = "record" /\ run'[q].answer = "accepted" =>
           delivery'[run'[q].row].device \in pushed'
    BY <1>1, <1>2 DEF Sending
  <2>q. QED
    BY <2>1, <2>2 DEF Pushed
<1>q. QED
  BY <1>3, <1>4, <1>5, <1>6, <1>7 DEF Kept

(* No run moves, and what is still queued is as it was.                    *)
LEMMA StandingRunsKeep ==
  ASSUME Kept, TypeOK, Updates(delivery, delivery'), run' = run, pushed' = pushed,
         \A j \in DOMAIN delivery : delivery'[j].status = "QUEUED" => delivery'[j] = delivery[j]
  PROVE  Kept'
<1>0. Advances(delivery, delivery') /\ delivery \in Seq(Deliveries)
  BY UpdatesAdvance DEF TypeOK
<1>1. ASSUME NEW q \in Runs
      PROVE  /\ run'[q].todo \subseteq DOMAIN delivery'
             /\ run'[q].fit \subseteq run'[q].todo
             /\ \A i \in run'[q].fit : /\ i \in DOMAIN delivery
                                       /\ delivery'[i].device = delivery[i].device
                                       /\ delivery'[i].device # Nothing
             /\ Sending(q)' => Sending(q) /\ run[q].row \in run[q].fit
             /\ run'[q].at = "settle" =>
                   /\ run'[q].verdict = "SENT" => SomeSent(delivery')
                   /\ run'[q].verdict = "FAILED" => AllFailed(delivery')
             /\ run'[q].at = "record" /\ run'[q].answer = "accepted" =>
                   delivery'[run'[q].row].device \in pushed'
  BY <1>0, BystandersKeep
<1>2. Placed'
  BY <1>1 DEF Placed, Sending
<1>3. ASSUME NEW q \in Runs, Sending(q)', delivery'[run'[q].row].status = "QUEUED"
      PROVE  /\ Sending(q) /\ run[q].row \in DOMAIN delivery
             /\ delivery'[run[q].row] = delivery[run[q].row]
  BY <1>1, <1>3
<1>4. Numbered'
  BY <1>3 DEF Numbered, Kept, Sending
<1>5. ClaimIsExclusive'
  BY <1>3 DEF ClaimIsExclusive, Kept, Sending
<1>6. Concluded'
  BY <1>1 DEF Concluded
<1>7. Pushed'
  BY <1>1 DEF Pushed, Kept, Updates
<1>q. QED
  BY <1>2, <1>4, <1>5, <1>6, <1>7 DEF Kept

\* What a step leaves queued is as it was.
Intact == \A j \in DOMAIN delivery : delivery'[j].status = "QUEUED" => delivery'[j] = delivery[j]

(* Then no claim is touched.                                               *)
LEMMA IntactClaims ==
  ASSUME Placed, Intact, NEW R \in SUBSET Runs
  PROVE  ClaimsStay(R)
<1> SUFFICES ASSUME NEW q \in R, Sending(q), delivery'[run[q].row].status = "QUEUED"
             PROVE  /\ delivery[run[q].row].status = "QUEUED"
                    /\ delivery'[run[q].row].attempts = delivery[run[q].row].attempts
                    /\ ~run[q].lapsed => delivery'[run[q].row].leased = delivery[run[q].row].leased
  BY DEF ClaimsStay
<1>1. run[q].row \in DOMAIN delivery
  BY DEF Placed
<1>2. delivery'[run[q].row] = delivery[run[q].row]
  BY <1>1 DEF Intact
<1>q. QED
  BY <1>2

(* Nothing happens to the deliveries.                                      *)
LEMMA StillDeliveries ==
  ASSUME TypeOK, delivery' = delivery
  PROVE  /\ Updates(delivery, delivery') /\ Intact
         /\ DOMAIN delivery' = DOMAIN delivery /\ \A i \in DOMAIN delivery : delivery'[i] = delivery[i]
<1>1. delivery \in Seq(Deliveries)
  BY DEF TypeOK
<1>2. \A i \in DOMAIN delivery : delivery[i].attempts \in Nat
  BY <1>1, ElementIsDelivery
<1>q. QED
  BY <1>1, <1>2 DEF Updates, Intact

(* A run that begins, ends, settles or dies leaves the claims.             *)
LEMMA UnsentKeeps ==
  ASSUME Kept, TypeOK, NEW r \in Runs, Others(r), RunTyped,
         delivery' = delivery, pushed' = pushed,
         ~(run'[r].at \in {"send", "record"}),
         run'[r].todo \subseteq run[r].todo,
         (run'[r].fit = run[r].fit /\ run'[r].todo = run[r].todo) \/ run'[r].fit = {},
         run'[r].at = "settle" => /\ run'[r].verdict = "SENT" => SomeSent(delivery)
                                  /\ run'[r].verdict = "FAILED" => AllFailed(delivery)
  PROVE  Kept'
<1>1. Updates(delivery, delivery') /\ Intact
  BY StillDeliveries
<1>2. ClaimsStay(Runs \ {r})
  BY <1>1, IntactClaims DEF Kept
<1>3. /\ run'[r].todo \subseteq DOMAIN delivery' /\ run'[r].fit \subseteq run'[r].todo
      /\ \A i \in run'[r].fit : delivery'[i].device # Nothing
  BY DEF Kept, Placed
<1>q. QED
  BY <1>1, <1>2, <1>3, QuietKeeps

(* What settleNotification concludes is so.                                *)
LEMMA VerdictIsTrue ==
  ASSUME NEW ds
  PROVE  /\ VerdictOf(ds) \in {"open", "SENT", "FAILED"}
         /\ VerdictOf(ds) = "SENT" => SomeSent(ds)
         /\ VerdictOf(ds) = "FAILED" /\ ds # <<>> => AllFailed(ds)
BY DEF VerdictOf, SomeSent, AllFailed

(* A run only begins, ends, settles or dies.                               *)
LEMMA UnsentSteps ==
  ASSUME IInv, NEW r \in Runs,
         \/ StartRun(r) \/ ReadDeliveries(r) \/ Settle(r) \/ EndRun(r) \/ Crash(r)
  PROVE  Kept' /\ Others(r) /\ RunTyped
<1>0. TypeOK /\ Kept /\ delivery' = delivery /\ pushed' = pushed
  BY DEF IInv, Kept, rows, StartRun, ReadDeliveries, Settle, EndRun, Crash
<1>1. CASE StartRun(r)
  <2>1. /\ RunTyped /\ Others(r)
        /\ run'[r].at = "plan" /\ run'[r].todo = {} /\ run'[r].fit = {}
    BY <1>0, <1>1, StartMoves
  <2>q. QED
    BY <1>0, <2>1, UnsentKeeps
<1>2. CASE ReadDeliveries(r)
  <2>1. delivery # <<>>
    BY <1>2 DEF ReadDeliveries, IInv, Begun, Untouched
  <2>2. VerdictOf(delivery) \in {"open", "SENT", "FAILED"}
    BY VerdictIsTrue
  <2>3. /\ RunTyped /\ Others(r)
        /\ run'[r].at = "settle" /\ run'[r].verdict = VerdictOf(delivery)
        /\ run'[r].todo = run[r].todo /\ run'[r].fit = run[r].fit
    BY <1>0, <1>2, <2>2, SettleMoves DEF ReadDeliveries
  <2>4. /\ run'[r].verdict = "SENT" => SomeSent(delivery)
        /\ run'[r].verdict = "FAILED" => AllFailed(delivery)
    BY <2>1, <2>3, VerdictIsTrue
  <2>q. QED
    BY <1>0, <2>3, <2>4, UnsentKeeps
<1>3. CASE Settle(r)
  <2>1. /\ RunTyped /\ Others(r) /\ run'[r].at = "end"
        /\ run'[r].todo = run[r].todo /\ run'[r].fit = run[r].fit
    BY <1>0, <1>3, SettleMoves DEF Settle
  <2>q. QED
    BY <1>0, <2>1, UnsentKeeps
<1>4. CASE run' = [run EXCEPT ![r] = Idle]
  <2>1. /\ RunTyped /\ Others(r)
        /\ run'[r].at = "idle" /\ run'[r].todo = {} /\ run'[r].fit = {}
    BY <1>0, <1>4, IdleMoves
  <2>q. QED
    BY <1>0, <2>1, UnsentKeeps
<1>5. CASE run' = [run EXCEPT ![r] = [Idle EXCEPT !.at = "exhaust"]]
  <2>1. /\ RunTyped /\ Others(r)
        /\ run'[r].at = "exhaust" /\ run'[r].todo = {} /\ run'[r].fit = {}
    BY <1>0, <1>5, IdleRuns, OneMoves
  <2>q. QED
    BY <1>0, <2>1, UnsentKeeps
<1>q. QED
  BY <1>1, <1>2, <1>3, <1>4, <1>5 DEF EndRun, Crash

(* A delivery that a run fails, or passes over.                            *)
LEMMA PassingSteps ==
  ASSUME IInv, NEW r \in Runs, NEW i \in run[r].todo, NEW busy \in BOOLEAN,
         run' = Skipped(r, i, busy), run[r].at = "each", pushed' = pushed,
         delivery' \in {delivery, Finalized(delivery, i, "FAILED")}
  PROVE  Kept' /\ Others(r) /\ RunTyped /\ Updates(delivery, delivery') /\ Intact
<1>0. TypeOK /\ Kept /\ delivery \in Seq(Deliveries) /\ i \in DOMAIN delivery
  BY DEF IInv, Kept, Placed, TypeOK
<1>1. Updates(delivery, delivery') /\ Intact
  <2>1. CASE delivery' = delivery
    BY <1>0, <2>1, StillDeliveries
  <2>2. CASE delivery' = Finalized(delivery, i, "FAILED")
    BY <1>0, <2>2, FinalizedUpdates DEF Intact
  <2>q. QED
    BY <2>1, <2>2
<1>2. ClaimsStay(Runs \ {r})
  BY <1>0, <1>1, IntactClaims DEF Kept
<1>3. /\ RunTyped /\ Others(r) /\ run'[r].at = "each"
      /\ run'[r].todo = run[r].todo \ {i} /\ run'[r].fit = run[r].fit \ {i}
  BY <1>0, SkipMoves
<1>4. /\ run'[r].todo \subseteq DOMAIN delivery' /\ run'[r].fit \subseteq run'[r].todo
      /\ \A j \in run'[r].fit : delivery'[j].device # Nothing
  BY <1>0, <1>1, <1>3 DEF Kept, Placed, Updates
<1>q. QED
  BY <1>0, <1>1, <1>2, <1>3, <1>4, QuietKeeps

(* A run that used up the attempts fails what is queued.                   *)
LEMMA ExhaustSteps ==
  ASSUME IInv, NEW r \in Runs, MarkExhausted(r)
  PROVE  Kept' /\ Others(r) /\ RunTyped /\ Updates(delivery, delivery') /\ Intact
<1>0. TypeOK /\ Kept /\ delivery \in Seq(Deliveries) /\ pushed' = pushed
  BY DEF IInv, Kept, TypeOK, MarkExhausted
<1>1. Updates(delivery, delivery') /\ Intact
  BY <1>0, QueuedFailedUpdates DEF MarkExhausted, Intact
<1>2. ClaimsStay(Runs \ {r})
  BY <1>0, <1>1, IntactClaims DEF Kept
<1>3. /\ RunTyped /\ Others(r) /\ run'[r].at = "each"
      /\ run'[r].todo = run[r].todo /\ run'[r].fit = run[r].fit
  BY <1>0, ExhaustMoves DEF MarkExhausted
<1>4. /\ run'[r].todo \subseteq DOMAIN delivery' /\ run'[r].fit \subseteq run'[r].todo
      /\ \A j \in run'[r].fit : delivery'[j].device # Nothing
  BY <1>0, <1>1, <1>3 DEF Kept, Placed, Updates
<1>q. QED
  BY <1>0, <1>1, <1>2, <1>3, <1>4, QuietKeeps

(* A run records the answer it heard.                                      *)
LEMMA RecordSteps ==
  ASSUME IInv, NEW r \in Runs, RecordAnswer(r)
  PROVE  Kept' /\ Others(r) /\ RunTyped /\ Updates(delivery, delivery')
<1> DEFINE i == run[r].row
<1>0. /\ TypeOK /\ Kept /\ delivery \in Seq(Deliveries) /\ pushed' = pushed
      /\ i \in DOMAIN delivery /\ Sending(r)
  BY DEF IInv, Kept, TypeOK, RecordAnswer, Placed, Sending
<1>1. Updates(delivery, delivery') /\ ClaimsStay(Runs \ {r})
  <2>1. CASE run[r].answer \in {"accepted", "refused"}
    <3>1. \E s \in {"SENT", "FAILED"} : delivery' = Finalized(delivery, i, s)
      BY <2>1 DEF RecordAnswer
    <3>2. Updates(delivery, delivery') /\ Intact
      BY <1>0, <3>1, FinalizedUpdates DEF Intact
    <3>q. QED
      BY <1>0, <3>2, IntactClaims DEF Kept
  <2>2. CASE run[r].answer \notin {"accepted", "refused"}
    <3>1. delivery' = Released(delivery, i, run[r].attempt)
      BY <2>2 DEF RecordAnswer
    <3>2. /\ Updates(delivery, delivery')
          /\ \A j \in DOMAIN delivery : /\ delivery'[j].status = delivery[j].status
                                        /\ delivery'[j].attempts = delivery[j].attempts
          /\ \A j \in DOMAIN delivery :
                j # i \/ delivery[i].attempts # run[r].attempt => delivery'[j] = delivery[j]
      BY <1>0, <3>1, ReleasedUpdates
    <3>3. ASSUME NEW q \in Runs \ {r}, Sending(q), delivery'[run[q].row].status = "QUEUED"
          PROVE  /\ delivery[run[q].row].status = "QUEUED"
                 /\ delivery'[run[q].row].attempts = delivery[run[q].row].attempts
                 /\ ~run[q].lapsed => delivery'[run[q].row].leased = delivery[run[q].row].leased
      <4>1. run[q].row \in DOMAIN delivery
        BY <1>0, <3>3 DEF Kept, Placed
      <4>2. /\ delivery[run[q].row].status = "QUEUED"
            /\ delivery'[run[q].row].attempts = delivery[run[q].row].attempts
        BY <3>2, <3>3, <4>1
      <4>3. ASSUME ~run[q].lapsed, run[q].row = i
            PROVE  delivery[i].attempts # run[r].attempt
        <5>1. delivery[i].attempts = run[q].attempt
          BY <1>0, <3>3, <4>2, <4>3 DEF Kept, ClaimIsExclusive, Sending
        <5>2. run[r].attempt # run[q].attempt
          BY <1>0, <3>3, <4>2, <4>3 DEF Kept, Numbered
        <5>q. QED
          BY <5>1, <5>2
      <4>q. QED
        BY <3>2, <4>1, <4>2, <4>3
    <3>q. QED
      BY <3>2, <3>3 DEF ClaimsStay
  <2>q. QED
    BY <2>1, <2>2
<1>3. /\ RunTyped /\ Others(r) /\ run'[r].at = "each"
      /\ run'[r].todo \subseteq run[r].todo /\ run'[r].fit \subseteq run[r].fit
      /\ run'[r].fit \subseteq run'[r].todo
  BY <1>0, RecordMoves DEF Kept, Placed
<1>4. /\ run'[r].todo \subseteq DOMAIN delivery' /\ run'[r].fit \subseteq run'[r].todo
      /\ \A j \in run'[r].fit : delivery'[j].device # Nothing
  BY <1>0, <1>1, <1>3 DEF Kept, Placed, Updates
<1>q. QED
  BY <1>0, <1>1, <1>3, <1>4, QuietKeeps

(* A run plans, and has what is queued before it.                          *)
LEMMA PlanSteps ==
  ASSUME IInv, NEW r \in Runs, Plan(r)
  PROVE  /\ Kept' /\ Others(r) /\ RunTyped
         /\ Advances(delivery, delivery') /\ Distinct(delivery')
<1> DEFINE Q == Queued(delivery')
           F == {i \in Queued(delivery') : delivery'[i].device \in reachable}
<1>0. /\ TypeOK /\ Kept /\ delivery \in Seq(Deliveries) /\ pushed' = pushed
      /\ Distinct(delivery) /\ run[r].found \in SUBSET Devices
      /\ delivery' = Planned(delivery, run[r].found)
  BY RunFields DEF IInv, Kept, TypeOK, Plan, StatusTellsDelivery, Distinct
<1>1. /\ Advances(delivery, delivery') /\ Distinct(delivery')
      /\ \A i \in DOMAIN delivery : /\ delivery'[i].status = delivery[i].status
                                    /\ delivery'[i].attempts = delivery[i].attempts
                                    /\ delivery'[i].leased = delivery[i].leased
      /\ delivery' = delivery \/ \A i \in DOMAIN delivery : delivery[i].device = Nothing
  BY <1>0, PlannedAdvances
<1>2. /\ RunTyped /\ Others(r) /\ run'[r].at \in {"idle", "each"}
      /\ run'[r].todo \subseteq Q /\ run'[r].fit \subseteq F /\ run'[r].fit \subseteq run'[r].todo
  <2>1. delivery' \in Seq(Deliveries)
    BY <1>1 DEF Advances
  <2>2. DOMAIN delivery' \subseteq Nat
    BY <2>1, LenProperties
  <2>3. Q \in SUBSET Nat /\ F \in SUBSET Nat /\ F \subseteq Q
    BY <2>2 DEF Queued
  <2>4. CASE run' = [run EXCEPT ![r] = Idle]
    BY <1>0, <2>4, IdleMoves
  <2>5. CASE run' = [run EXCEPT ![r].at = "each", ![r].todo = Q, ![r].fit = F, ![r].found = {}]
    <3> HIDE DEF Q, F
    <3>1. /\ RunTyped /\ Others(r)
          /\ run'[r].at = "each" /\ run'[r].todo = Q /\ run'[r].fit = F
      <4>1. TypeOK /\ Q \in SUBSET Nat /\ F \in SUBSET Nat
        BY <1>0, <2>3
      <4>q. QED
        BY <2>5, <4>1, PlanMoves, Zenon
    <3>q. QED
      BY <2>3, <3>1
  <2>6. \/ run' = [run EXCEPT ![r] = Idle]
        \/ run' = [run EXCEPT ![r].at = "each", ![r].todo = Q, ![r].fit = F, ![r].found = {}]
    BY <1>0 DEF Plan
  <2> HIDE DEF Q, F
  <2>q. QED
    BY <2>4, <2>5, <2>6, Zenon
<1>3. /\ run'[r].todo \subseteq DOMAIN delivery'
      /\ \A i \in run'[r].fit : delivery'[i].device # Nothing
  <2>1. reachable \subseteq Devices
    BY <1>0 DEF TypeOK
  <2>q. QED
    BY <1>2, <2>1, NothingAssumption DEF Queued
<1>4. ASSUME NEW q \in Runs \ {r}
      PROVE  /\ run'[q] = run[q]
             /\ run'[q].todo \subseteq DOMAIN delivery'
             /\ run'[q].fit \subseteq run'[q].todo
             /\ \A i \in run'[q].fit : /\ i \in DOMAIN delivery
                                       /\ delivery'[i].device = delivery[i].device
                                       /\ delivery'[i].device # Nothing
             /\ Sending(q)' => Sending(q) /\ run[q].row \in run[q].fit
             /\ run'[q].at = "settle" =>
                   /\ run'[q].verdict = "SENT" => SomeSent(delivery')
                   /\ run'[q].verdict = "FAILED" => AllFailed(delivery')
             /\ run'[q].at = "record" /\ run'[q].answer = "accepted" =>
                   delivery'[run'[q].row].device \in pushed'
  <2>1. run'[q] = run[q]
    BY <1>2 DEF Others
  <2>q. QED
    BY <1>0, <1>1, <2>1, BystandersKeep
<1>5. ~Sending(r)' /\ run'[r].at # "settle" /\ run'[r].at # "record"
  BY <1>2 DEF Sending
<1>6. Placed'
  BY <1>2, <1>3, <1>4, <1>5 DEF Placed
<1>7. ASSUME NEW q \in Runs, Sending(q)'
      PROVE  /\ q # r /\ run'[q] = run[q] /\ Sending(q)
             /\ delivery'[run[q].row].status = delivery[run[q].row].status
             /\ delivery'[run[q].row].attempts = delivery[run[q].row].attempts
             /\ delivery'[run[q].row].leased = delivery[run[q].row].leased
  BY <1>1, <1>4, <1>5, <1>7
<1>8. Numbered'
  BY <1>7, <1>0 DEF Numbered, Kept
<1>9. ClaimIsExclusive'
  BY <1>7, <1>0 DEF ClaimIsExclusive, Kept, Sending
<1>10. Concluded'
  BY <1>4, <1>5 DEF Concluded
<1>11. Pushed'
  <2>1. \A d \in pushed' : \E i \in DOMAIN delivery' : delivery'[i].device = d
    <3> SUFFICES ASSUME NEW d \in pushed PROVE \E i \in DOMAIN delivery' : delivery'[i].device = d
      BY <1>0
    <3>1. PICK i \in DOMAIN delivery : delivery[i].device = d
      BY <1>0 DEF Kept, Pushed
    <3>2. d # Nothing
      BY <1>0, NothingAssumption DEF TypeOK
    <3>q. QED
      BY <1>1, <3>1, <3>2 DEF Advances
  <2>q. QED
    BY <1>4, <1>5, <2>1 DEF Pushed
<1>q. QED
  BY <1>1, <1>2, <1>6, <1>8, <1>9, <1>10, <1>11 DEF Kept

(* A run hears the provider.                                               *)
LEMMA SendSteps ==
  ASSUME IInv, NEW r \in Runs, SendPush(r)
  PROVE  /\ Kept' /\ Others(r) /\ RunTyped /\ delivery' = delivery
         /\ run'[r].at = "record" /\ run'[r].row = run[r].row
         /\ run'[r].answer = "accepted" => delivery[run[r].row].device \in pushed'
         /\ pushed' \in {pushed, pushed \cup {delivery[run[r].row].device}}
         /\ pushed' # pushed => run'[r].answer = "accepted" \/ disturbed'
         /\ disturbed => disturbed'
<1>0. TypeOK /\ Kept /\ delivery' = delivery /\ Sending(r) /\ run[r].row \in run[r].fit
  BY DEF IInv, Kept, SendPush, rows, Sending, Placed
<1>1. PICK answer \in {"accepted", "refused", "failed", "threw"}, unheard \in BOOLEAN :
        /\ run' = [run EXCEPT ![r].at = "record", ![r].answer = answer]
        /\ pushed' = IF answer = "accepted" \/ unheard
                      THEN pushed \cup {delivery[run[r].row].device} ELSE pushed
        /\ disturbed' = (disturbed \/ unheard)
  BY DEF SendPush
<1>2. /\ RunTyped /\ Others(r)
      /\ run'[r].at = "record" /\ run'[r].answer = answer
      /\ run'[r].row = run[r].row /\ run'[r].attempt = run[r].attempt
      /\ run'[r].todo = run[r].todo /\ run'[r].fit = run[r].fit
      /\ run'[r].lapsed = run[r].lapsed
  BY <1>0, <1>1, SendMoves
<1>3. ASSUME NEW q \in Runs
      PROVE  /\ run'[q].row = run[q].row /\ run'[q].attempt = run[q].attempt
             /\ run'[q].todo = run[q].todo /\ run'[q].fit = run[q].fit
             /\ run'[q].lapsed = run[q].lapsed
             /\ Sending(q)' <=> Sending(q)
             /\ q # r => run'[q] = run[q]
  <2>1. CASE q = r
    BY <1>0, <1>2, <2>1 DEF Sending
  <2>2. CASE q # r
    BY <1>2, <2>2 DEF Others, Sending
  <2>q. QED
    BY <2>1, <2>2
<1>4. Placed'
  BY <1>0, <1>3 DEF Kept, Placed
<1>5. Numbered'
  BY <1>0, <1>3 DEF Kept, Numbered
<1>6. ClaimIsExclusive'
  BY <1>0, <1>3 DEF Kept, ClaimIsExclusive, Sending
<1>7. Concluded'
  BY <1>0, <1>2, <1>3 DEF Kept, Concluded, SomeSent, AllFailed
<1>8. pushed \subseteq pushed' /\ (answer = "accepted" => delivery[run[r].row].device \in pushed')
  BY <1>1
<1>9. Pushed'
  <2>1. \A d \in pushed' : \E i \in DOMAIN delivery' : delivery'[i].device = d
    BY <1>0, <1>1 DEF Kept, Placed, Pushed
  <2>2. ASSUME NEW q \in Runs, run'[q].at = "record", run'[q].answer = "accepted"
        PROVE  delivery'[run'[q].row].device \in pushed'
    BY <1>0, <1>2, <1>3, <1>8, <2>2 DEF Kept, Pushed
  <2>q. QED
    BY <2>1, <2>2 DEF Pushed
<1>10. pushed' # pushed => run'[r].answer = "accepted" \/ disturbed'
  BY <1>1, <1>2
<1>q. QED
  BY <1>0, <1>1, <1>2, <1>4, <1>5, <1>6, <1>7, <1>8, <1>9, <1>10 DEF Kept

\* What a claim makes of the deliveries.
WithClaim(ds, i) == [ds EXCEPT ![i].attempts = @ + 1, ![i].leased = TRUE]

(* A claim changes one delivery.                                           *)
LEMMA ClaimUpdates ==
  ASSUME NEW ds \in Seq(Deliveries), NEW i \in DOMAIN ds, NEW es, es = WithClaim(ds, i)
  PROVE  /\ Updates(ds, es)
         /\ es[i].status = ds[i].status
         /\ es[i].attempts = ds[i].attempts + 1 /\ es[i].leased
         /\ \A j \in DOMAIN ds \ {i} : es[j] = ds[j]
<1> DEFINE e == [ds[i] EXCEPT !.attempts = @ + 1, !.leased = TRUE]
<1>1. ds[i] \in Deliveries /\ ds[i].attempts \in Nat
  BY ElementIsDelivery
<1>2. ds[i] \in [device : Devices \cup {Nothing}, status : {"QUEUED", "SENT", "FAILED"},
                 attempts : Nat, leased : BOOLEAN]
  BY <1>1 DEF Deliveries
<1>3. /\ e \in Deliveries
      /\ e.status = ds[i].status /\ e.device = ds[i].device
      /\ e.attempts = ds[i].attempts + 1 /\ e.leased
  <2> DEFINE n == ds[i].attempts + 1
  <2>1. n \in Nat /\ e = [ds[i] EXCEPT !.attempts = n, !.leased = TRUE]
    BY <1>1
  <2> HIDE DEF n, e
  <2>2. /\ e \in Deliveries
        /\ e.status = ds[i].status /\ e.device = ds[i].device
        /\ e.attempts = n /\ e.leased
    BY <1>2, <2>1 DEF Deliveries
  <2>q. QED
    BY <2>2 DEF n
<1>4. es = [ds EXCEPT ![i] = e]
  BY DEF WithClaim
<1> HIDE DEF e
<1>5. ds[i].attempts <= e.attempts
  BY <1>1, <1>3
<1>6. /\ Updates(ds, [ds EXCEPT ![i] = e]) /\ [ds EXCEPT ![i] = e][i] = e
      /\ \A j \in DOMAIN ds \ {i} : [ds EXCEPT ![i] = e][j] = ds[j]
  BY <1>3, <1>5, ChangeOne
<1>q. QED
  BY <1>3, <1>4, <1>6

\* r claims i.
Claimed(r, i) ==
    /\ Updates(delivery, delivery')
    /\ delivery'[i].status = delivery[i].status
    /\ delivery'[i].attempts = delivery[i].attempts + 1 /\ delivery'[i].leased
    /\ \A j \in DOMAIN delivery \ {i} : delivery'[j] = delivery[j]
    /\ run'[r].at = "send" /\ run'[r].row = i
    /\ run'[r].attempt = delivery[i].attempts + 1
    /\ run'[r].todo = run[r].todo /\ run'[r].fit = run[r].fit

(* A run claims a delivery that no attempt holds.                          *)
LEMMA ClaimKeeps ==
  ASSUME IInv, NEW r \in Runs, NEW i \in run[r].fit, Claimable(i), pushed' = pushed,
         RunTyped, Others(r), Claimed(r, i)
  PROVE  Kept'
<1>0. /\ TypeOK /\ Kept /\ delivery \in Seq(Deliveries)
      /\ i \in DOMAIN delivery /\ i \in Nat /\ delivery[i].device # Nothing
      /\ delivery[i].status = "QUEUED" /\ delivery[i].attempts \in Nat
      /\ run[r].fit \subseteq run[r].todo /\ run[r].todo \subseteq DOMAIN delivery
  <2>1. /\ TypeOK /\ Kept /\ delivery \in Seq(Deliveries)
        /\ i \in DOMAIN delivery /\ delivery[i].device # Nothing
        /\ delivery[i].status = "QUEUED"
        /\ run[r].fit \subseteq run[r].todo /\ run[r].todo \subseteq DOMAIN delivery
    BY DEF IInv, Kept, TypeOK, Placed, Claimable
  <2>q. QED
    BY <2>1, ElementIsDelivery, LenProperties
<1>1. /\ Updates(delivery, delivery')
      /\ delivery'[i].status = delivery[i].status
      /\ delivery'[i].attempts = delivery[i].attempts + 1 /\ delivery'[i].leased
      /\ \A j \in DOMAIN delivery \ {i} : delivery'[j] = delivery[j]
  BY DEF Claimed
<1>2. /\ RunTyped /\ Others(r)
      /\ run'[r].at = "send" /\ run'[r].row = i /\ run'[r].attempt = delivery[i].attempts + 1
      /\ run'[r].todo = run[r].todo /\ run'[r].fit = run[r].fit
  BY DEF Claimed
<1> DEFINE as == delivery[i].attempts
<1>3. Advances(delivery, delivery')
  BY <1>0, <1>1, UpdatesAdvance
<1>4. ASSUME NEW q \in Runs \ {r}
      PROVE  /\ run'[q] = run[q]
             /\ run'[q].todo \subseteq DOMAIN delivery'
             /\ run'[q].fit \subseteq run'[q].todo
             /\ \A j \in run'[q].fit : /\ j \in DOMAIN delivery
                                       /\ delivery'[j].device = delivery[j].device
                                       /\ delivery'[j].device # Nothing
             /\ Sending(q)' => Sending(q) /\ run[q].row \in run[q].fit
             /\ run'[q].at = "settle" =>
                   /\ run'[q].verdict = "SENT" => SomeSent(delivery')
                   /\ run'[q].verdict = "FAILED" => AllFailed(delivery')
             /\ run'[q].at = "record" /\ run'[q].answer = "accepted" =>
                   delivery'[run'[q].row].device \in pushed'
  <2>1. run'[q] = run[q]
    BY <1>2 DEF Others
  <2>q. QED
    BY <1>0, <1>3, <2>1, BystandersKeep
<1>5. Placed'
  <2>1. \A j \in run[r].fit : delivery'[j].device # Nothing
    BY <1>0, <1>1 DEF Kept, Placed, Updates
  <2>2. DOMAIN delivery' = DOMAIN delivery
    BY <1>1 DEF Updates
  <2>q. QED
    BY <1>0, <1>2, <1>4, <2>1, <2>2 DEF Placed
\* A run that sends the same delivery has an earlier attempt.
<1>6. ASSUME NEW q \in Runs \ {r}, Sending(q)
      PROVE  /\ run'[q] = run[q] /\ run[q].row \in DOMAIN delivery
             /\ delivery'[run[q].row].status = delivery[run[q].row].status
             /\ run[q].row = i => run[q].attempt \in Nat /\ run[q].attempt <= as
             /\ run[q].row # i => delivery'[run[q].row] = delivery[run[q].row]
  <2>1. run'[q] = run[q] /\ run[q].row \in DOMAIN delivery
    BY <1>0, <1>4, <1>6 DEF Kept, Placed
  <2>2. run[q].attempt \in Nat
    BY <1>0, RunFields
  <2>3. run[q].row = i => run[q].attempt <= as
    BY <1>0, <1>6 DEF Kept, Numbered
  <2>q. QED
    BY <1>1, <2>1, <2>2, <2>3
<1>7. Numbered'
  <2> SUFFICES ASSUME NEW q \in Runs, Sending(q)', delivery'[run'[q].row].status = "QUEUED"
               PROVE  /\ run'[q].attempt <= delivery'[run'[q].row].attempts
                      /\ \A p \in Runs \ {q} : Sending(p)' /\ run'[p].row = run'[q].row =>
                            run'[p].attempt # run'[q].attempt
    BY DEF Numbered
  <2>1. CASE q = r
    <3>1. run'[q].attempt <= delivery'[run'[q].row].attempts
      BY <1>0, <1>1, <1>2, <2>1
    <3>2. ASSUME NEW p \in Runs \ {q}, Sending(p)', run'[p].row = run'[q].row
          PROVE  run'[p].attempt # run'[q].attempt
      <4>1. Sending(p) /\ run'[p] = run[p]
        BY <1>4, <2>1, <3>2
      <4>2. run[p].row = i
        BY <1>2, <2>1, <3>2, <4>1
      <4>3. run[p].attempt \in Nat /\ run[p].attempt <= as
        BY <1>6, <2>1, <4>1, <4>2
      <4>q. QED
        BY <1>0, <1>2, <2>1, <4>1, <4>3
    <3>q. QED
      BY <3>1, <3>2
  <2>2. CASE q # r
    <3>1. Sending(q) /\ run'[q] = run[q] /\ delivery[run[q].row].status = "QUEUED"
      BY <1>4, <1>6, <2>2
    <3>2. run[q].attempt <= delivery[run[q].row].attempts
      BY <1>0, <3>1 DEF Kept, Numbered
    <3>3. run'[q].attempt <= delivery'[run'[q].row].attempts
      <4>1. CASE run[q].row = i
        BY <1>0, <1>1, <1>6, <2>2, <3>1, <4>1
      <4>2. CASE run[q].row # i
        BY <1>6, <2>2, <3>1, <3>2, <4>2
      <4>q. QED
        BY <4>1, <4>2
    <3>4. ASSUME NEW p \in Runs \ {q}, Sending(p)', run'[p].row = run'[q].row
          PROVE  run'[p].attempt # run'[q].attempt
      <4>1. CASE p = r
        BY <1>0, <1>2, <1>6, <2>2, <3>1, <3>4, <4>1
      <4>2. CASE p # r
        BY <1>0, <1>4, <3>1, <3>4, <4>2 DEF Kept, Numbered
      <4>q. QED
        BY <4>1, <4>2
    <3>q. QED
      BY <3>3, <3>4
  <2>q. QED
    BY <2>1, <2>2
<1>8. ClaimIsExclusive'
  <2> SUFFICES ASSUME NEW q \in Runs, Sending(q)', ~run'[q].lapsed,
                      delivery'[run'[q].row].status = "QUEUED"
               PROVE  /\ delivery'[run'[q].row].leased
                      /\ delivery'[run'[q].row].attempts = run'[q].attempt
    BY DEF ClaimIsExclusive, Sending
  <2>1. CASE q = r
    BY <1>1, <1>2, <2>1
  <2>2. CASE q # r
    <3>1. Sending(q) /\ run'[q] = run[q] /\ delivery[run[q].row].status = "QUEUED"
      BY <1>4, <1>6, <2>2
    <3>2. delivery[run[q].row].leased /\ delivery[run[q].row].attempts = run[q].attempt
      BY <1>0, <3>1 DEF Kept, ClaimIsExclusive, Sending
    <3>3. run[q].row # i
      BY <3>2 DEF Claimable
    <3>q. QED
      BY <1>6, <2>2, <3>1, <3>2, <3>3
  <2>q. QED
    BY <2>1, <2>2
<1>9. Concluded'
  BY <1>2, <1>4 DEF Concluded
<1>10. Pushed'
  <2>1. \A d \in pushed' : \E j \in DOMAIN delivery' : delivery'[j].device = d
    BY <1>0, <1>1 DEF Kept, Pushed, Updates
  <2>q. QED
    BY <1>2, <1>4, <2>1 DEF Pushed
<1>q. QED
  BY <1>5, <1>7, <1>8, <1>9, <1>10 DEF Kept

(* A run takes the next delivery it may push, or passes over it.           *)
LEMMA ClaimSteps ==
  ASSUME IInv, NEW r \in Runs, ClaimDelivery(r)
  PROVE  /\ Kept' /\ Others(r) /\ RunTyped /\ Updates(delivery, delivery')
         /\ \A j \in DOMAIN delivery : delivery'[j].status = delivery[j].status
         /\ \/ run'[r].at = "each" /\ delivery' = delivery
            \/ run'[r].at = "send" /\ delivery[run'[r].row].status = "QUEUED"
<1>0. /\ TypeOK /\ delivery \in Seq(Deliveries) /\ pushed' = pushed
      /\ run[r].fit \subseteq run[r].todo /\ run[r].todo \subseteq DOMAIN delivery
  BY DEF IInv, TypeOK, Placed, ClaimDelivery
<1>1. PICK i \in Upcoming(r) \cap run[r].fit :
        /\ run[r].at = "each"
        /\ IF Claimable(i)
           THEN /\ delivery' = [delivery EXCEPT ![i].attempts = @ + 1, ![i].leased = TRUE]
                /\ run' = [run EXCEPT ![r].at = "send", ![r].row = i, ![r].lapsed = FALSE,
                                      ![r].attempt = delivery[i].attempts + 1]
           ELSE /\ run' = Skipped(r, i, delivery[i].status = "QUEUED")
                /\ delivery' = delivery
  BY DEF ClaimDelivery
<1>2. i \in DOMAIN delivery /\ i \in run[r].todo /\ i \in run[r].fit
  BY <1>0
<1>3. CASE Claimable(i)
  <2>1. /\ Updates(delivery, delivery')
        /\ delivery'[i].status = delivery[i].status
        /\ delivery'[i].attempts = delivery[i].attempts + 1 /\ delivery'[i].leased
        /\ \A j \in DOMAIN delivery \ {i} : delivery'[j] = delivery[j]
    <3>1. delivery' = WithClaim(delivery, i)
      BY <1>1, <1>3, Zenon DEF WithClaim
    <3>q. QED
      BY <1>0, <1>2, <3>1, ClaimUpdates
  <2> DEFINE a == delivery[i].attempts + 1
  <2>2. run' = [run EXCEPT ![r].at = "send", ![r].row = i, ![r].lapsed = FALSE, ![r].attempt = a]
    BY <1>1, <1>3, Zenon
  <2>3. i \in Nat /\ a \in Nat
    BY <1>0, <1>2, ElementIsDelivery, LenProperties
  <2> HIDE DEF a
  <2>4. /\ RunTyped /\ Others(r)
        /\ run'[r].at = "send" /\ run'[r].row = i /\ run'[r].attempt = a
        /\ run'[r].todo = run[r].todo /\ run'[r].fit = run[r].fit
    BY <1>0, <2>2, <2>3, ClaimMoves, Zenon
  <2>5. Claimed(r, i)
    BY <2>1, <2>4 DEF Claimed, a
  <2>6. Kept'
    BY <1>0, <1>2, <1>3, <2>4, <2>5, ClaimKeeps
  <2>q. QED
    BY <1>3, <2>1, <2>4, <2>6 DEF Claimable
<1>4. CASE ~Claimable(i)
  <2>1. run' = Skipped(r, i, delivery[i].status = "QUEUED") /\ delivery' = delivery
    BY <1>1, <1>4, Zenon
  <2>2. run[r].at = "each"
    BY <1>1, Zenon
  <2> DEFINE busy == delivery[i].status = "QUEUED"
  <2>3. run' = Skipped(r, i, busy) /\ busy \in BOOLEAN
    BY <2>1
  <2> HIDE DEF busy
  <2>4. Kept' /\ Others(r) /\ RunTyped /\ Updates(delivery, delivery') /\ Intact
    BY <1>0, <1>2, <2>1, <2>2, <2>3, PassingSteps, Zenon
  <2>5. run'[r].at = "each"
    BY <1>0, <2>2, <2>3, SkipMoves, Zenon
  <2>q. QED
    BY <2>1, <2>4, <2>5
<1>q. QED
  BY <1>3, <1>4

(* A lease runs out.                                                       *)
LEMMA LeaseSteps ==
  ASSUME IInv, LeaseExpires
  PROVE  /\ Kept' /\ RunTyped /\ Updates(delivery, delivery')
         /\ \A j \in DOMAIN delivery : delivery'[j].status = delivery[j].status
         /\ \A r \in Runs : /\ run'[r].at = run[r].at /\ run'[r].row = run[r].row
                            /\ run'[r].todo = run[r].todo /\ run'[r].answer = run[r].answer
<1>0. TypeOK /\ Kept /\ delivery \in Seq(Deliveries) /\ pushed' = pushed
  BY DEF IInv, Kept, TypeOK, LeaseExpires
<1> DEFINE under(i) == {r \in Runs : run[r].row = i /\ run[r].attempt = delivery[i].attempts}
<1>1. PICK i \in DOMAIN delivery :
        /\ delivery' = [delivery EXCEPT ![i].leased = FALSE]
        /\ run' = [r \in Runs |-> IF r \in under(i) THEN [run[r] EXCEPT !.lapsed = TRUE] ELSE run[r]]
  BY DEF LeaseExpires
<1> DEFINE U == under(i)
<1>2. /\ RunTyped
      /\ \A r \in Runs :
            /\ run'[r].at = run[r].at /\ run'[r].row = run[r].row
            /\ run'[r].todo = run[r].todo /\ run'[r].fit = run[r].fit
            /\ run'[r].attempt = run[r].attempt /\ run'[r].answer = run[r].answer
            /\ run'[r].verdict = run[r].verdict
            /\ ~run'[r].lapsed => ~run[r].lapsed /\ r \notin U
  <2>1. U \in SUBSET Runs
    OBVIOUS
  <2>2. run' = [r \in Runs |-> IF r \in U THEN [run[r] EXCEPT !.lapsed = TRUE] ELSE run[r]]
    BY <1>1
  <2> HIDE DEF U, under
  <2>q. QED
    BY <1>0, <2>1, <2>2, LapseMoves, Zenon
<1>3. /\ Updates(delivery, delivery')
      /\ \A j \in DOMAIN delivery : /\ delivery'[j].status = delivery[j].status
                                    /\ delivery'[j].attempts = delivery[j].attempts
                                    /\ j # i => delivery'[j] = delivery[j]
  <2> DEFINE e == [delivery[i] EXCEPT !.leased = FALSE]
  <2>1. delivery[i] \in Deliveries /\ delivery[i].attempts \in Nat
    BY <1>0, ElementIsDelivery
  <2>2. delivery[i] \in [device : Devices \cup {Nothing}, status : {"QUEUED", "SENT", "FAILED"},
                         attempts : Nat, leased : BOOLEAN]
    BY <2>1 DEF Deliveries
  <2>3. /\ e \in Deliveries
        /\ e.status = delivery[i].status /\ e.device = delivery[i].device
        /\ e.attempts = delivery[i].attempts
    BY <2>2 DEF Deliveries
  <2>4. delivery' = [delivery EXCEPT ![i] = e]
    BY <1>1
  <2> HIDE DEF e
  <2>5. delivery[i].attempts <= e.attempts
    BY <2>1, <2>3
  <2>6. /\ Updates(delivery, [delivery EXCEPT ![i] = e]) /\ [delivery EXCEPT ![i] = e][i] = e
        /\ \A j \in DOMAIN delivery \ {i} : [delivery EXCEPT ![i] = e][j] = delivery[j]
    BY <1>0, <2>3, <2>5, ChangeOne
  <2>q. QED
    BY <2>3, <2>4, <2>6
<1> HIDE DEF U
<1>4. Advances(delivery, delivery')
  BY <1>0, <1>3, UpdatesAdvance
<1>5. \A r \in Runs : Sending(r)' <=> Sending(r)
  BY <1>2 DEF Sending
<1>6. \A r \in Runs : Sending(r) => run[r].row \in DOMAIN delivery
  BY <1>0 DEF Kept, Placed
<1>7. Placed'
  <2>1. /\ DOMAIN delivery' = DOMAIN delivery
        /\ \A j \in DOMAIN delivery : delivery'[j].device = delivery[j].device
    BY <1>3 DEF Updates
  <2> SUFFICES ASSUME NEW r \in Runs
               PROVE  /\ run'[r].todo \subseteq DOMAIN delivery'
                      /\ run'[r].fit \subseteq run'[r].todo
                      /\ \A j \in run'[r].fit : delivery'[j].device # Nothing
                      /\ Sending(r)' => run'[r].row \in run'[r].fit
    BY DEF Placed
  <2>2. /\ run[r].todo \subseteq DOMAIN delivery
        /\ run[r].fit \subseteq run[r].todo
        /\ \A j \in run[r].fit : delivery[j].device # Nothing
        /\ Sending(r) => run[r].row \in run[r].fit
    BY <1>0 DEF Kept, Placed
  <2>q. QED
    BY <1>2, <1>5, <2>1, <2>2
<1>8. Numbered'
  BY <1>0, <1>2, <1>3, <1>5, <1>6 DEF Kept, Numbered
<1>9. ClaimIsExclusive'
  <2> SUFFICES ASSUME NEW q \in Runs, Sending(q)', ~run'[q].lapsed,
                      delivery'[run'[q].row].status = "QUEUED"
               PROVE  /\ delivery'[run'[q].row].leased
                      /\ delivery'[run'[q].row].attempts = run'[q].attempt
    BY DEF ClaimIsExclusive, Sending
  <2>1. /\ Sending(q) /\ ~run[q].lapsed /\ q \notin U
        /\ run'[q].row = run[q].row /\ run'[q].attempt = run[q].attempt
        /\ run[q].row \in DOMAIN delivery
    BY <1>2, <1>5, <1>6
  <2>2. delivery[run[q].row].leased /\ delivery[run[q].row].attempts = run[q].attempt
    BY <1>0, <1>3, <2>1 DEF Kept, ClaimIsExclusive, Sending
  <2>3. run[q].row # i
    BY <2>1, <2>2 DEF U
  <2>q. QED
    BY <1>3, <2>1, <2>2, <2>3
<1>10. Concluded'
  BY <1>0, <1>2, <1>4, AdvanceKeeps DEF Kept, Concluded
<1>11. Pushed'
  <2>1. /\ DOMAIN delivery' = DOMAIN delivery
        /\ \A j \in DOMAIN delivery : delivery'[j].device = delivery[j].device
    BY <1>3 DEF Updates
  <2>2. \A r \in Runs : run'[r].at = "record" => run[r].row \in DOMAIN delivery
    BY <1>2, <1>6 DEF Sending
  <2>q. QED
    BY <1>0, <1>2, <2>1, <2>2 DEF Kept, Pushed
<1>12. Kept'
  BY <1>7, <1>8, <1>9, <1>10, <1>11 DEF Kept
<1>q. QED
  BY <1>2, <1>3, <1>12

-----------------------------------------------------------------------------
(* Deliveries and claims after any step.                                   *)

\* The steps that leave deliveries and runs alone.
Elsewhere ==
    \/ \E w \in Writers : \/ Dispatch(w) \/ Recover(w) \/ WriteFails(w) \/ ExpireOffer(w)
                          \/ Enqueue(w) \/ EnqueueFails(w) \/ CrashWriter(w)
    \/ \E r \in Runs : Stall(r)
    \/ SweepRequeues \/ SweepAborts \/ LateAdd
    \/ MarkRead \/ Elapse \/ \E d \in Devices : ChangeDevice(d)

\* The steps of a run that are its own.
Moving(r) ==
    \/ StartRun(r) \/ Plan(r) \/ FailDelivery(r) \/ ClaimDelivery(r) \/ SendPush(r)
    \/ RecordAnswer(r) \/ ReadDeliveries(r) \/ Settle(r) \/ EndRun(r) \/ MarkExhausted(r)
    \/ Crash(r)

Stepping ==
    \/ Elsewhere
    \/ \E w \in Writers : Write(w) \/ Judge(w)
    \/ \E r \in Runs : Moving(r)
    \/ SweepSettles \/ LeaseExpires

(* These are all.                                                          *)
LEMMA Steps == Next => Stepping
BY DEF Next, Writing, Running, Sweeping, Stepping, Elsewhere, Moving

(* The first delivery has no device yet.                                   *)
LEMMA FirstDelivery ==
  /\ <<Row(Nothing)>> \in Seq(Deliveries) /\ <<Row(Nothing)>> # <<>>
  /\ Len(<<Row(Nothing)>>) = 1 /\ DOMAIN <<Row(Nothing)>> = {1}
  /\ <<Row(Nothing)>>[1].device = Nothing /\ <<Row(Nothing)>>[1].status = "QUEUED"
<1>1. Row(Nothing) \in Deliveries /\ Row(Nothing).device = Nothing /\ Row(Nothing).status = "QUEUED"
  BY DEF Row, Deliveries
<1> DEFINE d == Row(Nothing)
<1> HIDE DEF d
<1>2. <<d>> \in Seq(Deliveries) /\ <<d>> # <<>> /\ Len(<<d>>) = 1 /\ DOMAIN <<d>> = {1}
      /\ <<d>>[1] = d
  BY <1>1 DEF d
<1>q. QED
  BY <1>1, <1>2 DEF d

(* Writing the row.                                                        *)
LEMMA WriteSteps ==
  ASSUME IInv, NEW w \in Writers, Write(w)
  PROVE  /\ Kept' /\ run' = run /\ Advances(delivery, delivery')
         /\ \/ delivery' = delivery /\ notification # "none" /\ notification' = notification
            \/ /\ notification = "none" /\ notification' = "QUEUED" /\ delivery = <<>>
               /\ Untouched /\ delivery' = <<Row(Nothing)>>
<1>0. TypeOK /\ Kept /\ run' = run /\ pushed' = pushed
  BY DEF IInv, Kept, Write
<1>1. CASE notification = "none"
  <2>1. delivery = <<>> /\ Untouched /\ delivery' = <<Row(Nothing)>> /\ notification' = "QUEUED"
    BY <1>1 DEF Write, IInv, Begun
  <2>2. DOMAIN delivery = {}
    BY <2>1
  <2>3. \A r \in Runs : /\ run[r].at = "idle" /\ run'[r].at = "idle"
                        /\ run'[r].todo = {} /\ run'[r].fit = {}
    BY <1>0, <2>1, <2>2 DEF Untouched, Kept, Placed
  <2>4. pushed = {}
    BY <1>0, <2>2 DEF Kept, Pushed
  <2>5. Kept'
    BY <1>0, <2>3, <2>4 DEF Kept, Placed, Numbered, ClaimIsExclusive, Concluded, Pushed, Sending
  <2>6. Advances(delivery, delivery')
    BY <2>1, <2>2, FirstDelivery DEF Advances, AllFailed
  <2>q. QED
    BY <1>0, <1>1, <2>1, <2>5, <2>6, Zenon
<1>2. CASE notification # "none"
  <2>1. delivery' = delivery /\ notification' = notification
    BY <1>2 DEF Write, rows
  <2>2. Updates(delivery, delivery') /\ Intact
    BY <1>0, <2>1, StillDeliveries
  <2>3. Kept'
    BY <1>0, <2>2, StandingRunsKeep DEF Intact
  <2>4. Advances(delivery, delivery')
    BY <1>0, <2>2, UpdatesAdvance DEF TypeOK
  <2>q. QED
    BY <1>0, <1>2, <2>1, <2>3, <2>4
<1>q. QED
  BY <1>1, <1>2

(* Judging an offer.                                                       *)
LEMMA JudgeSteps ==
  ASSUME IInv, NEW w \in Writers, Judge(w)
  PROVE  /\ Kept' /\ run' = run /\ Updates(delivery, delivery')
         /\ delivery'[1].status \in {"QUEUED", "FAILED"}
         /\ elapsed => AllFailed(delivery')
         /\ ~elapsed => delivery' = delivery
<1>0. /\ TypeOK /\ Kept /\ run' = run /\ pushed' = pushed /\ delivery \in Seq(Deliveries)
      /\ Len(delivery) = 1 /\ delivery[1].status \in {"QUEUED", "FAILED"}
  BY DEF IInv, Kept, Judge, Written, TypeOK
<1>1. DOMAIN delivery = {1}
  BY <1>0, LenProperties
<1>2. CASE elapsed
  <2> DEFINE e == [delivery[1] EXCEPT !.status = "FAILED"]
  <2>1. delivery[1] \in Deliveries
    BY <1>0, <1>1, ElementIsDelivery
  <2>2. delivery[1] \in [device : Devices \cup {Nothing}, status : {"QUEUED", "SENT", "FAILED"},
                         attempts : Nat, leased : BOOLEAN]
    BY <2>1 DEF Deliveries
  <2>3. e \in Deliveries /\ e.status = "FAILED" /\ e.device = delivery[1].device
    BY <2>2 DEF Deliveries
  <2>4. delivery' = [delivery EXCEPT ![1] = e]
    BY <1>2 DEF Judge
  <2> HIDE DEF e
  <2>5. /\ Updates(delivery, [delivery EXCEPT ![1] = e]) /\ [delivery EXCEPT ![1] = e][1] = e
    BY <1>0, <1>1, <2>3, ChangeOne
  <2>6. Updates(delivery, delivery') /\ delivery'[1].status = "FAILED"
    BY <2>3, <2>4, <2>5
  <2>7. Intact
    BY <1>1, <2>6 DEF Intact
  <2>8. AllFailed(delivery')
    BY <1>1, <2>6 DEF AllFailed, Updates
  <2>q. QED
    BY <1>0, <1>2, <2>6, <2>7, <2>8, StandingRunsKeep DEF Intact
<1>3. CASE ~elapsed
  <2>1. delivery' = delivery
    BY <1>3 DEF Judge
  <2>2. Updates(delivery, delivery') /\ Intact
    BY <1>0, <2>1, StillDeliveries
  <2>q. QED
    BY <1>0, <1>3, <2>1, <2>2, StandingRunsKeep DEF Intact
<1>q. QED
  BY <1>2, <1>3

(* The sweep settles.                                                      *)
LEMMA SweepSteps ==
  ASSUME IInv, SweepSettles
  PROVE  /\ Kept' /\ run' = run /\ Updates(delivery, delivery')
<1>0. TypeOK /\ Kept /\ run' = run /\ pushed' = pushed /\ delivery \in Seq(Deliveries)
  BY DEF IInv, Kept, TypeOK, SweepSettles
<1>1. Updates(delivery, delivery') /\ Intact
  <2>1. CASE delivery' = QueuedFailed(delivery)
    BY <1>0, <2>1, QueuedFailedUpdates DEF Intact
  <2>2. CASE delivery' = delivery
    BY <1>0, <2>2, StillDeliveries
  <2>q. QED
    BY <2>1, <2>2 DEF SweepSettles
<1>q. QED
  BY <1>0, <1>1, StandingRunsKeep DEF Intact

(* A delivery that cannot be pushed to fails.                              *)
LEMMA FailSteps ==
  ASSUME IInv, NEW r \in Runs, FailDelivery(r)
  PROVE  Kept' /\ Others(r) /\ RunTyped /\ Updates(delivery, delivery') /\ run'[r].at = "each"
<1>1. PICK i \in Upcoming(r) :
        /\ run[r].at = "each" /\ delivery' = Finalized(delivery, i, "FAILED")
        /\ run' = Skipped(r, i, FALSE) /\ pushed' = pushed
  BY DEF FailDelivery
<1>2. i \in run[r].todo /\ TypeOK
  BY DEF Upcoming, IInv
<1>3. Kept' /\ Others(r) /\ RunTyped /\ Updates(delivery, delivery')
  BY <1>1, <1>2, PassingSteps
<1>4. run'[r].at = "each"
  BY <1>1, <1>2, SkipMoves
<1>q. QED
  BY <1>3, <1>4

(* Whatever happens, claims stay exclusive and deliveries advance.         *)
LEMMA StepKeeps ==
  ASSUME IInv, Stepping
  PROVE  Kept' /\ Advances(delivery, delivery') /\ run' \in [Runs -> RunStates]
<1>0. TypeOK /\ Kept /\ delivery \in Seq(Deliveries) /\ run \in [Runs -> RunStates]
  BY DEF IInv, Kept, TypeOK
<1>1. CASE Elsewhere
  <2>1. delivery' = delivery /\ run' = run /\ pushed' = pushed
    BY <1>1 DEF Elsewhere, rows, Dispatch, Recover, WriteFails, ExpireOffer, Enqueue,
       EnqueueFails, CrashWriter, Stall, SweepRequeues, SweepAborts, LateAdd, MarkRead, Elapse,
       ChangeDevice
  <2>2. Updates(delivery, delivery') /\ Intact
    BY <1>0, <2>1, StillDeliveries
  <2>q. QED
    BY <1>0, <2>1, <2>2, StandingRunsKeep, UpdatesAdvance DEF Intact
<1>2. ASSUME NEW w \in Writers, Write(w)
      PROVE  Kept' /\ Advances(delivery, delivery') /\ run' \in [Runs -> RunStates]
  BY <1>0, <1>2, WriteSteps
<1>3. ASSUME NEW w \in Writers, Judge(w)
      PROVE  Kept' /\ Advances(delivery, delivery') /\ run' \in [Runs -> RunStates]
  BY <1>0, <1>3, JudgeSteps, UpdatesAdvance
<1>4. ASSUME NEW r \in Runs, Moving(r)
      PROVE  Kept' /\ Advances(delivery, delivery') /\ run' \in [Runs -> RunStates]
  <2>1. CASE StartRun(r) \/ ReadDeliveries(r) \/ Settle(r) \/ EndRun(r) \/ Crash(r)
    <3>1. delivery' = delivery
      BY <2>1 DEF rows, StartRun, ReadDeliveries, Settle, EndRun, Crash
    <3>2. Updates(delivery, delivery')
      BY <1>0, <3>1, StillDeliveries
    <3>q. QED
      BY <1>0, <2>1, <3>2, UnsentSteps, UpdatesAdvance DEF RunTyped
  <2>2. CASE Plan(r)
    BY <2>2, PlanSteps DEF RunTyped
  <2>3. CASE FailDelivery(r)
    BY <1>0, <2>3, FailSteps, UpdatesAdvance DEF RunTyped
  <2>4. CASE ClaimDelivery(r)
    BY <1>0, <2>4, ClaimSteps, UpdatesAdvance DEF RunTyped
  <2>5. CASE SendPush(r)
    <3>1. Kept' /\ RunTyped /\ delivery' = delivery
      BY <2>5, SendSteps
    <3>2. Updates(delivery, delivery')
      BY <1>0, <3>1, StillDeliveries
    <3>q. QED
      BY <1>0, <3>1, <3>2, UpdatesAdvance DEF RunTyped
  <2>6. CASE RecordAnswer(r)
    BY <1>0, <2>6, RecordSteps, UpdatesAdvance DEF RunTyped
  <2>7. CASE MarkExhausted(r)
    BY <1>0, <2>7, ExhaustSteps, UpdatesAdvance DEF RunTyped
  <2>q. QED
    BY <1>4, <2>1, <2>2, <2>3, <2>4, <2>5, <2>6, <2>7 DEF Moving
<1>5. CASE SweepSettles
  BY <1>0, <1>5, SweepSteps, UpdatesAdvance
<1>6. CASE LeaseExpires
  BY <1>0, <1>6, LeaseSteps, UpdatesAdvance DEF RunTyped
<1>q. QED
  BY <1>1, <1>2, <1>3, <1>4, <1>5, <1>6 DEF Stepping

-----------------------------------------------------------------------------
(* The job, the writers and the rest.                                      *)

(* The job that a second add finds is the one there is.                    *)
LEMMA AddMoves ==
  ASSUME TypeOK
  PROVE  /\ Added \in JobStates /\ Added.state = "waiting" /\ Added.owner = Nothing
         /\ AddTo(job) = IF job.state = "missing" THEN Added ELSE job
         /\ AddTo(job) \in JobStates
<1>1. job \in JobStates
  BY DEF TypeOK
<1>2. Added \in JobStates /\ Added.state = "waiting" /\ Added.owner = Nothing
  BY DEF Added, Missing, JobStates
<1>q. QED
  BY <1>1, <1>2 DEF AddTo

(* The queue takes a result only from the owner.                           *)
LEMMA CompletedMoves ==
  ASSUME TypeOK, NEW r \in Runs
  PROVE  /\ Completed(r) \in JobStates
         /\ job.owner # r => Completed(r) = job
         /\ job.owner = r => Completed(r).state = "completed" /\ Completed(r).owner = Nothing
<1>1. job \in [state : {"missing", "waiting", "active", "completed", "failed"},
               made : Nat, stalls : 0..1, owner : Runs \cup {Nothing}]
  BY DEF TypeOK, JobStates
<1>q. QED
  BY <1>1 DEF Completed, JobStates

(* The state of a job changes.                                             *)
LEMMA JobState ==
  ASSUME NEW j \in JobStates,
         NEW s \in {"missing", "waiting", "active", "completed", "failed"},
         NEW k, k = [j EXCEPT !.state = s]
  PROVE  k \in JobStates /\ k.state = s /\ k.owner = j.owner
<1>1. j \in [state : {"missing", "waiting", "active", "completed", "failed"},
             made : Nat, stalls : 0..1, owner : Runs \cup {Nothing}]
  BY DEF JobStates
<1>q. QED
  BY <1>1 DEF JobStates

(* So do its other fields.                                                 *)
LEMMA JobFields ==
  ASSUME NEW j \in JobStates
  PROVE  /\ [j EXCEPT !.stalls = 1] \in JobStates /\ [j EXCEPT !.stalls = 1].state = j.state
         /\ [j EXCEPT !.owner = Nothing] \in JobStates
         /\ [j EXCEPT !.owner = Nothing].owner = Nothing
         /\ [j EXCEPT !.owner = Nothing].state = j.state
         /\ [j EXCEPT !.made = @ + 1] \in JobStates
<1>1. j \in [state : {"missing", "waiting", "active", "completed", "failed"},
             made : Nat, stalls : 0..1, owner : Runs \cup {Nothing}]
  BY DEF JobStates
<1>2. [j EXCEPT !.stalls = 1] \in JobStates /\ [j EXCEPT !.stalls = 1].state = j.state
  BY <1>1 DEF JobStates
<1>3. /\ [j EXCEPT !.owner = Nothing] \in JobStates
      /\ [j EXCEPT !.owner = Nothing].owner = Nothing
      /\ [j EXCEPT !.owner = Nothing].state = j.state
  BY <1>1 DEF JobStates
<1>4. [j EXCEPT !.made = @ + 1] \in JobStates
  BY <1>1 DEF JobStates
<1>q. QED
  BY <1>2, <1>3, <1>4

(* It puts back, or gives up, the job of a run it lost sight of.           *)
LEMMA StalledMoves ==
  ASSUME TypeOK, NEW r \in Runs
  PROVE  /\ Stalled(r) \in JobStates
         /\ job.owner # r => Stalled(r) = job
         /\ job.owner = r => Stalled(r).state \in {"waiting", "failed"} /\ Stalled(r).owner = Nothing
<1>1. job \in [state : {"missing", "waiting", "active", "completed", "failed"},
               made : Nat, stalls : 0..1, owner : Runs \cup {Nothing}]
  BY DEF TypeOK, JobStates
<1>2. CASE job.owner # r
  BY <1>1, <1>2 DEF Stalled, JobStates
<1>3. CASE job.owner = r /\ job.stalls = 0
  <2>1. Stalled(r) = [job EXCEPT !.state = "waiting", !.stalls = 1, !.owner = Nothing]
    BY <1>3 DEF Stalled
  <2> DEFINE a == [job EXCEPT !.state = "waiting"]
             b == [a EXCEPT !.stalls = 1]
  <2>2. a \in JobStates /\ a.state = "waiting"
    BY JobState DEF TypeOK
  <2>3. Stalled(r) = [b EXCEPT !.owner = Nothing]
    BY <2>1
  <2> HIDE DEF a
  <2>4. b \in JobStates /\ b.state = "waiting"
    BY <2>2, JobFields
  <2> HIDE DEF b
  <2>5. Stalled(r) \in JobStates /\ Stalled(r).state = "waiting" /\ Stalled(r).owner = Nothing
    BY <2>3, <2>4, JobFields
  <2>q. QED
    BY <1>3, <2>5
<1>4. CASE job.owner = r /\ job.stalls # 0
  <2>1. Stalled(r) = [job EXCEPT !.state = "failed", !.owner = Nothing]
    BY <1>4 DEF Stalled
  <2>q. QED
    BY <1>1, <1>4, <2>1 DEF JobStates
<1>q. QED
  BY <1>2, <1>3, <1>4

(* A run makes the job its own.                                            *)
LEMMA TakenMoves ==
  ASSUME TypeOK, NEW r \in Runs, StartRun(r)
  PROVE  /\ job' \in JobStates /\ job'.state = "active" /\ job'.owner = r
         /\ job.state = "waiting" /\ run[r].at = "idle"
<1>1. job \in [state : {"missing", "waiting", "active", "completed", "failed"},
               made : Nat, stalls : 0..1, owner : Runs \cup {Nothing}]
  BY DEF TypeOK, JobStates
<1>2. job' = [job EXCEPT !.state = "active", !.owner = r] /\ job.state = "waiting" /\ run[r].at = "idle"
  BY DEF StartRun
<1>q. QED
  BY <1>1, <1>2 DEF JobStates

(* A run that ends gives its job back.                                     *)
LEMMA EndMoves ==
  ASSUME TypeOK, NEW r \in Runs, EndRun(r)
  PROVE  /\ job' \in JobStates
         /\ job.owner # r => job' = job
         /\ job.owner = r => job'.owner = Nothing /\ job'.state \in {"completed", "failed", "waiting"}
         /\ RunTyped /\ Others(r)
         /\ run'[r].todo = {} /\ run'[r].fit = {}
         /\ \/ run'[r].at = "idle"
            \/ run'[r].at = "exhaust" /\ job.owner = r /\ job'.state = "failed"
<1>1. job \in [state : {"missing", "waiting", "active", "completed", "failed"},
               made : Nat, stalls : 0..1, owner : Runs \cup {Nothing}]
  BY DEF TypeOK, JobStates
<1> DEFINE last == job.made + 1 >= Attempts
<1>2. CASE job.owner = r /\ run[r].again
  <2>1. /\ job' = [job EXCEPT !.made = @ + 1, !.owner = Nothing,
                              !.state = IF last THEN "failed" ELSE "waiting"]
        /\ run' = [run EXCEPT ![r] = IF last THEN [Idle EXCEPT !.at = "exhaust"] ELSE Idle]
    BY <1>2 DEF EndRun
  <2> DEFINE x == IF last THEN [Idle EXCEPT !.at = "exhaust"] ELSE Idle
  <2>2. /\ x \in RunStates /\ x.todo = {} /\ x.fit = {}
        /\ x.at = IF last THEN "exhaust" ELSE "idle"
    BY IdleRuns
  <2>3. run' = [run EXCEPT ![r] = x]
    BY <2>1
  <2> HIDE DEF x
  <2>4. RunTyped /\ Others(r) /\ run'[r] = x
    BY <2>2, <2>3, OneMoves
  <2> DEFINE s == IF last THEN "failed" ELSE "waiting"
             a == [job EXCEPT !.made = @ + 1]
             b == [a EXCEPT !.owner = Nothing]
  <2>6. a \in JobStates
    BY JobFields DEF TypeOK
  <2>7. job' = [b EXCEPT !.state = s]
    BY <2>1
  <2> HIDE DEF a
  <2>8. b \in JobStates /\ b.owner = Nothing
    BY <2>6, JobFields
  <2>9. s \in {"missing", "waiting", "active", "completed", "failed"}
    OBVIOUS
  <2> HIDE DEF b, s
  <2>10. job' \in JobStates /\ job'.owner = Nothing /\ job'.state = s
    BY <2>7, <2>8, <2>9, JobState
  <2>5. /\ job' \in JobStates /\ job'.owner = Nothing
        /\ job'.state = IF last THEN "failed" ELSE "waiting"
    BY <2>10 DEF s
  <2>q. QED
    BY <1>2, <2>2, <2>4, <2>5
<1>3. CASE ~(job.owner = r /\ run[r].again)
  <2>1. job' = Completed(r) /\ run' = [run EXCEPT ![r] = Idle]
    BY <1>3 DEF EndRun
  <2>2. /\ RunTyped /\ Others(r)
        /\ run'[r].at = "idle" /\ run'[r].todo = {} /\ run'[r].fit = {}
    BY <2>1, IdleMoves
  <2>q. QED
    BY <2>1, <2>2, CompletedMoves
<1>q. QED
  BY <1>2, <1>3

(* The job stays one.                                                      *)
LEMMA JobTyped ==
  ASSUME TypeOK, Stepping
  PROVE  job' \in JobStates
<1>0. job \in JobStates
  BY DEF TypeOK
<1>1. CASE Elsewhere
  <2>1. job' \in {job, AddTo(job), Added} \/ \E r \in Runs : job' = Stalled(r)
    BY <1>1 DEF Elsewhere, queue, Dispatch, Recover, WriteFails, ExpireOffer, Enqueue,
       EnqueueFails, CrashWriter, Stall, SweepRequeues, SweepAborts, LateAdd, MarkRead, Elapse,
       ChangeDevice
  <2>q. QED
    BY <1>0, <2>1, AddMoves, StalledMoves
<1>2. ASSUME NEW w \in Writers, Write(w) \/ Judge(w)
      PROVE  job' \in JobStates
  BY <1>0, <1>2 DEF Write, Judge, queue
<1>3. ASSUME NEW r \in Runs, Moving(r)
      PROVE  job' \in JobStates
  <2>1. CASE StartRun(r)
    BY <2>1, TakenMoves
  <2>2. CASE EndRun(r)
    BY <2>2, EndMoves
  <2>3. CASE Crash(r)
    BY <2>3, StalledMoves DEF Crash
  <2>4. CASE Plan(r)
    BY <1>0, <2>4, CompletedMoves DEF Plan
  <2>5. CASE FailDelivery(r) \/ ClaimDelivery(r) \/ SendPush(r) \/ RecordAnswer(r)
             \/ ReadDeliveries(r) \/ Settle(r) \/ MarkExhausted(r)
    <3>1. job' = job
      BY <2>5 DEF FailDelivery, ClaimDelivery, SendPush, RecordAnswer, ReadDeliveries, Settle,
         MarkExhausted, queue
    <3>q. QED
      BY <1>0, <3>1
  <2>q. QED
    BY <1>3, <2>1, <2>2, <2>3, <2>4, <2>5 DEF Moving
<1>4. CASE SweepSettles \/ LeaseExpires
  BY <1>0, <1>4 DEF SweepSettles, LeaseExpires, queue
<1>q. QED
  BY <1>1, <1>2, <1>3, <1>4 DEF Stepping

OtherWriters(w) == \A v \in Writers \ {w} : writer'[v] = writer[v]

WriterTyped == writer' \in [Writers -> WriterStates]

(* A writer goes on.                                                       *)
LEMMA WriterGoes ==
  ASSUME TypeOK, NEW w \in Writers,
         NEW at \in {"idle", "write", "judge", "expire", "enqueue"},
         writer' = [writer EXCEPT ![w].at = at]
  PROVE  WriterTyped /\ OtherWriters(w) /\ writer'[w].at = at
<1>1. /\ writer \in [Writers -> WriterStates]
      /\ writer[w] \in [at : {"idle", "write", "judge", "expire", "enqueue"}, recovering : BOOLEAN]
  BY DEF TypeOK, WriterStates
<1> DEFINE x == [writer[w] EXCEPT !.at = at]
<1>2. x \in WriterStates /\ x.at = at
  BY <1>1 DEF WriterStates
<1>3. writer' = [writer EXCEPT ![w] = x]
  OBVIOUS
<1> HIDE DEF x
<1>q. QED
  BY <1>1, <1>2, <1>3 DEF WriterTyped, OtherWriters

(* A writer starts afresh, or is done.                                     *)
LEMMA WriterStarts ==
  ASSUME TypeOK, NEW w \in Writers, NEW at \in {"idle", "write"}, NEW b \in BOOLEAN,
         writer' = [writer EXCEPT ![w] = [at |-> at, recovering |-> b]]
  PROVE  WriterTyped /\ OtherWriters(w) /\ writer'[w].at = at
<1>1. writer \in [Writers -> WriterStates]
  BY DEF TypeOK
<1> DEFINE x == [at |-> at, recovering |-> b]
<1>2. x \in WriterStates /\ x.at = at
  BY DEF WriterStates
<1> HIDE DEF x
<1>3. writer' = [writer EXCEPT ![w] = x]
  BY DEF x
<1>q. QED
  BY <1>1, <1>2, <1>3 DEF WriterTyped, OtherWriters

\* The steps of a writer that are its own.
WriterActs(w) ==
    \/ Dispatch(w) \/ Recover(w) \/ Write(w) \/ WriteFails(w) \/ Judge(w) \/ ExpireOffer(w)
    \/ Enqueue(w) \/ EnqueueFails(w) \/ CrashWriter(w)

(* Only its own steps move a writer, and only two lead it past the row.    *)
LEMMA WriterSteps ==
  ASSUME TypeOK, NEW w \in Writers, WriterActs(w)
  PROVE  /\ WriterTyped /\ OtherWriters(w)
         /\ \/ writer'[w].at \in {"idle", "write"}
            \/ /\ Write(w) /\ notification = "none"
               /\ writer'[w].at = IF offer THEN "judge" ELSE "enqueue"
            \/ Judge(w) /\ writer'[w].at = IF elapsed THEN "expire" ELSE "enqueue"
<1>1. CASE Dispatch(w)
  BY <1>1, WriterGoes DEF Dispatch
<1>2. CASE Recover(w)
  <2>1. CASE elapsed
    BY <1>2, <2>1 DEF Recover, TypeOK, WriterTyped, OtherWriters
  <2>2. CASE ~elapsed
    BY <1>2, <2>2, WriterStarts DEF Recover
  <2>q. QED
    BY <2>1, <2>2
<1>3. CASE Write(w)
  <2>1. CASE notification = "none"
    <3> DEFINE at == IF offer THEN "judge" ELSE "enqueue"
    <3>1. writer' = [writer EXCEPT ![w].at = at]
      BY <1>3, <2>1 DEF Write
    <3>2. at \in {"idle", "write", "judge", "expire", "enqueue"}
      OBVIOUS
    <3> HIDE DEF at
    <3>3. WriterTyped /\ OtherWriters(w) /\ writer'[w].at = at
      BY <3>1, <3>2, WriterGoes, Zenon
    <3>q. QED
      BY <1>3, <2>1, <3>3 DEF at
  <2>2. CASE notification # "none"
    BY <1>3, <2>2, WriterStarts DEF Write, Return
  <2>q. QED
    BY <2>1, <2>2
<1>4. CASE Judge(w)
  <2> DEFINE at == IF elapsed THEN "expire" ELSE "enqueue"
  <2>1. writer' = [writer EXCEPT ![w].at = at]
    BY <1>4 DEF Judge
  <2>2. at \in {"idle", "write", "judge", "expire", "enqueue"}
    OBVIOUS
  <2> HIDE DEF at
  <2>3. WriterTyped /\ OtherWriters(w) /\ writer'[w].at = at
    BY <2>1, <2>2, WriterGoes, Zenon
  <2>q. QED
    BY <1>4, <2>3 DEF at
<1>5. CASE WriteFails(w) \/ ExpireOffer(w) \/ Enqueue(w) \/ EnqueueFails(w) \/ CrashWriter(w)
  <2>1. writer' = [writer EXCEPT ![w] = [at |-> "idle", recovering |-> FALSE]]
    BY <1>5 DEF WriteFails, ExpireOffer, Enqueue, EnqueueFails, CrashWriter, Return
  <2>q. QED
    BY <2>1, WriterStarts
<1>q. QED
  BY <1>1, <1>2, <1>3, <1>4, <1>5 DEF WriterActs

(* Writers stay what they are.                                             *)
LEMMA OtherSteps ==
  ASSUME Stepping
  PROVE  (\E w \in Writers : WriterActs(w)) \/ writer' = writer
<1>1. CASE Elsewhere
  BY <1>1 DEF Elsewhere, WriterActs, Stall, SweepRequeues, SweepAborts, LateAdd, MarkRead, Elapse,
     ChangeDevice
<1>2. ASSUME NEW w \in Writers, Write(w) \/ Judge(w)
      PROVE  WriterActs(w)
  BY <1>2 DEF WriterActs
<1>3. ASSUME NEW r \in Runs, Moving(r)
      PROVE  writer' = writer
  BY <1>3, Zenon DEF Moving, StartRun, Plan, FailDelivery, ClaimDelivery, SendPush, RecordAnswer,
     ReadDeliveries, Settle, EndRun, MarkExhausted, Crash
<1>4. CASE SweepSettles \/ LeaseExpires
  BY <1>4 DEF SweepSettles, LeaseExpires
<1>q. QED
  BY <1>1, <1>2, <1>3, <1>4 DEF Stepping

(* Only a push adds to what was pushed.                                    *)
LEMMA OnlyPushes ==
  ASSUME Stepping
  PROVE  (\E r \in Runs : SendPush(r)) \/ pushed' = pushed
<1>1. CASE Elsewhere
  BY <1>1 DEF Elsewhere, Dispatch, Recover, WriteFails, ExpireOffer, Enqueue,
     EnqueueFails, CrashWriter, Stall, SweepRequeues, SweepAborts, LateAdd, MarkRead, Elapse,
     ChangeDevice
<1>2. ASSUME NEW w \in Writers, Write(w) \/ Judge(w)
      PROVE  pushed' = pushed
  BY <1>2 DEF Write, Judge
<1>3. ASSUME NEW r \in Runs, Moving(r)
      PROVE  SendPush(r) \/ pushed' = pushed
  BY <1>3, Zenon DEF Moving, StartRun, Plan, FailDelivery, ClaimDelivery, RecordAnswer,
     ReadDeliveries, Settle, EndRun, MarkExhausted, Crash
<1>4. CASE SweepSettles \/ LeaseExpires
  BY <1>4 DEF SweepSettles, LeaseExpires
<1>q. QED
  BY <1>1, <1>2, <1>3, <1>4 DEF Stepping

(* What a push adds is a device.                                           *)
LEMMA PushedTyped ==
  ASSUME IInv, Stepping
  PROVE  pushed' \in SUBSET Devices
<1>0. pushed \in SUBSET Devices /\ Placed /\ delivery \in Seq(Deliveries)
  BY DEF IInv, TypeOK
<1>1. ASSUME NEW r \in Runs, SendPush(r)
      PROVE  pushed' \in SUBSET Devices
  <2>1. pushed' \in {pushed, pushed \cup {delivery[run[r].row].device}}
    BY <1>1, SendSteps
  <2>2. run[r].at = "send"
    BY <1>1 DEF SendPush
  <2>3. run[r].row \in DOMAIN delivery /\ delivery[run[r].row].device # Nothing
    BY <1>0, <2>2 DEF Placed, Sending
  <2>4. delivery[run[r].row].device \in Devices
    BY <1>0, <2>3, ElementIsDelivery
  <2>q. QED
    BY <1>0, <2>1, <2>4
<1>q. QED
  BY <1>0, <1>1, OnlyPushes

\* The rest of the state, in its types.
WorldTyped ==
    /\ offer' \in BOOLEAN /\ elapsed' \in BOOLEAN /\ published' \in BOOLEAN /\ passed' \in BOOLEAN
    /\ reachable' \in SUBSET Devices
    /\ late' \in BOOLEAN /\ disturbed' \in BOOLEAN /\ surprises' \in Nat

(* It stays so.                                                            *)
LEMMA WorldSteps ==
  ASSUME TypeOK, Stepping
  PROVE  WorldTyped
<1>0. /\ offer \in BOOLEAN /\ elapsed \in BOOLEAN /\ published \in BOOLEAN /\ passed \in BOOLEAN
      /\ reachable \in SUBSET Devices
      /\ late \in BOOLEAN /\ disturbed \in BOOLEAN /\ surprises \in Nat
      /\ \A w \in Writers : writer[w].recovering \in BOOLEAN
  BY DEF TypeOK, WriterStates
<1>1. ASSUME NEW w \in Writers, WriterActs(w)
      PROVE  WorldTyped
  <2>1. /\ offer' = offer /\ elapsed' = elapsed /\ reachable' = reachable /\ disturbed' = disturbed
    BY <1>1, Zenon DEF WriterActs, Dispatch, Recover, Write, WriteFails, Judge, ExpireOffer, Enqueue,
       EnqueueFails, CrashWriter, world
  <2>2. published' \in BOOLEAN /\ passed' \in BOOLEAN
    BY <1>0, <1>1 DEF WriterActs, Dispatch, Recover, Write, WriteFails, Judge, ExpireOffer, Enqueue,
       EnqueueFails, CrashWriter, Return, event
  <2>3. late' \in {late, TRUE} /\ surprises' \in {surprises, surprises + 1}
    <3>1. CASE EnqueueFails(w)
      BY <3>1, Zenon DEF EnqueueFails, Surprise
    <3>2. CASE ~EnqueueFails(w)
      <4>1. late' = late
        BY <1>1, <3>2, Zenon DEF WriterActs, Dispatch, Recover, Write, WriteFails, Judge,
           ExpireOffer, Enqueue, CrashWriter, queue
      <4>2. surprises' \in {surprises, surprises + 1}
        BY <1>1, <3>2, Zenon DEF WriterActs, Dispatch, Recover, Write, WriteFails, Judge,
           ExpireOffer, Enqueue, CrashWriter, Surprise
      <4>q. QED
        BY <4>1, <4>2
    <3>q. QED
      BY <3>1, <3>2
  <2>4. late' \in BOOLEAN
    BY <1>0, <2>3, Zenon
  <2>5. surprises' \in Nat
    BY <1>0, <2>3
  <2>q. QED
    BY <1>0, <2>1, <2>2, <2>4, <2>5, Zenon DEF WorldTyped
<1>2. ASSUME NEW r \in Runs, Moving(r)
      PROVE  WorldTyped
  <2>1. CASE ~SendPush(r) /\ ~Crash(r)
    <3>1. /\ offer' = offer /\ elapsed' = elapsed /\ published' = published /\ passed' = passed
          /\ reachable' = reachable /\ late' = late /\ disturbed' = disturbed
          /\ surprises' = surprises
      BY <1>2, <2>1, Zenon DEF Moving, StartRun, Plan, FailDelivery, ClaimDelivery, RecordAnswer,
         ReadDeliveries, Settle, EndRun, MarkExhausted, world, event, queue
    <3>q. QED
      BY <1>0, <3>1 DEF WorldTyped
  <2>2. CASE SendPush(r)
    <3>1. /\ offer' = offer /\ elapsed' = elapsed /\ published' = published /\ passed' = passed
          /\ reachable' = reachable /\ late' = late
      BY <2>2, Zenon DEF SendPush, world, event, queue
    <3>2. PICK unheard \in BOOLEAN : /\ disturbed' = (disturbed \/ unheard)
                                     /\ surprises' \in {surprises, surprises + 1}
      BY <2>2 DEF SendPush, Surprise
    <3>q. QED
      BY <1>0, <3>1, <3>2 DEF WorldTyped
  <2>3. CASE Crash(r)
    <3>1. /\ offer' = offer /\ elapsed' = elapsed /\ published' = published /\ passed' = passed
          /\ reachable' = reachable /\ late' = late /\ disturbed' = TRUE
          /\ surprises' = surprises + 1
      BY <2>3, Zenon DEF Crash, Surprise, world, event
    <3>q. QED
      BY <1>0, <3>1 DEF WorldTyped
  <2>q. QED
    BY <2>1, <2>2, <2>3
<1>3. ASSUME NEW r \in Runs, Stall(r)
      PROVE  WorldTyped
  BY <1>0, <1>3 DEF WorldTyped, Stall, Surprise, world, event
<1>4. CASE LeaseExpires
  <2>1. /\ offer' = offer /\ elapsed' = elapsed /\ published' = published /\ passed' = passed
        /\ reachable' = reachable /\ late' = late
        /\ surprises' \in {surprises, surprises + 1} /\ disturbed' \in BOOLEAN
    BY <1>0, <1>4, Zenon DEF LeaseExpires, Surprise, world, event, queue
  <2>q. QED
    BY <1>0, <2>1 DEF WorldTyped
<1>5. CASE SweepSettles \/ SweepRequeues \/ SweepAborts \/ LateAdd \/ MarkRead \/ Elapse
           \/ \E d \in Devices : ChangeDevice(d)
  <2>1. CASE \E d \in Devices : ChangeDevice(d)
    BY <1>0, <2>1 DEF WorldTyped, ChangeDevice, Surprise, event, queue
  <2>2. CASE SweepSettles \/ SweepRequeues \/ SweepAborts \/ LateAdd \/ MarkRead \/ Elapse
    <3>1. /\ offer' = offer /\ elapsed' \in {elapsed, TRUE}
          /\ published' = published /\ passed' = passed /\ reachable' = reachable
          /\ late' \in {late, TRUE, FALSE} /\ disturbed' = disturbed
      BY <2>2, Zenon DEF SweepSettles, SweepRequeues, SweepAborts, LateAdd, MarkRead, Elapse,
         world, event, queue
    <3>2. surprises' \in {surprises, surprises + 1}
      BY <2>2, Zenon DEF SweepSettles, SweepRequeues, SweepAborts, LateAdd, MarkRead, Elapse,
         Surprise
    <3>3. elapsed' \in BOOLEAN /\ late' \in BOOLEAN
      BY <1>0, <3>1, Zenon
    <3>4. surprises' \in Nat
      BY <1>0, <3>2
    <3>q. QED
      BY <1>0, <3>1, <3>3, <3>4, Zenon DEF WorldTyped
  <2>q. QED
    BY <1>5, <2>1, <2>2
<1>q. QED
  BY <1>1, <1>2, <1>3, <1>4, <1>5, Zenon DEF Stepping, Elsewhere, WriterActs

(* What settleNotification writes.                                         *)
LEMMA SettledStates ==
  ASSUME NEW s \in {"none", "QUEUED", "SENT", "FAILED", "READ"},
         NEW v \in {"open", "SENT", "FAILED"}
  PROVE  /\ SettledAs(s, v) \in {s, v}
         /\ SettledAs(s, v) # "open"
         /\ SettledAs(s, v) # s => s \in {"QUEUED", "FAILED"}
         /\ s = "FAILED" /\ SettledAs(s, v) = "FAILED" => v # "SENT"
BY DEF SettledAs

(* What a step makes of the row.                                           *)
LEMMA RowSteps ==
  ASSUME IInv, Stepping
  PROVE  \/ notification' = notification
         \/ \E w \in Writers : Write(w) /\ notification = "none" /\ notification' = "QUEUED"
         \/ \E w \in Writers : ExpireOffer(w) /\ notification' = "FAILED"
         \/ \E r \in Runs : Settle(r) /\ notification' = SettledAs(notification, run[r].verdict)
         \/ SweepSettles /\ notification' = SettledAs(notification, VerdictOf(delivery'))
         \/ notification # "none" /\ notification' = "READ"
<1>1. CASE Elsewhere
  BY <1>1, Zenon DEF Elsewhere, Dispatch, Recover, WriteFails, ExpireOffer, Enqueue, EnqueueFails,
     CrashWriter, Stall, SweepRequeues, SweepAborts, LateAdd, MarkRead, Elapse, ChangeDevice, rows
<1>2. ASSUME NEW w \in Writers, Write(w) \/ Judge(w)
      PROVE  \/ notification' = notification
             \/ Write(w) /\ notification = "none" /\ notification' = "QUEUED"
  <2>1. CASE Judge(w)
    BY <2>1, Zenon DEF Judge
  <2>2. CASE Write(w)
    <3>1. CASE notification = "none"
      BY <2>2, <3>1, Zenon DEF Write
    <3>2. CASE notification # "none"
      BY <2>2, <3>2, Zenon DEF Write, rows
    <3>q. QED
      BY <3>1, <3>2
  <2>q. QED
    BY <1>2, <2>1, <2>2
<1>3. ASSUME NEW r \in Runs, Moving(r)
      PROVE  \/ notification' = notification
             \/ Settle(r) /\ notification' = SettledAs(notification, run[r].verdict)
  BY <1>3, Zenon DEF Moving, StartRun, Plan, FailDelivery, ClaimDelivery, SendPush, RecordAnswer,
     ReadDeliveries, Settle, EndRun, MarkExhausted, Crash, rows
<1>4. CASE SweepSettles
  BY <1>4 DEF SweepSettles
<1>5. CASE LeaseExpires
  BY <1>5, Zenon DEF LeaseExpires
<1>q. QED
  BY <1>1, <1>2, <1>3, <1>4, <1>5, Zenon DEF Stepping

(* Everything stays in its type.                                           *)
LEMMA TypePreserved ==
  ASSUME IInv, Stepping
  PROVE  TypeOK'
<1>0. TypeOK
  BY DEF IInv
<1>1. delivery' \in Seq(Deliveries) /\ run' \in [Runs -> RunStates]
  BY StepKeeps DEF Advances
<1>2. job' \in JobStates
  BY <1>0, JobTyped
<1>3. writer' \in [Writers -> WriterStates]
  <2>1. CASE \E w \in Writers : WriterActs(w)
    BY <1>0, <2>1, WriterSteps DEF WriterTyped
  <2>2. CASE writer' = writer
    BY <1>0, <2>2 DEF TypeOK
  <2>q. QED
    BY <2>1, <2>2, OtherSteps
<1>4. notification' \in {"none", "QUEUED", "SENT", "FAILED", "READ"}
  <2>0. notification \in {"none", "QUEUED", "SENT", "FAILED", "READ"}
    BY <1>0 DEF TypeOK
  <2>1. ASSUME NEW v \in {"open", "SENT", "FAILED"}, notification' = SettledAs(notification, v)
        PROVE  notification' \in {"none", "QUEUED", "SENT", "FAILED", "READ"}
    BY <2>0, <2>1, SettledStates
  <2>2. \A r \in Runs : run[r].verdict \in {"open", "SENT", "FAILED"}
    BY <1>0, RunFields
  <2>3. VerdictOf(delivery') \in {"open", "SENT", "FAILED"}
    BY VerdictIsTrue
  <2>q. QED
    BY <2>0, <2>1, <2>2, <2>3, RowSteps, Zenon
<1>5. WorldTyped
  BY <1>0, WorldSteps
<1>6. pushed' \in SUBSET Devices
  BY PushedTyped
<1>q. QED
  BY <1>1, <1>2, <1>3, <1>4, <1>5, <1>6 DEF TypeOK, WorldTyped

-----------------------------------------------------------------------------
(* The writers.                                                            *)

(* The kind of the event does not change.                                  *)
LEMMA OfferStays ==
  ASSUME Stepping
  PROVE  offer' = offer
<1>1. ASSUME NEW r \in Runs, Moving(r)
      PROVE  offer' = offer
  BY <1>1, Zenon DEF Moving, StartRun, Plan, FailDelivery, ClaimDelivery, SendPush, RecordAnswer,
     ReadDeliveries, Settle, EndRun, MarkExhausted, Crash, world
<1>2. ASSUME NEW w \in Writers, Write(w) \/ Judge(w)
      PROVE  offer' = offer
  BY <1>2, Zenon DEF Write, Judge, world
<1>3. CASE Elsewhere
  BY <1>3, Zenon DEF Elsewhere, Dispatch, Recover, WriteFails, ExpireOffer, Enqueue, EnqueueFails,
     CrashWriter, Stall, SweepRequeues, SweepAborts, LateAdd, MarkRead, Elapse, ChangeDevice, world
<1>4. CASE SweepSettles \/ LeaseExpires
  BY <1>4, Zenon DEF SweepSettles, LeaseExpires, world
<1>q. QED
  BY <1>1, <1>2, <1>3, <1>4, Zenon DEF Stepping

(* Without a job no run has anything to do.                                *)
LEMMA NobodyMoves ==
  ASSUME IInv, Untouched, Stepping
  PROVE  /\ \A r \in Runs : ~Moving(r) /\ ~Stall(r)
         /\ ~LateAdd
<1>1. job.state = "missing" /\ ~late /\ \A r \in Runs : run[r].at = "idle"
  BY DEF Untouched
<1>2. \A r \in Runs : job.owner # r
  BY <1>1, NothingAssumption DEF IInv, Owned
<1>3. ASSUME NEW r \in Runs
      PROVE  ~Moving(r) /\ ~Stall(r)
  <2>1. run[r].at = "idle" /\ job.state # "waiting" /\ job.owner # r
    BY <1>1, <1>2
  <2>2. ~StartRun(r) /\ ~Stall(r)
    BY <2>1, Zenon DEF StartRun, Stall
  <2>3. ~Plan(r) /\ ~FailDelivery(r) /\ ~ClaimDelivery(r) /\ ~SendPush(r) /\ ~RecordAnswer(r)
    BY <2>1, Zenon DEF Plan, FailDelivery, ClaimDelivery, SendPush, RecordAnswer
  <2>4. ~ReadDeliveries(r) /\ ~Settle(r) /\ ~EndRun(r) /\ ~MarkExhausted(r) /\ ~Crash(r)
    BY <2>1, Zenon DEF ReadDeliveries, Settle, EndRun, MarkExhausted, Crash
  <2>q. QED
    BY <2>2, <2>3, <2>4 DEF Moving
<1>4. ~LateAdd
  BY <1>1, Zenon DEF LateAdd
<1>q. QED
  BY <1>3, <1>4

\* The steps that add the job.
Adding ==
    \/ \E w \in Writers : Enqueue(w) \/ EnqueueFails(w)
    \/ SweepRequeues \/ SweepAborts

(* Unless it is added there still is none.                                 *)
LEMMA UntouchedStays ==
  ASSUME IInv, Untouched, Stepping, ~Adding
  PROVE  Untouched'
<1>1. (\A r \in Runs : ~Moving(r) /\ ~Stall(r)) /\ ~LateAdd
  BY NobodyMoves
<1>2. CASE Elsewhere
  <2>1. job' = job /\ late' = late /\ run' = run
    BY <1>1, <1>2, Zenon DEF Elsewhere, Adding, Dispatch, Recover, WriteFails, ExpireOffer,
       CrashWriter, MarkRead, Elapse, ChangeDevice, queue
  <2>q. QED
    BY <2>1 DEF Untouched
<1>3. ASSUME NEW w \in Writers, Write(w) \/ Judge(w)
      PROVE  Untouched'
  <2>1. job' = job /\ late' = late /\ run' = run
    BY <1>3, Zenon DEF Write, Judge, queue
  <2>q. QED
    BY <2>1 DEF Untouched
<1>4. CASE SweepSettles
  <2>1. job' = job /\ late' = late /\ run' = run
    BY <1>4, Zenon DEF SweepSettles, queue
  <2>q. QED
    BY <2>1 DEF Untouched
<1>5. CASE LeaseExpires
  <2>1. job' = job /\ late' = late
    BY <1>5, Zenon DEF LeaseExpires, queue
  <2>2. \A r \in Runs : run'[r].at = run[r].at
    BY <1>5, LeaseSteps
  <2>q. QED
    BY <2>1, <2>2 DEF Untouched
<1>q. QED
  BY <1>1, <1>2, <1>3, <1>4, <1>5, Zenon DEF Stepping

(* And nothing is sent.                                                    *)
LEMMA UntouchedRows ==
  ASSUME IInv, Untouched, Stepping, notification # "none"
  PROVE  /\ Updates(delivery, delivery')
         /\ \A j \in DOMAIN delivery : delivery'[j].status \in {delivery[j].status, "FAILED"}
<1>0. TypeOK /\ delivery \in Seq(Deliveries)
  BY DEF IInv, TypeOK
<1>1. (\A r \in Runs : ~Moving(r) /\ ~Stall(r)) /\ ~LateAdd
  BY NobodyMoves
<1>2. CASE delivery' = delivery
  BY <1>0, <1>2, StillDeliveries
<1>3. ASSUME NEW w \in Writers, Judge(w)
      PROVE  /\ Updates(delivery, delivery')
             /\ \A j \in DOMAIN delivery : delivery'[j].status \in {delivery[j].status, "FAILED"}
  <2>1. Updates(delivery, delivery') /\ (elapsed => AllFailed(delivery'))
        /\ (~elapsed => delivery' = delivery)
    BY <1>3, JudgeSteps
  <2>q. QED
    BY <2>1 DEF Updates, AllFailed
<1>4. CASE SweepSettles
  <2>1. CASE delivery' = QueuedFailed(delivery)
    <3>1. /\ Updates(delivery, delivery')
          /\ \A j \in DOMAIN delivery : delivery'[j].status # "QUEUED"
      BY <1>0, <2>1, QueuedFailedUpdates
    <3>2. \A j \in DOMAIN delivery : delivery'[j] =
             IF delivery[j].status = "QUEUED" THEN Ended(delivery[j], "FAILED") ELSE delivery[j]
      BY <2>1 DEF QueuedFailed, Queued
    <3>3. \A j \in DOMAIN delivery : Ended(delivery[j], "FAILED").status = "FAILED"
      BY <1>0, ElementIsDelivery, EndedIsDelivery
    <3>q. QED
      BY <3>1, <3>2, <3>3
  <2>q. QED
    BY <1>2, <1>4, <2>1 DEF SweepSettles
<1>5. CASE LeaseExpires
  BY <1>5, LeaseSteps
<1>6. \/ delivery' = delivery
      \/ \E w \in Writers : Judge(w)
      \/ SweepSettles \/ LeaseExpires
  <2>1. CASE Elsewhere
    BY <2>1, Zenon DEF Elsewhere, Dispatch, Recover, WriteFails, ExpireOffer, Enqueue,
       EnqueueFails, CrashWriter, Stall, SweepRequeues, SweepAborts, LateAdd, MarkRead, Elapse,
       ChangeDevice, rows
  <2>2. ASSUME NEW w \in Writers, Write(w)
        PROVE  delivery' = delivery
    BY <2>2, WriteSteps
  <2>q. QED
    BY <1>1, <2>1, <2>2, Zenon DEF Stepping
<1>q. QED
  BY <1>2, <1>3, <1>4, <1>5, <1>6

(* A row that is written is not unwritten.                                 *)
LEMMA RowStays ==
  ASSUME IInv, Stepping, notification # "none"
  PROVE  notification' # "none"
<1>1. notification \in {"none", "QUEUED", "SENT", "FAILED", "READ"}
  BY DEF IInv, TypeOK
<1>2. ASSUME NEW v \in {"open", "SENT", "FAILED"}, notification' = SettledAs(notification, v)
      PROVE  notification' # "none"
  BY <1>1, <1>2, SettledStates
<1>3. \A r \in Runs : run[r].verdict \in {"open", "SENT", "FAILED"}
  BY RunFields DEF IInv
<1>4. VerdictOf(delivery') \in {"open", "SENT", "FAILED"}
  BY VerdictIsTrue
<1>q. QED
  BY <1>1, <1>2, <1>3, <1>4, RowSteps, Zenon

(* Before there is a row nothing happens but that it is written.           *)
LEMMA NothingBefore ==
  ASSUME IInv, Stepping, notification = "none"
  PROVE  /\ delivery = <<>> /\ Untouched /\ Untouched' /\ \A w \in Writers : ~Past(w)
         /\ \/ \E w \in Writers : Write(w)
            \/ /\ delivery' = delivery /\ notification' = "none"
               /\ \A w \in Writers : ~(Write(w) \/ Judge(w))
<1>1. delivery = <<>> /\ Untouched /\ \A w \in Writers : ~Past(w)
  BY DEF IInv, Begun, Written
<1>2. (\A r \in Runs : ~Moving(r) /\ ~Stall(r)) /\ ~LateAdd
  BY <1>1, NobodyMoves
<1>3. ~Stale /\ ~SweepSettles
  BY DEF Stale, SweepSettles
<1>4. ASSUME NEW w \in Writers
      PROVE  ~Judge(w) /\ ~ExpireOffer(w) /\ ~Enqueue(w) /\ ~EnqueueFails(w)
  BY <1>1, Zenon DEF Judge, ExpireOffer, Enqueue, EnqueueFails, Past
<1>5. ~Adding
  BY <1>3, <1>4, Zenon DEF Adding, SweepRequeues, SweepAborts
<1>6. Untouched'
  BY <1>1, <1>5, UntouchedStays
<1>7. ~LeaseExpires
  BY <1>1 DEF LeaseExpires
<1>8. ASSUME Elsewhere
      PROVE  delivery' = delivery /\ notification' = "none"
  <2>1. delivery' = delivery
    BY <1>8, Zenon DEF Elsewhere, Dispatch, Recover, WriteFails, ExpireOffer, Enqueue,
       EnqueueFails, CrashWriter, Stall, SweepRequeues, SweepAborts, LateAdd, MarkRead, Elapse,
       ChangeDevice, rows
  <2>2. ~MarkRead
    BY DEF MarkRead
  <2>3. notification' = notification
    BY <1>2, <1>4, <1>8, <2>2, Zenon DEF Elsewhere, Dispatch, Recover, WriteFails,
       CrashWriter, SweepRequeues, SweepAborts, Elapse, ChangeDevice, rows
  <2>q. QED
    BY <2>1, <2>3
<1>q. QED
  BY <1>1, <1>2, <1>3, <1>4, <1>6, <1>7, <1>8, Zenon DEF Stepping

(* Begun is preserved.                                                     *)
LEMMA BegunPreserved ==
  ASSUME IInv, Stepping
  PROVE  Begun'
<1>1. CASE notification = "none"
  <2>1. /\ delivery = <<>> /\ Untouched'
    BY <1>1, NothingBefore
  <2>2. ASSUME NEW w \in Writers, Write(w)
        PROVE  notification' = "QUEUED" /\ delivery' # <<>>
    BY <1>1, <2>2, WriteSteps, FirstDelivery
  <2>3. \/ notification' = "QUEUED" /\ delivery' # <<>>
        \/ notification' = "none" /\ delivery' = <<>>
    BY <1>1, <2>1, <2>2, NothingBefore, Zenon
  <2>q. QED
    BY <2>1, <2>3 DEF Begun
<1>2. CASE notification # "none"
  <2>1. notification' # "none"
    BY <1>2, RowStays
  <2>2. delivery # <<>> /\ delivery \in Seq(Deliveries)
    BY <1>2 DEF IInv, Begun, TypeOK
  <2>5. DOMAIN delivery = 1..Len(delivery) /\ Len(delivery) \in Nat /\ Len(delivery) # 0
    BY <2>2, LenProperties, EmptySeq
  <2>3. DOMAIN delivery # {}
    <3>1. 1 \in 1..Len(delivery)
      BY <2>5
    <3>q. QED
      BY <2>5, <3>1
  <2>4. delivery' # <<>>
    BY <2>3, StepKeeps DEF Advances
  <2>q. QED
    BY <2>1, <2>4 DEF Begun
<1>q. QED
  BY <1>1, <1>2

(* While an offer is judged, or failed, its job is not added.              *)
LEMMA NobodyAdds ==
  ASSUME IInv, Stepping, NEW w \in Writers, writer[w].at \in {"judge", "expire"},
         writer'[w].at \in {"judge", "expire"}
  PROVE  ~Adding
<1>1. /\ Past(w) /\ offer /\ notification # "none"
      /\ \A v \in Writers : Past(v) => v = w
  BY DEF IInv, Written, Past
<1>2. ~SweepRequeues /\ ~SweepAborts
  BY <1>1, Zenon DEF SweepRequeues, SweepAborts, Stale, GivenUp, Open
<1>3. ASSUME NEW v \in Writers, Enqueue(v) \/ EnqueueFails(v)
      PROVE  FALSE
  <2>1. writer[v].at = "enqueue"
    BY <1>3, Zenon DEF Enqueue, EnqueueFails
  <2>2. v = w
    BY <1>1, <2>1 DEF Past
  <2>q. QED
    BY <2>1, <2>2
<1>q. QED
  BY <1>2, <1>3 DEF Adding

(* Written is preserved.                                                   *)
LEMMA WrittenPreserved ==
  ASSUME IInv, Stepping
  PROVE  Written'
<1>0. TypeOK /\ Written /\ delivery \in Seq(Deliveries) /\ offer' = offer
  BY OfferStays DEF IInv, TypeOK
<1>1. ASSUME NEW v \in Writers, Past(v)', ~Past(v)
      PROVE  /\ Write(v) /\ notification = "none"
             /\ writer'[v].at = IF offer THEN "judge" ELSE "enqueue"
             /\ \A u \in Writers \ {v} : writer'[u] = writer[u]
  <2>1. writer' # writer
    BY <1>1 DEF Past
  <2>2. PICK w \in Writers : WriterActs(w)
    BY <2>1, OtherSteps
  <2>3. w = v
    BY <1>0, <1>1, <2>2, WriterSteps DEF OtherWriters, Past
  <2>4. ~Judge(v)
    BY <1>1 DEF Judge, Past
  <2>q. QED
    BY <1>0, <1>1, <2>2, <2>3, <2>4, WriterSteps DEF OtherWriters, Past
<1>2. \A v, w \in Writers : Past(v)' /\ Past(w)' => v = w
  <2> SUFFICES ASSUME NEW v \in Writers, NEW w \in Writers, Past(v)', Past(w)'
               PROVE  v = w
    OBVIOUS
  <2>1. CASE Past(v) /\ Past(w)
    BY <1>0, <2>1 DEF Written
  <2>2. CASE ~Past(v)
    <3>1. notification = "none" /\ \A u \in Writers \ {v} : writer'[u] = writer[u]
      BY <1>1, <2>2
    <3>2. ~Past(w)
      BY <1>0, <3>1 DEF Written
    <3>q. QED
      BY <3>1, <3>2 DEF Past
  <2>3. CASE ~Past(w)
    <3>1. notification = "none" /\ \A u \in Writers \ {w} : writer'[u] = writer[u]
      BY <1>1, <2>3
    <3>2. ~Past(v)
      BY <1>0, <3>1 DEF Written
    <3>q. QED
      BY <3>1, <3>2 DEF Past
  <2>q. QED
    BY <2>1, <2>2, <2>3
<1>3. ASSUME NEW w \in Writers, Past(w)'
      PROVE  notification' # "none"
  <2>1. CASE Past(w)
    BY <1>0, <2>1, RowStays DEF Written
  <2>2. CASE ~Past(w)
    BY <1>1, <1>3, <2>2, WriteSteps
  <2>q. QED
    BY <2>1, <2>2
<1>4. ASSUME NEW w \in Writers, writer'[w].at \in {"judge", "expire"}
      PROVE  /\ Untouched' /\ offer'
             /\ Len(delivery') = 1 /\ delivery'[1].status \in {"QUEUED", "FAILED"}
  <2>1. CASE writer[w].at \in {"judge", "expire"}
    <3>1. /\ Untouched /\ offer /\ notification # "none"
          /\ Len(delivery) = 1 /\ delivery[1].status \in {"QUEUED", "FAILED"}
      BY <1>0, <2>1 DEF Written, Past
    <3>2. Untouched'
      BY <1>4, <2>1, <3>1, NobodyAdds, UntouchedStays
    <3>3. DOMAIN delivery = {1}
      BY <1>0, <3>1, LenProperties
    <3>4. /\ Updates(delivery, delivery')
          /\ \A j \in DOMAIN delivery : delivery'[j].status \in {delivery[j].status, "FAILED"}
      BY <3>1, UntouchedRows
    <3>5. delivery'[1].status \in {delivery[1].status, "FAILED"}
      BY <3>3, <3>4
    <3>q. QED
      BY <1>0, <3>1, <3>2, <3>4, <3>5 DEF Updates
  <2>2. CASE writer[w].at \notin {"judge", "expire"}
    <3>1. ~Past(w)
      <4>1. CASE writer[w].at = "enqueue"
        <5>1. writer' # writer
          BY <1>4, <2>2
        <5>2. PICK v \in Writers : WriterActs(v)
          BY <5>1, OtherSteps
        <5>3. v = w
          BY <1>0, <1>4, <2>2, <5>2, WriterSteps DEF OtherWriters
        <5>4. ~Write(w) /\ ~Judge(w)
          BY <4>1 DEF Write, Judge
        <5>q. QED
          BY <1>0, <1>4, <5>2, <5>3, <5>4, WriterSteps
      <4>q. QED
        BY <2>2, <4>1 DEF Past
    <3>2. Past(w)'
      BY <1>4 DEF Past
    <3>3. /\ Write(w) /\ notification = "none"
          /\ writer'[w].at = IF offer THEN "judge" ELSE "enqueue"
      BY <1>1, <3>1, <3>2
    <3>4. delivery' = <<Row(Nothing)>>
      BY <3>3, WriteSteps
    <3>5. Untouched'
      BY <3>3, NothingBefore
    <3>6. offer
      BY <1>4, <3>3
    <3>q. QED
      BY <1>0, <3>4, <3>5, <3>6, FirstDelivery
  <2>q. QED
    BY <2>1, <2>2
<1>5. ASSUME NEW w \in Writers, writer'[w].at = "expire"
      PROVE  AllFailed(delivery')
  <2>1. CASE writer[w].at = "expire"
    BY <1>0, <2>1, StepKeeps, AdvanceKeeps DEF Written
  <2>2. CASE writer[w].at # "expire"
    <3>1. writer' # writer
      BY <1>5, <2>2
    <3>2. PICK v \in Writers : WriterActs(v)
      BY <3>1, OtherSteps
    <3>3. v = w
      BY <1>0, <1>5, <2>2, <3>2, WriterSteps DEF OtherWriters
    <3>4. Judge(w) /\ elapsed
      BY <1>0, <1>5, <3>2, <3>3, WriterSteps
    <3>q. QED
      BY <3>4, JudgeSteps
  <2>q. QED
    BY <2>1, <2>2
<1>q. QED
  BY <1>2, <1>3, <1>4, <1>5 DEF Written, Past

-----------------------------------------------------------------------------
(* The job and its owner.                                                  *)

(* The queue takes nothing up that is not owned, and gives up for good.    *)
LEMMA JobSteps ==
  ASSUME IInv, Stepping
  PROVE  /\ job'.owner # Nothing => job'.state = "active"
         /\ job.state = "failed" => job'.state = "failed"
         /\ \A q \in Runs : job'.owner = q => job.owner = q \/ StartRun(q)
         /\ \A q \in Runs : job.owner = q /\ job'.owner # q =>
               \/ EndRun(q) \/ Stall(q) \/ Crash(q)
               \/ Plan(q) /\ Queued(Planned(delivery, run[q].found)) = {}
<1>0. TypeOK /\ (job.owner # Nothing => job.state = "active") /\ \A q \in Runs : q # Nothing
  BY NothingAssumption DEF IInv, Owned
<1> DEFINE Goal == /\ job'.owner # Nothing => job'.state = "active"
                   /\ job.state = "failed" => job'.state = "failed"
                   /\ \A q \in Runs : job'.owner = q => job.owner = q \/ StartRun(q)
                   /\ \A q \in Runs : job.owner = q /\ job'.owner # q =>
                         \/ EndRun(q) \/ Stall(q) \/ Crash(q)
                         \/ Plan(q) /\ Queued(Planned(delivery, run[q].found)) = {}
<1>1. CASE job' = job
  BY <1>0, <1>1
<1>2. CASE job' = AddTo(job)
  BY <1>0, <1>2, AddMoves
<1>3. CASE SweepRequeues
  <2>1. job' = Added /\ job.state \notin {"waiting", "active"} /\ job.state # "failed"
    BY <1>3 DEF SweepRequeues, Live, GivenUp
  <2>q. QED
    BY <1>0, <2>1, AddMoves
<1>4. ASSUME NEW r \in Runs, Stall(r) \/ Crash(r)
      PROVE  Goal
  <2>1. job' = Stalled(r)
    BY <1>4 DEF Stall, Crash
  <2>2. CASE job.owner = r
    <3>1. job.state = "active" /\ job'.owner = Nothing
      BY <1>0, <2>1, <2>2, StalledMoves
    <3>q. QED
      BY <1>0, <1>4, <2>2, <3>1
  <2>3. CASE job.owner # r
    BY <1>0, <1>1, <2>1, <2>3, StalledMoves
  <2>q. QED
    BY <2>2, <2>3
<1>5. ASSUME NEW r \in Runs, StartRun(r)
      PROVE  Goal
  <2>1. job'.state = "active" /\ job'.owner = r /\ job.state = "waiting"
    BY <1>0, <1>5, TakenMoves
  <2>q. QED
    BY <1>0, <1>5, <2>1
<1>6. ASSUME NEW r \in Runs, EndRun(r)
      PROVE  Goal
  <2>1. CASE job.owner = r
    <3>1. job.state = "active" /\ job'.owner = Nothing
      BY <1>0, <1>6, <2>1, EndMoves
    <3>q. QED
      BY <1>0, <1>6, <2>1, <3>1
  <2>2. CASE job.owner # r
    BY <1>0, <1>1, <1>6, <2>2, EndMoves
  <2>q. QED
    BY <2>1, <2>2
<1>7. ASSUME NEW r \in Runs, Plan(r)
      PROVE  Goal
  <2>1. CASE Queued(Planned(delivery, run[r].found)) = {}
    <3>1. job' = Completed(r)
      BY <1>7, <2>1, Zenon DEF Plan
    <3>2. CASE job.owner = r
      <4>1. job.state = "active" /\ job'.owner = Nothing
        BY <1>0, <3>1, <3>2, CompletedMoves
      <4>q. QED
        BY <1>0, <1>7, <2>1, <3>2, <4>1
    <3>3. CASE job.owner # r
      BY <1>0, <1>1, <3>1, <3>3, CompletedMoves
    <3>q. QED
      BY <3>2, <3>3
  <2>2. CASE Queued(Planned(delivery, run[r].found)) # {}
    <3>1. job' = job
      BY <1>7, <2>2, Zenon DEF Plan
    <3>q. QED
      BY <1>1, <3>1
  <2>q. QED
    BY <2>1, <2>2
<1> HIDE DEF Goal
<1>8. \/ job' = job \/ job' = AddTo(job) \/ SweepRequeues
      \/ \E r \in Runs : Stall(r) \/ Crash(r) \/ StartRun(r) \/ EndRun(r) \/ Plan(r)
  <2>1. CASE Elsewhere
    BY <2>1, Zenon DEF Elsewhere, Dispatch, Recover, WriteFails, ExpireOffer, Enqueue,
       EnqueueFails, CrashWriter, SweepAborts, LateAdd, MarkRead, Elapse, ChangeDevice, queue
  <2>2. ASSUME NEW w \in Writers, Write(w) \/ Judge(w)
        PROVE  job' = job
    BY <2>2, Zenon DEF Write, Judge, queue
  <2>3. ASSUME NEW r \in Runs, Moving(r)
        PROVE  job' = job \/ Crash(r) \/ StartRun(r) \/ EndRun(r) \/ Plan(r)
    BY <2>3, Zenon DEF Moving, FailDelivery, ClaimDelivery, SendPush, RecordAnswer, ReadDeliveries,
       Settle, MarkExhausted, queue
  <2>4. CASE SweepSettles \/ LeaseExpires
    BY <2>4, Zenon DEF SweepSettles, LeaseExpires, queue
  <2>q. QED
    BY <2>1, <2>2, <2>3, <2>4, Zenon DEF Stepping
<1>q. QED
  BY <1>1, <1>2, <1>3, <1>4, <1>5, <1>6, <1>7, <1>8, Zenon DEF Goal

(* What a run of the worker comes to.                                      *)
LEMMA RunSteps ==
  ASSUME IInv, NEW r \in Runs, Moving(r)
  PROVE  /\ Others(r) /\ RunTyped
         /\ run'[r].at = "exhaust" => job'.state = "failed" /\ run'[r].todo = {}
         /\ Busy(r)' => Busy(r) \/ StartRun(r)
         /\ Sending(r)' => SendPush(r) \/ ClaimDelivery(r)
<1>0. TypeOK /\ Owned
  BY DEF IInv
<1>1. CASE StartRun(r)
  BY <1>0, <1>1, StartMoves DEF Busy, Sending
<1>2. CASE Plan(r)
  <2>1. run[r].at = "plan" /\ Others(r) /\ RunTyped
    BY <1>2, PlanSteps DEF Plan
  <2>2. run'[r].at \in {"idle", "each"}
    <3>1. CASE Queued(Planned(delivery, run[r].found)) = {}
      <4>1. run' = [run EXCEPT ![r] = Idle]
        BY <1>2, <3>1, Zenon DEF Plan
      <4>q. QED
        BY <1>0, <4>1, IdleMoves
    <3>2. CASE Queued(Planned(delivery, run[r].found)) # {}
      <4> DEFINE Q == Queued(Planned(delivery, run[r].found))
                 F == {i \in Q : Planned(delivery, run[r].found)[i].device \in reachable}
      <4>1. run' = [run EXCEPT ![r].at = "each", ![r].todo = Q, ![r].fit = F, ![r].found = {}]
        BY <1>2, <3>2, Zenon DEF Plan
      <4>2. Planned(delivery, run[r].found) = delivery'
        BY <1>2, Zenon DEF Plan
      <4>3. delivery' \in Seq(Deliveries)
        BY <1>2, PlanSteps DEF Advances
      <4>4. Q \subseteq DOMAIN delivery' /\ F \subseteq Q
        BY <4>2 DEF Queued
      <4>5. DOMAIN delivery' \subseteq Nat
        BY <4>3, LenProperties
      <4> HIDE DEF Q, F
      <4>6. Q \in SUBSET Nat /\ F \in SUBSET Nat
        BY <4>4, <4>5
      <4>q. QED
        BY <1>0, <4>1, <4>6, PlanMoves, Zenon
    <3>q. QED
      BY <3>1, <3>2
  <2>q. QED
    BY <2>1, <2>2 DEF Busy, Sending
<1>3. CASE FailDelivery(r)
  <2>1. Others(r) /\ RunTyped /\ run'[r].at = "each"
    BY <1>3, FailSteps
  <2>2. run[r].at = "each" /\ run[r].todo # {}
    BY <1>3, Zenon DEF FailDelivery, Upcoming
  <2>q. QED
    BY <2>1, <2>2 DEF Busy, Sending
<1>4. CASE ClaimDelivery(r)
  <2>1. Others(r) /\ RunTyped /\ run'[r].at \in {"each", "send"}
    BY <1>4, ClaimSteps
  <2>2. run[r].at = "each" /\ run[r].todo # {}
    BY <1>4, Zenon DEF ClaimDelivery, Upcoming
  <2>q. QED
    BY <1>4, <2>1, <2>2 DEF Busy
<1>5. CASE SendPush(r)
  <2>1. Others(r) /\ RunTyped /\ run'[r].at = "record"
    BY <1>5, SendSteps
  <2>2. run[r].at = "send"
    BY <1>5 DEF SendPush
  <2>q. QED
    BY <1>5, <2>1, <2>2 DEF Busy
<1>6. CASE RecordAnswer(r)
  <2>1. Others(r) /\ RunTyped /\ run'[r].at = "each"
    BY <1>0, <1>6, RecordMoves
  <2>2. run[r].at = "record"
    BY <1>6 DEF RecordAnswer
  <2>q. QED
    BY <2>1, <2>2 DEF Busy, Sending
<1>7. CASE ReadDeliveries(r)
  <2>1. /\ run' = [run EXCEPT ![r].at = "settle", ![r].verdict = VerdictOf(delivery)]
        /\ VerdictOf(delivery) \in {"open", "SENT", "FAILED"}
    BY <1>7, VerdictIsTrue DEF ReadDeliveries
  <2> DEFINE v == VerdictOf(delivery)
  <2> HIDE DEF v
  <2>2. run' = [run EXCEPT ![r].at = "settle", ![r].verdict = v] /\ v \in {"open", "SENT", "FAILED"}
    BY <2>1, Zenon DEF v
  <2>3. Others(r) /\ RunTyped /\ run'[r].at = "settle"
    BY <1>0, <2>2, SettleMoves, Zenon
  <2>q. QED
    BY <2>3 DEF Busy, Sending
<1>8. CASE Settle(r)
  <2>1. run' = [run EXCEPT ![r].at = "end", ![r].verdict = "open"]
    BY <1>8, Zenon DEF Settle
  <2>2. "open" \in {"open", "SENT", "FAILED"} /\ "end" \in {"settle", "end"}
    OBVIOUS
  <2>3. Others(r) /\ RunTyped /\ run'[r].at = "end"
    BY <1>0, <2>1, <2>2, SettleMoves, Zenon
  <2>q. QED
    BY <2>3 DEF Busy, Sending
<1>9. CASE EndRun(r)
  BY <1>0, <1>9, EndMoves DEF Busy, Sending
<1>10. CASE MarkExhausted(r)
  <2>1. run' = [run EXCEPT ![r].at = "each"] /\ run[r].at = "exhaust"
    BY <1>10 DEF MarkExhausted
  <2>2. Others(r) /\ RunTyped /\ run'[r].at = "each" /\ run'[r].todo = run[r].todo
    BY <1>0, <2>1, ExhaustMoves
  <2>3. run[r].todo = {}
    BY <1>0, <2>1 DEF Owned
  <2>q. QED
    BY <2>2, <2>3 DEF Busy, Sending
<1>11. CASE Crash(r)
  <2>1. run' = [run EXCEPT ![r] = Idle]
    BY <1>11 DEF Crash
  <2>2. Others(r) /\ RunTyped /\ run'[r].at = "idle"
    BY <1>0, <2>1, IdleMoves
  <2>q. QED
    BY <2>2 DEF Busy, Sending
<1>q. QED
  BY <1>1, <1>2, <1>3, <1>4, <1>5, <1>6, <1>7, <1>8, <1>9, <1>10, <1>11 DEF Moving

(* Unless a run moves, runs only notice that a lease ran out.              *)
LEMMA StandingRuns ==
  ASSUME IInv, Stepping, \A r \in Runs : ~Moving(r)
  PROVE  \A r \in Runs : /\ run'[r].at = run[r].at /\ run'[r].row = run[r].row
                         /\ run'[r].todo = run[r].todo /\ run'[r].answer = run[r].answer
<1>1. CASE LeaseExpires
  BY <1>1, LeaseSteps
<1>2. CASE Elsewhere
  <2>1. run' = run
    BY <1>2, Zenon DEF Elsewhere, Dispatch, Recover, WriteFails, ExpireOffer, Enqueue,
       EnqueueFails, CrashWriter, Stall, SweepRequeues, SweepAborts, LateAdd, MarkRead, Elapse,
       ChangeDevice
  <2>q. QED
    BY <2>1
<1>3. ASSUME NEW w \in Writers, Write(w) \/ Judge(w)
      PROVE  run' = run
  BY <1>3, Zenon DEF Write, Judge
<1>4. CASE SweepSettles
  BY <1>4 DEF SweepSettles
<1>q. QED
  BY <1>1, <1>2, <1>3, <1>4 DEF Stepping

(* Owned is preserved.                                                     *)
LEMMA OwnedPreserved ==
  ASSUME IInv, Stepping
  PROVE  Owned'
<1>1. \A r \in Runs : run[r].at = "exhaust" => job.state = "failed" /\ run[r].todo = {}
  BY DEF IInv, Owned
<1>2. ASSUME NEW r \in Runs, run'[r].at = "exhaust"
      PROVE  job'.state = "failed" /\ run'[r].todo = {}
  <2>1. CASE Moving(r)
    BY <1>2, <2>1, RunSteps
  <2>2. CASE ~Moving(r) /\ \E q \in Runs : Moving(q)
    <3>1. run'[r] = run[r]
      BY <2>2, RunSteps DEF Others
    <3>q. QED
      BY <1>1, <1>2, <3>1, JobSteps
  <2>3. CASE \A q \in Runs : ~Moving(q)
    BY <1>1, <1>2, <2>3, StandingRuns, JobSteps
  <2>q. QED
    BY <2>1, <2>2, <2>3
<1>q. QED
  BY <1>2, JobSteps DEF Owned

-----------------------------------------------------------------------------
(* Pushes and what is recorded of them.                                    *)

(* A run that was overtaken, died or heard nothing is not forgotten.       *)
LEMMA DisturbedStays ==
  ASSUME IInv, Stepping, ~disturbed'
  PROVE  ~disturbed /\ \A r \in Runs : ~Stall(r) /\ ~Crash(r)
<1>1. ASSUME NEW r \in Runs
      PROVE  ~Stall(r) /\ ~Crash(r)
  BY Zenon DEF Stall, Crash
<1>2. ASSUME NEW r \in Runs, Moving(r)
      PROVE  ~disturbed
  BY <1>1, <1>2, Zenon DEF Moving, StartRun, Plan, FailDelivery, ClaimDelivery, SendPush,
     RecordAnswer, ReadDeliveries, Settle, EndRun, MarkExhausted
<1>3. ASSUME NEW w \in Writers, Write(w) \/ Judge(w)
      PROVE  ~disturbed
  BY <1>3, Zenon DEF Write, Judge
<1>4. ASSUME Elsewhere
      PROVE  ~disturbed
  BY <1>1, <1>4, Zenon DEF Elsewhere, Dispatch, Recover, WriteFails, ExpireOffer, Enqueue,
     EnqueueFails, CrashWriter, SweepRequeues, SweepAborts, LateAdd, MarkRead, Elapse, ChangeDevice
<1>5. ASSUME SweepSettles \/ LeaseExpires
      PROVE  ~disturbed
  BY <1>5, Zenon DEF SweepSettles, LeaseExpires
<1>q. QED
  BY <1>1, <1>2, <1>3, <1>4, <1>5, Zenon DEF Stepping

(* Who plans, sends or records is busy.                                    *)
LEMMA MoversAreBusy ==
  ASSUME NEW r \in Runs,
         \/ Plan(r) \/ FailDelivery(r) \/ ClaimDelivery(r) \/ SendPush(r) \/ RecordAnswer(r)
  PROVE  Busy(r)
<1>1. \/ run[r].at \in {"plan", "send", "record"}
      \/ run[r].at = "each" /\ \E i \in Upcoming(r) : TRUE
  BY Zenon DEF Plan, FailDelivery, ClaimDelivery, SendPush, RecordAnswer
<1>q. QED
  BY <1>1 DEF Upcoming, Busy

(* While one run is busy, and none was disturbed, nothing else decides     *)
(* about a delivery.                                                       *)
LEMMA OwnerIsAlone ==
  ASSUME IInv, Stepping, ~disturbed', NEW r \in Runs, Busy(r), ~Moving(r)
  PROVE  \A i \in DOMAIN delivery : delivery'[i].status = delivery[i].status
<1>1. ~disturbed /\ \A q \in Runs : ~Stall(q) /\ ~Crash(q)
  BY DisturbedStays
<1>2. \A q \in Runs : Busy(q) => job.owner = q
  BY <1>1 DEF IInv, Undisturbed
<1>3. job.owner = r /\ job.state = "active" /\ \A q \in Runs \ {r} : ~Busy(q)
  BY <1>2, NothingAssumption DEF IInv, Owned
<1>4. ~Untouched
  BY <1>3 DEF Untouched
<1>5. CASE delivery' = delivery
  BY <1>5
<1>6. ASSUME NEW w \in Writers, Write(w) \/ Judge(w)
      PROVE  delivery' = delivery
  <2>1. ~Judge(w)
    BY <1>4 DEF IInv, Written, Judge
  <2>q. QED
    BY <1>4, <1>6, <2>1, WriteSteps
<1>7. ASSUME NEW q \in Runs, Moving(q)
      PROVE  delivery' = delivery
  <2>1. q # r /\ ~Busy(q)
    BY <1>3, <1>7
  <2>2. ~Plan(q) /\ ~FailDelivery(q) /\ ~ClaimDelivery(q) /\ ~RecordAnswer(q)
    BY <2>1, MoversAreBusy
  <2>3. ~MarkExhausted(q)
    BY <1>3 DEF IInv, Owned, MarkExhausted
  <2>q. QED
    BY <1>7, <2>2, <2>3, Zenon DEF Moving, StartRun, SendPush, ReadDeliveries, Settle, EndRun, Crash,
       rows
<1>8. ~SweepSettles
  BY <1>3 DEF SweepSettles, Live
<1>9. ASSUME Elsewhere
      PROVE  delivery' = delivery
  BY <1>9, Zenon DEF Elsewhere, Dispatch, Recover, WriteFails, ExpireOffer, Enqueue,
     EnqueueFails, CrashWriter, Stall, SweepRequeues, SweepAborts, LateAdd, MarkRead, Elapse,
     ChangeDevice, rows
<1>10. CASE LeaseExpires
  BY <1>10, LeaseSteps
<1>q. QED
  BY <1>5, <1>6, <1>7, <1>8, <1>9, <1>10, Zenon DEF Stepping

(* What failQueuedDeliveries does to each of them.                         *)
LEMMA FailedStatuses ==
  ASSUME NEW ds \in Seq(Deliveries)
  PROVE  \A i \in DOMAIN ds : QueuedFailed(ds)[i].status \in {ds[i].status, "FAILED"}
<1>1. \A i \in DOMAIN ds : QueuedFailed(ds)[i] =
         IF ds[i].status = "QUEUED" THEN Ended(ds[i], "FAILED") ELSE ds[i]
  BY DEF QueuedFailed, Queued
<1>2. \A i \in DOMAIN ds : Ended(ds[i], "FAILED").status = "FAILED"
  BY ElementIsDelivery, EndedIsDelivery
<1>q. QED
  BY <1>1, <1>2

(* Deliveries stay what they are, but for the plan that binds them to      *)
(* devices and the write that begins with one.                             *)
LEMMA DeliverySteps ==
  ASSUME IInv, Stepping
  PROVE  \/ Updates(delivery, delivery')
         \/ /\ \E r \in Runs : Plan(r)
            /\ \A i \in DOMAIN delivery : delivery[i].device = Nothing
            /\ Distinct(delivery')
         \/ /\ \E w \in Writers : Write(w)
            /\ delivery = <<>> /\ delivery' = <<Row(Nothing)>>
<1>0. TypeOK /\ delivery \in Seq(Deliveries) /\ run \in [Runs -> RunStates] /\ Distinct(delivery)
  BY DEF IInv, TypeOK, StatusTellsDelivery, Distinct
<1>1. CASE delivery' = delivery
  BY <1>0, <1>1, StillDeliveries
<1>2. ASSUME NEW r \in Runs, Plan(r)
      PROVE  \/ delivery' = delivery
             \/ (\A i \in DOMAIN delivery : delivery[i].device = Nothing) /\ Distinct(delivery')
  <2>1. delivery' = Planned(delivery, run[r].found) /\ run[r].found \in SUBSET Devices
    BY <1>0, <1>2, RunFields, Zenon DEF Plan
  <2> DEFINE found == run[r].found
  <2> HIDE DEF found
  <2>2. delivery' = Planned(delivery, found) /\ found \in SUBSET Devices
    BY <2>1 DEF found
  <2>q. QED
    BY <1>0, <2>2, PlannedAdvances, Zenon
<1>3. ASSUME NEW r \in Runs, Moving(r), ~Plan(r)
      PROVE  Updates(delivery, delivery')
  <2>1. CASE FailDelivery(r)
    BY <2>1, FailSteps
  <2>2. CASE ClaimDelivery(r)
    BY <2>2, ClaimSteps
  <2>3. CASE RecordAnswer(r)
    BY <2>3, RecordSteps
  <2>4. CASE MarkExhausted(r)
    BY <2>4, ExhaustSteps
  <2>5. CASE StartRun(r) \/ SendPush(r) \/ ReadDeliveries(r) \/ Settle(r) \/ EndRun(r) \/ Crash(r)
    <3>1. delivery' = delivery
      BY <2>5, Zenon DEF StartRun, SendPush, ReadDeliveries, Settle, EndRun, Crash, rows
    <3>q. QED
      BY <1>0, <3>1, StillDeliveries
  <2>q. QED
    BY <1>3, <2>1, <2>2, <2>3, <2>4, <2>5, Zenon DEF Moving
<1>4. ASSUME NEW w \in Writers, Write(w)
      PROVE  delivery' = delivery \/ (delivery = <<>> /\ delivery' = <<Row(Nothing)>>)
  BY <1>4, WriteSteps
<1>5. ASSUME NEW w \in Writers, Judge(w)
      PROVE  Updates(delivery, delivery')
  BY <1>5, JudgeSteps
<1>6. CASE SweepSettles
  BY <1>6, SweepSteps
<1>7. CASE LeaseExpires
  BY <1>7, LeaseSteps
<1>8. ASSUME Elsewhere
      PROVE  delivery' = delivery
  BY <1>8, Zenon DEF Elsewhere, Dispatch, Recover, WriteFails, ExpireOffer, Enqueue,
     EnqueueFails, CrashWriter, Stall, SweepRequeues, SweepAborts, LateAdd, MarkRead, Elapse,
     ChangeDevice, rows
<1>9. Stepping
  OBVIOUS
<1>q. QED
  BY <1>1, <1>2, <1>3, <1>4, <1>5, <1>6, <1>7, <1>8, <1>9, Zenon DEF Stepping

(* Only a run that heard the provider accept makes a delivery SENT.        *)
LEMMA SentSteps ==
  ASSUME IInv, Stepping, NEW i \in DOMAIN delivery', delivery'[i].status = "SENT"
  PROVE  /\ i \in DOMAIN delivery
         /\ \/ delivery[i].status = "SENT"
            \/ \E r \in Runs : /\ run[r].at = "record" /\ run[r].answer = "accepted"
                               /\ run[r].row = i
<1>0. TypeOK /\ delivery \in Seq(Deliveries) /\ Distinct(delivery) /\ Placed
  BY DEF IInv, TypeOK, StatusTellsDelivery, Distinct
<1> DEFINE Goal == /\ i \in DOMAIN delivery
                   /\ \/ delivery[i].status = "SENT"
                      \/ \E r \in Runs : /\ run[r].at = "record" /\ run[r].answer = "accepted"
                                         /\ run[r].row = i
<1>1. ASSUME DOMAIN delivery' = DOMAIN delivery,
             \A j \in DOMAIN delivery : delivery'[j].status \in {delivery[j].status, "FAILED"}
      PROVE  Goal
  BY <1>1
<1>2. CASE delivery' = delivery
  BY <1>2
<1>3. ASSUME NEW r \in Runs, Plan(r)
      PROVE  Goal
  <2>1. delivery' = Planned(delivery, run[r].found) /\ run[r].found \in SUBSET Devices
    BY <1>0, <1>3, RunFields, Zenon DEF Plan
  <2> DEFINE found == run[r].found
  <2> HIDE DEF found
  <2>2. delivery' = Planned(delivery, found) /\ found \in SUBSET Devices
    BY <2>1 DEF found
  <2>3. /\ \A j \in DOMAIN delivery : delivery'[j].status = delivery[j].status
        /\ \A j \in DOMAIN delivery' \ DOMAIN delivery : delivery'[j].status = "QUEUED"
    BY <1>0, <2>2, PlannedAdvances, Zenon
  <2>q. QED
    BY <2>3
<1>4. ASSUME NEW r \in Runs, FailDelivery(r)
      PROVE  Goal
  <2>1. PICK k \in run[r].todo : delivery' = Finalized(delivery, k, "FAILED")
    BY <1>4, Zenon DEF FailDelivery, Upcoming
  <2>2. k \in DOMAIN delivery
    BY <1>0 DEF Placed
  <2>3. /\ Updates(delivery, delivery')
        /\ delivery'[k].status = IF delivery[k].status = "QUEUED" THEN "FAILED" ELSE delivery[k].status
        /\ \A j \in DOMAIN delivery \ {k} : delivery'[j] = delivery[j]
    BY <1>0, <2>1, <2>2, FinalizedUpdates
  <2>q. QED
    BY <1>1, <2>2, <2>3 DEF Updates
<1>5. ASSUME NEW r \in Runs, ClaimDelivery(r)
      PROVE  Goal
  BY <1>1, <1>5, ClaimSteps DEF Updates
<1>6. ASSUME NEW r \in Runs, RecordAnswer(r)
      PROVE  Goal
  <2> DEFINE k == run[r].row
             answer == run[r].answer
  <2>1. /\ run[r].at = "record"
        /\ delivery' = CASE answer = "accepted" -> Finalized(delivery, k, "SENT")
                         [] answer = "refused" -> Finalized(delivery, k, "FAILED")
                         [] OTHER -> Released(delivery, k, run[r].attempt)
    BY <1>6, Zenon DEF RecordAnswer
  <2>2. k \in DOMAIN delivery
    BY <1>0, <2>1 DEF Placed, Sending
  <2>3. CASE answer = "accepted"
    <3>1. delivery' = Finalized(delivery, k, "SENT")
      BY <2>1, <2>3
    <3>2. /\ Updates(delivery, delivery')
          /\ \A j \in DOMAIN delivery \ {k} : delivery'[j] = delivery[j]
      BY <1>0, <2>2, <3>1, FinalizedUpdates
    <3>q. QED
      BY <2>1, <2>3, <3>2 DEF Updates
  <2>4. CASE answer = "refused"
    <3>1. delivery' = Finalized(delivery, k, "FAILED")
      BY <2>1, <2>4
    <3>2. /\ Updates(delivery, delivery')
          /\ delivery'[k].status = IF delivery[k].status = "QUEUED" THEN "FAILED"
                                   ELSE delivery[k].status
          /\ \A j \in DOMAIN delivery \ {k} : delivery'[j] = delivery[j]
      BY <1>0, <2>2, <3>1, FinalizedUpdates
    <3>q. QED
      BY <1>1, <2>2, <3>2 DEF Updates
  <2>5. CASE answer # "accepted" /\ answer # "refused"
    <3>1. delivery' = Released(delivery, k, run[r].attempt)
      BY <2>1, <2>5
    <3>2. /\ Updates(delivery, delivery')
          /\ \A j \in DOMAIN delivery : delivery'[j].status = delivery[j].status
      BY <1>0, <2>2, <3>1, ReleasedUpdates
    <3>q. QED
      BY <1>1, <3>2 DEF Updates
  <2>q. QED
    BY <2>3, <2>4, <2>5
<1>7. CASE delivery' = QueuedFailed(delivery)
  BY <1>0, <1>1, <1>7, FailedStatuses, QueuedFailedUpdates DEF Updates
<1>8. ASSUME NEW w \in Writers, Write(w)
      PROVE  Goal
  <2>1. CASE delivery' = <<Row(Nothing)>>
    BY <2>1, FirstDelivery
  <2>q. QED
    BY <1>2, <1>8, <2>1, WriteSteps
<1>9. ASSUME NEW w \in Writers, Judge(w)
      PROVE  Goal
  <2>1. Updates(delivery, delivery') /\ (elapsed => AllFailed(delivery'))
        /\ (~elapsed => delivery' = delivery)
    BY <1>9, JudgeSteps
  <2>q. QED
    BY <1>1, <1>2, <2>1 DEF Updates, AllFailed
<1>10. CASE LeaseExpires
  BY <1>1, <1>10, LeaseSteps DEF Updates
<1> HIDE DEF Goal
<1>11. ASSUME NEW r \in Runs, Moving(r), delivery' # delivery, delivery' # QueuedFailed(delivery)
       PROVE  Plan(r) \/ FailDelivery(r) \/ ClaimDelivery(r) \/ RecordAnswer(r)
  BY <1>11, Zenon DEF Moving, StartRun, SendPush, ReadDeliveries, Settle, EndRun, MarkExhausted,
     Crash, rows
<1>12. ASSUME Elsewhere
       PROVE  delivery' = delivery
  BY <1>12, Zenon DEF Elsewhere, Dispatch, Recover, WriteFails, ExpireOffer, Enqueue,
     EnqueueFails, CrashWriter, Stall, SweepRequeues, SweepAborts, LateAdd, MarkRead, Elapse,
     ChangeDevice, rows
<1>13. ASSUME SweepSettles
       PROVE  delivery' = QueuedFailed(delivery) \/ delivery' = delivery
  BY <1>13 DEF SweepSettles
<1>14. Stepping
  OBVIOUS
<1>15. ASSUME NEW r \in Runs, Moving(r)
       PROVE  Goal
  BY <1>2, <1>3, <1>4, <1>5, <1>6, <1>7, <1>11, <1>15, Zenon DEF Goal
<1>16. Goal
  BY <1>2, <1>7, <1>8, <1>9, <1>10, <1>12, <1>13, <1>14, <1>15, Zenon DEF Stepping, Goal
<1>q. QED
  BY <1>16 DEF Goal

(* While no run is disturbed, only the owner has something to send.        *)
LEMMA OwnersOnly ==
  ASSUME IInv, Stepping, ~disturbed', NEW r \in Runs, Busy(r)'
  PROVE  job'.owner = r
<1>0. TypeOK /\ ~disturbed /\ \A q \in Runs : ~Stall(q) /\ ~Crash(q)
  BY DisturbedStays DEF IInv
<1>1. \A q \in Runs : Busy(q) => job.owner = q
  BY <1>0 DEF IInv, Undisturbed
<1>2. CASE StartRun(r)
  BY <1>0, <1>2, TakenMoves
<1>3. CASE ~StartRun(r)
  <2>1. Busy(r)
    <3>1. CASE Moving(r)
      BY <1>3, <3>1, RunSteps
    <3>2. CASE ~Moving(r) /\ \E q \in Runs : Moving(q)
      <4>1. run'[r] = run[r]
        BY <3>2, RunSteps DEF Others
      <4>q. QED
        BY <4>1 DEF Busy
    <3>3. CASE \A q \in Runs : ~Moving(q)
      BY <3>3, StandingRuns DEF Busy
    <3>q. QED
      BY <3>1, <3>2, <3>3
  <2>2. job.owner = r
    BY <1>1, <2>1
  <2>3. ~EndRun(r)
    <3>1. ASSUME EndRun(r) PROVE FALSE
      <4>1. run'[r].at \in {"idle", "exhaust"}
        BY <1>0, <3>1, EndMoves
      <4>q. QED
        BY <4>1 DEF Busy
    <3>q. QED
      BY <3>1
  <2>4. ~(Plan(r) /\ Queued(Planned(delivery, run[r].found)) = {})
    <3>1. ASSUME Plan(r), Queued(Planned(delivery, run[r].found)) = {} PROVE FALSE
      <4>1. run' = [run EXCEPT ![r] = Idle]
        BY <3>1, Zenon DEF Plan
      <4>2. run'[r].at = "idle"
        BY <1>0, <4>1, IdleMoves
      <4>q. QED
        BY <4>2 DEF Busy
    <3>q. QED
      BY <3>1
  <2>q. QED
    BY <1>0, <2>2, <2>3, <2>4, JobSteps
<1>q. QED
  BY <1>2, <1>3

(* And what it sends is still queued.                                      *)
LEMMA SentIsQueued ==
  ASSUME IInv, Stepping, ~disturbed', NEW r \in Runs, Sending(r)'
  PROVE  delivery'[run'[r].row].status = "QUEUED"
<1>0. TypeOK /\ ~disturbed /\ Placed
  BY DisturbedStays DEF IInv
<1>1. \A q \in Runs : Sending(q) => /\ delivery[run[q].row].status = "QUEUED"
                                    /\ run[q].row \in DOMAIN delivery
  BY <1>0 DEF IInv, Undisturbed, Placed
<1>2. CASE ClaimDelivery(r)
  <2>1. /\ \A j \in DOMAIN delivery : delivery'[j].status = delivery[j].status
        /\ Updates(delivery, delivery')
        /\ Kept'
        /\ \/ run'[r].at = "each"
           \/ delivery[run'[r].row].status = "QUEUED"
    BY <1>2, ClaimSteps
  <2>2. delivery[run'[r].row].status = "QUEUED"
    BY <2>1 DEF Sending
  <2>3. run'[r].row \in DOMAIN delivery
    BY <2>1 DEF Kept, Placed, Updates
  <2>q. QED
    BY <2>1, <2>2, <2>3
<1>3. CASE SendPush(r)
  <2>1. delivery' = delivery /\ run'[r].row = run[r].row
    BY <1>3, SendSteps
  <2>2. Sending(r)
    BY <1>3 DEF SendPush, Sending
  <2>q. QED
    BY <1>1, <2>1, <2>2
<1>4. CASE ~ClaimDelivery(r) /\ ~SendPush(r)
  <2>1. ~Moving(r)
    BY <1>4, RunSteps
  <2>2. run'[r].at = run[r].at /\ run'[r].row = run[r].row
    <3>1. CASE \E q \in Runs : Moving(q)
      BY <2>1, <3>1, RunSteps DEF Others
    <3>2. CASE \A q \in Runs : ~Moving(q)
      BY <3>2, StandingRuns
    <3>q. QED
      BY <3>1, <3>2
  <2>3. Sending(r) /\ Busy(r)
    BY <2>2 DEF Sending, Busy
  <2>4. \A i \in DOMAIN delivery : delivery'[i].status = delivery[i].status
    BY <2>1, <2>3, OwnerIsAlone
  <2>q. QED
    BY <1>1, <2>2, <2>3, <2>4
<1>q. QED
  BY <1>2, <1>3, <1>4

\* r has yet to record that the provider accepted delivery i.
Recording(r, i) ==
    run[r].at = "record" /\ run[r].answer = "accepted" /\ run[r].row = i

(* A run that is recording goes on, or records.                            *)
LEMMA RecordingStays ==
  ASSUME IInv, Stepping, ~disturbed', NEW r \in Runs, NEW i, Recording(r, i)
  PROVE  Recording(r, i)' \/ delivery'[i].status = "SENT"
<1>0. TypeOK /\ ~disturbed /\ \A q \in Runs : ~Stall(q) /\ ~Crash(q)
  BY DisturbedStays DEF IInv
<1>1. Sending(r) /\ run[r].row = i /\ run[r].answer = "accepted" /\ run[r].at = "record"
  BY DEF Sending, Recording
<1>2. delivery[i].status = "QUEUED" /\ i \in DOMAIN delivery /\ delivery \in Seq(Deliveries)
  BY <1>0, <1>1 DEF IInv, Undisturbed, Placed, TypeOK
<1>3. CASE RecordAnswer(r)
  <2>1. delivery' = Finalized(delivery, i, "SENT")
    BY <1>1, <1>3 DEF RecordAnswer
  <2>q. QED
    BY <1>2, <2>1, FinalizedUpdates
<1>4. CASE ~RecordAnswer(r)
  <2>1. ~Moving(r)
    BY <1>0, <1>1, <1>4, Zenon DEF Moving, StartRun, Plan, FailDelivery, ClaimDelivery, SendPush,
       ReadDeliveries, Settle, EndRun, MarkExhausted
  <2>2. CASE \E q \in Runs : Moving(q)
    <3>1. run'[r] = run[r]
      BY <2>1, <2>2, RunSteps DEF Others
    <3>q. QED
      BY <1>1, <3>1 DEF Recording
  <2>3. CASE \A q \in Runs : ~Moving(q)
    BY <1>1, <2>3, StandingRuns DEF Recording
  <2>q. QED
    BY <2>2, <2>3
<1>q. QED
  BY <1>3, <1>4

(* And what was pushed is recorded, or being recorded.                     *)
LEMMA PushedIsRecorded ==
  ASSUME IInv, Stepping, ~disturbed', NEW i \in DOMAIN delivery', delivery'[i].device \in pushed'
  PROVE  delivery'[i].status = "SENT" \/ \E r \in Runs : Recording(r, i)'
<1>0. /\ TypeOK /\ ~disturbed /\ Distinct(delivery) /\ Nothing \notin pushed /\ Pushed /\ Placed
      /\ delivery \in Seq(Deliveries)
  BY DisturbedStays, NothingAssumption DEF IInv, TypeOK, StatusTellsDelivery, Distinct
<1>1. \A j \in DOMAIN delivery : delivery[j].device \in pushed =>
         delivery[j].status = "SENT" \/ \E r \in Runs : Recording(r, j)
  BY <1>0 DEF IInv, Undisturbed, Recording
<1>2. CASE delivery'[i].device \in pushed
  <2>1. i \in DOMAIN delivery /\ delivery[i].device = delivery'[i].device
    <3>1. CASE Updates(delivery, delivery')
      BY <3>1 DEF Updates
    <3>2. CASE \A j \in DOMAIN delivery : delivery[j].device = Nothing
      BY <1>0, <1>2, <3>2 DEF Pushed
    <3>3. CASE delivery' = <<Row(Nothing)>>
      BY <1>0, <1>2, <3>3, FirstDelivery
    <3>q. QED
      BY <3>1, <3>2, <3>3, DeliverySteps
  <2>2. CASE delivery[i].status = "SENT"
    BY <2>1, <2>2, StepKeeps DEF Advances
  <2>3. CASE \E r \in Runs : Recording(r, i)
    BY <2>3, RecordingStays
  <2>q. QED
    BY <1>1, <1>2, <2>1, <2>2, <2>3
<1>3. CASE delivery'[i].device \notin pushed
  <2>1. PICK r \in Runs : SendPush(r)
    BY <1>3, OnlyPushes
  <2>2. /\ delivery' = delivery
        /\ run'[r].at = "record" /\ run'[r].row = run[r].row
        /\ pushed' \in {pushed, pushed \cup {delivery[run[r].row].device}}
        /\ pushed' # pushed => run'[r].answer = "accepted" \/ disturbed'
    BY <2>1, SendSteps
  <2>3. run[r].row \in DOMAIN delivery
    BY <1>0, <2>1 DEF SendPush, Placed, Sending
  <2>4. delivery[i].device = delivery[run[r].row].device /\ i \in DOMAIN delivery
    BY <1>3, <2>2
  <2>5. i = run[r].row
    BY <1>0, <2>3, <2>4 DEF Distinct
  <2>6. run'[r].answer = "accepted"
    BY <1>3, <2>2
  <2>q. QED
    BY <2>2, <2>5, <2>6 DEF Recording
<1>q. QED
  BY <1>2, <1>3

(* Undisturbed is preserved.                                               *)
LEMMA UndisturbedPreserved ==
  ASSUME IInv, Stepping
  PROVE  Undisturbed'
BY OwnersOnly, SentIsQueued, PushedIsRecorded DEF Undisturbed, Recording

(* StatusTellsDelivery is preserved.                                       *)
LEMMA StatusPreserved ==
  ASSUME IInv, Stepping
  PROVE  StatusTellsDelivery'
<1>0. TypeOK /\ Distinct(delivery) /\ delivery \in Seq(Deliveries)
  BY DEF IInv, TypeOK, StatusTellsDelivery, Distinct
<1>1. /\ delivery' \in Seq(Deliveries) /\ Advances(delivery, delivery')
      /\ Placed' /\ Pushed' /\ Undisturbed' /\ Begun'
  BY StepKeeps, UndisturbedPreserved, BegunPreserved DEF Advances, Kept
<1>2. notification' # "none" => delivery' # <<>>
  BY <1>1 DEF Begun
<1>3. ASSUME NEW r \in Runs, Settle(r)
      PROVE  /\ delivery' = delivery
             /\ run[r].verdict = "SENT" => SomeSent(delivery)
             /\ run[r].verdict = "FAILED" => AllFailed(delivery)
             /\ run[r].verdict \in {"open", "SENT", "FAILED"}
  BY <1>0, <1>3, RunFields DEF Settle, IInv, Concluded
<1>4. /\ VerdictOf(delivery') \in {"open", "SENT", "FAILED"}
      /\ VerdictOf(delivery') = "SENT" => SomeSent(delivery')
      /\ VerdictOf(delivery') = "FAILED" /\ delivery' # <<>> => AllFailed(delivery')
  BY VerdictIsTrue
<1>5. notification \in {"none", "QUEUED", "SENT", "FAILED", "READ"}
  BY <1>0 DEF TypeOK
<1>6. notification' = "SENT" => SomeSent(delivery')
  <2> SUFFICES ASSUME notification' = "SENT" PROVE SomeSent(delivery')
    OBVIOUS
  <2>1. CASE notification = "SENT"
    <3>1. SomeSent(delivery)
      BY <2>1 DEF IInv, StatusTellsDelivery, SomeSent
    <3>q. QED
      BY <1>1, <3>1, AdvanceKeeps
  <2>2. CASE notification # "SENT"
    <3>1. ASSUME NEW r \in Runs, Settle(r), notification' = SettledAs(notification, run[r].verdict)
          PROVE  SomeSent(delivery')
      BY <1>3, <1>5, <2>2, <3>1, SettledStates
    <3>2. ASSUME notification' = SettledAs(notification, VerdictOf(delivery'))
          PROVE  SomeSent(delivery')
      BY <1>4, <1>5, <2>2, <3>2, SettledStates
    <3>q. QED
      BY <2>2, <3>1, <3>2, RowSteps
  <2>q. QED
    BY <2>1, <2>2
<1>7. notification' = "FAILED" => AllFailed(delivery')
  <2> SUFFICES ASSUME notification' = "FAILED" PROVE AllFailed(delivery')
    OBVIOUS
  <2>1. CASE notification = "FAILED"
    <3>1. AllFailed(delivery)
      BY <2>1 DEF IInv, StatusTellsDelivery, AllFailed, Begun
    <3>q. QED
      BY <1>1, <3>1, AdvanceKeeps
  <2>2. CASE notification # "FAILED"
    <3>1. ASSUME NEW r \in Runs, Settle(r), notification' = SettledAs(notification, run[r].verdict)
          PROVE  AllFailed(delivery')
      BY <1>3, <1>5, <2>2, <3>1, SettledStates
    <3>2. ASSUME notification' = SettledAs(notification, VerdictOf(delivery'))
          PROVE  AllFailed(delivery')
      BY <1>2, <1>4, <1>5, <2>2, <3>2, SettledStates
    <3>3. ASSUME NEW w \in Writers, ExpireOffer(w)
          PROVE  AllFailed(delivery')
      <4>1. AllFailed(delivery)
        BY <3>3 DEF ExpireOffer, IInv, Written
      <4>q. QED
        BY <1>1, <4>1, AdvanceKeeps
    <3>q. QED
      BY <2>2, <3>1, <3>2, <3>3, RowSteps
  <2>q. QED
    BY <2>1, <2>2
<1>8. ASSUME NEW i \in DOMAIN delivery', delivery'[i].status = "SENT"
      PROVE  delivery'[i].device \in pushed'
  <2>1. i \in DOMAIN delivery
    BY <1>8, SentSteps
  <2>2. delivery[i].device \in pushed
    <3>1. CASE delivery[i].status = "SENT"
      BY <2>1, <3>1 DEF IInv, StatusTellsDelivery
    <3>2. CASE \E r \in Runs : /\ run[r].at = "record" /\ run[r].answer = "accepted"
                               /\ run[r].row = i
      BY <3>2 DEF IInv, Pushed
    <3>q. QED
      BY <1>8, <3>1, <3>2, SentSteps
  <2>3. delivery'[i].device = delivery[i].device
    BY <1>0, <1>1, <2>1, <2>2, NothingAssumption DEF Advances, TypeOK
  <2>4. pushed \subseteq pushed'
    <3>1. CASE pushed' = pushed
      BY <3>1
    <3>2. ASSUME NEW r \in Runs, SendPush(r)
          PROVE  pushed \subseteq pushed'
      BY <3>2, SendSteps
    <3>q. QED
      BY <3>1, <3>2, OnlyPushes
  <2>q. QED
    BY <2>2, <2>3, <2>4
<1>9. ASSUME NEW i \in DOMAIN delivery', delivery'[i].status = "FAILED",
             delivery'[i].device \in pushed', ~disturbed'
      PROVE  FALSE
  <2>1. PICK r \in Runs : Recording(r, i)'
    BY <1>9, PushedIsRecorded
  <2>2. Sending(r)' /\ run'[r].row = i
    BY <2>1 DEF Recording, Sending
  <2>q. QED
    BY <1>9, <2>2, SentIsQueued
<1>10. Distinct(delivery')
  <2>1. CASE Updates(delivery, delivery')
    BY <1>0, <2>1 DEF Updates, Distinct
  <2>2. CASE delivery' = <<Row(Nothing)>>
    BY <2>2, FirstDelivery DEF Distinct
  <2>q. QED
    BY <2>1, <2>2, DeliverySteps
<1>q. QED
  BY <1>6, <1>7, <1>8, <1>9, <1>10 DEF StatusTellsDelivery, SomeSent, AllFailed, Distinct

-----------------------------------------------------------------------------
(* The invariant.                                                          *)

(* It holds initially.                                                     *)
LEMMA InitEstablishes == Init => IInv
<1> SUFFICES ASSUME Init PROVE IInv
  OBVIOUS
<1>1. /\ delivery = <<>> /\ notification = "none" /\ pushed = {} /\ job = Missing /\ late = FALSE
      /\ \A r \in Runs : run[r] = Idle
      /\ \A w \in Writers : writer[w].at = "idle"
  BY DEF Init
<1>2. DOMAIN delivery = {} /\ delivery \in Seq(Deliveries)
  BY <1>1
<1>3. \A r \in Runs : run[r].at = "idle" /\ run[r].todo = {} /\ run[r].fit = {}
  BY <1>1, IdleRuns
<1>4. Missing \in JobStates /\ Missing.state = "missing" /\ Missing.owner = Nothing
  BY DEF Missing, JobStates
<1>5. TypeOK
  <2>1. run \in [Runs -> RunStates]
    BY IdleRuns DEF Init
  <2>2. writer \in [Writers -> WriterStates]
    BY DEF Init, WriterStates
  <2>3. job \in JobStates
    BY <1>1, <1>4
  <2>q. QED
    BY <1>2, <2>1, <2>2, <2>3 DEF Init, TypeOK
<1>6. Begun /\ Written /\ Owned
  BY <1>1, <1>3, <1>4 DEF Begun, Written, Owned, Untouched, Past
<1>7. Placed /\ Numbered /\ ClaimIsExclusive /\ Concluded /\ Pushed
  BY <1>1, <1>2, <1>3 DEF Placed, Numbered, ClaimIsExclusive, Concluded, Pushed, Sending
<1>8. Undisturbed
  BY <1>2, <1>3 DEF Undisturbed, Busy, Sending
<1>9. StatusTellsDelivery
  BY <1>1, <1>2 DEF StatusTellsDelivery
<1>q. QED
  BY <1>5, <1>6, <1>7, <1>8, <1>9 DEF IInv

(* Every step preserves it.                                                *)
LEMMA NextPreserves == IInv /\ [Next]_vars => IInv'
<1>1. ASSUME IInv, Next PROVE IInv'
  <2>1. Stepping
    BY <1>1, Steps
  <2>2. Placed' /\ Numbered' /\ ClaimIsExclusive' /\ Concluded' /\ Pushed'
    BY <1>1, <2>1, StepKeeps DEF Kept
  <2>3. TypeOK' /\ Begun' /\ Written' /\ Owned' /\ Undisturbed' /\ StatusTellsDelivery'
    BY <1>1, <2>1, TypePreserved, BegunPreserved, WrittenPreserved, OwnedPreserved,
       UndisturbedPreserved, StatusPreserved
  <2>q. QED
    BY <2>2, <2>3 DEF IInv
<1>2. ASSUME IInv, UNCHANGED vars PROVE IInv'
  <2>1. /\ offer' = offer /\ elapsed' = elapsed /\ published' = published /\ passed' = passed
        /\ notification' = notification /\ delivery' = delivery /\ reachable' = reachable
        /\ job' = job /\ late' = late /\ writer' = writer /\ run' = run /\ pushed' = pushed
        /\ disturbed' = disturbed /\ surprises' = surprises
    BY <1>2 DEF vars
  <2>2. TypeOK' /\ Begun' /\ Written' /\ Owned'
    BY <1>2, <2>1 DEF IInv, TypeOK, Begun, Written, Owned, Untouched, Past
  <2>3. Placed' /\ Numbered' /\ ClaimIsExclusive' /\ Concluded' /\ Pushed'
    BY <1>2, <2>1 DEF IInv, Placed, Numbered, ClaimIsExclusive, Concluded, Pushed, Sending
  <2>4. Undisturbed' /\ StatusTellsDelivery'
    BY <1>2, <2>1 DEF IInv, Undisturbed, StatusTellsDelivery, Busy, Sending
  <2>q. QED
    BY <2>2, <2>3, <2>4 DEF IInv
<1>q. QED
  BY <1>1, <1>2

(* The inductive invariant, of any number of devices, slots and writers.   *)
THEOREM Invariance == Spec => []IInv
BY InitEstablishes, NextPreserves, PTL DEF Spec

(* Rows, deliveries, runs and the job keep their types.                    *)
THEOREM TypeCorrect == Spec => []TypeOK
<1>1. IInv => TypeOK
  BY DEF IInv
<1>q. QED
  BY <1>1, Invariance, PTL

(* Until its lease runs out under it nobody claims the delivery that a run *)
(* is sending (claimDelivery, releaseDelivery).                            *)
THEOREM ClaimsAreExclusive == Spec => []ClaimIsExclusive
<1>1. IInv => ClaimIsExclusive
  BY DEF IInv
<1>q. QED
  BY <1>1, Invariance, PTL

(* A row that is SENT has a delivery that was, a FAILED one has none that  *)
(* can still be, and a delivery is recorded as it was pushed unless a run  *)
(* was overtaken, died or did not hear the provider (settleNotification).  *)
THEOREM StatusIsTrue == Spec => []StatusTellsDelivery
<1>1. IInv => StatusTellsDelivery
  BY DEF IInv
<1>q. QED
  BY <1>1, Invariance, PTL

=============================================================================
