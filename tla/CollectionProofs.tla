--------------------------- MODULE CollectionProofs ---------------------------
(***************************************************************************)
(* Safety of collection for any number of rides and callers, any budget of *)
(* attempts and any number of expired locks.  The ledger and the wallet    *)
(* rest on the conditional claims alone.  That a rider is told the truth   *)
(* rests on the lock: Alone says that two calls work on a ride only if it  *)
(* counts as overlapped, so that what a call read of any other ride is     *)
(* current when it commits (Fresh).                                        *)
(***************************************************************************)
EXTENDS Collection, FiniteSetTheorems, TLAPS

Busy(c) == call[c] # Idle

Collecting(c, places) == call[c].kind = "collect" /\ call[c].at \in places

Placed ==
    \A c \in Callers : Busy(c) => call[c].kind \in Kinds /\ call[c].ride \in Rides

\* A call is about a ride of the method that its kind is for.
Fitting ==
    \A c \in Callers :
        /\ Collecting(c, {"counting", "ready", "declined"}) => method[call[c].ride] = "WALLET"
        /\ At(c, "settle", "ready") => method[call[c].ride] = "WALLET"
        /\ At(c, "confirm", "ready") => method[call[c].ride] = "CASH"

WrittenOffIsFailed == \A r \in Rides : writtenOff[r] = 1 => payment[r] = "FAILED"

\* Attempts are only ever added.
Counted ==
    \A c \in Callers :
        Collecting(c, {"ready", "declined"}) => call[c].failedSoFar <= failed[call[c].ride]

Alone ==
    \A b, c \in Callers :
        Busy(b) /\ Busy(c) /\ call[b].ride = call[c].ride /\ call[b].ride \notin overlapped
            => b = c

Fresh ==
    \A c \in Callers :
        call[c].ride \notin overlapped =>
            /\ Collecting(c, {"counting", "ready", "declined"})
                   => payment[call[c].ride] = "PENDING"
            /\ Collecting(c, {"ready", "declined"})
                   => call[c].failedSoFar = failed[call[c].ride]

\* Whoever still owes has attempts left.
Budget ==
    \A r \in Rides :
        r \notin overlapped /\ payment[r] \in {"none", "PENDING"} => failed[r] < MaxAttempts

IInv ==
    /\ TypeOK
    /\ Placed
    /\ Fitting
    /\ WrittenOffIsFailed
    /\ LedgerFitsObligation
    /\ Counted
    /\ Alone
    /\ Fresh
    /\ Budget
    /\ FinalAfterBudget
    /\ WalletPaidForRides

-----------------------------------------------------------------------------
(* The initial state: nothing completed, nobody at work. *)
LEMMA InitEstablishes == Init => IInv
<1> SUFFICES ASSUME Init PROVE IInv
  OBVIOUS
<1> USE RidesAssumption, NobodyAssumption, AttemptsAssumption, BoundAssumption
<1>1. TypeOK
  BY DEF Init, TypeOK, Idle, Groups
<1>2. Placed /\ Fitting /\ Counted /\ Alone /\ Fresh
  BY DEF Init, Placed, Fitting, Counted, Alone, Fresh, Busy, Collecting, At, Idle
<1>3. WrittenOffIsFailed /\ LedgerFitsObligation /\ Budget /\ FinalAfterBudget
  BY DEF Init, WrittenOffIsFailed, LedgerFitsObligation, Budget, FinalAfterBudget, Groups
<1>4. WalletPaidForRides
  <2>1. {r \in Rides : method[r] = "WALLET" /\ payment[r] = "PAID"} = {}
    BY DEF Init
  <2>q. QED
    BY <2>1, FS_EmptySet DEF Init, WalletPaidForRides
<1>q. QED
  BY <1>1, <1>2, <1>3, <1>4 DEF IInv

(* What posting a group does to the ledger of a ride, and of the others. *)
LEMMA Posting ==
  ASSUME TypeOK, NEW r \in Rides, NEW g \in Groups, Post(r, g)
  PROVE  /\ posted' \in [Rides -> [Groups -> Nat]]
         /\ posted'[r][g] = posted[r][g] + 1
         /\ \A h \in Groups : h # g => posted'[r][h] = posted[r][h]
         /\ \A q \in Rides : q # r => posted'[q] = posted[q]
BY DEF TypeOK, Post

(* A receipt shows one of four states. *)
LEMMA Receipts ==
  ASSUME TypeOK, NEW r \in Rides, NEW s \in {"none", "PENDING", "PAID", "FAILED"},
         IssueReceipt(r, s)
  PROVE  receipt' \in [Rides -> {"none", "AWAITING", "PAID", "UNPAID", "WRITTEN_OFF"}]
<1>1. Projection(r, s) \in {"AWAITING", "PAID", "UNPAID", "WRITTEN_OFF"}
  BY DEF Projection
<1>q. QED
  BY <1>1 DEF TypeOK, IssueReceipt

(* A call that goes on stays about its ride; the others stay as they are. *)
LEMMA Going ==
  ASSUME TypeOK, Placed, NEW c \in Callers, Busy(c),
         NEW place \in {"counting", "ready", "declined", "done"}, Goto(c, place)
  PROVE  /\ call'[c] = [call[c] EXCEPT !.at = place]
         /\ call'[c].kind = call[c].kind /\ call'[c].ride = call[c].ride
         /\ call'[c].at = place /\ call'[c].failedSoFar = call[c].failedSoFar
         /\ call[c].ride \in Rides
         /\ \A b \in Callers : b # c => call'[b] = call[b]
         /\ call' \in [Callers ->
              [kind : Kinds \cup {"none"}, ride : Rides \cup {Nobody},
               at : {"idle", "locked", "counting", "ready", "declined", "done"},
               failedSoFar : Nat]]
<1>1. call[c] \in [kind : Kinds \cup {"none"}, ride : Rides \cup {Nobody},
               at : {"idle", "locked", "counting", "ready", "declined", "done"},
               failedSoFar : Nat]
  BY DEF TypeOK
<1>2. call'[c] = [call[c] EXCEPT !.at = place] /\ \A b \in Callers : b # c => call'[b] = call[b]
  BY DEF TypeOK, Goto
<1>3. call[c].ride \in Rides
  BY DEF Placed
<1>4. [call[c] EXCEPT !.at = place] \in [kind : Kinds \cup {"none"}, ride : Rides \cup {Nobody},
               at : {"idle", "locked", "counting", "ready", "declined", "done"},
               failedSoFar : Nat]
  BY <1>1
<1>5. call' \in [Callers ->
              [kind : Kinds \cup {"none"}, ride : Rides \cup {Nobody},
               at : {"idle", "locked", "counting", "ready", "declined", "done"},
               failedSoFar : Nat]]
  BY <1>4 DEF TypeOK, Goto
<1>q. QED
  BY <1>1, <1>2, <1>3, <1>5

(* A ride that becomes PAID joins the paid rides of its method. *)
LEMMA Joining ==
  ASSUME TypeOK, WalletPaidForRides, NEW r \in Rides, payment[r] # "PAID",
         payment' = [payment EXCEPT ![r] = "PAID"], UNCHANGED method,
         credited' = credited,
         \/ method[r] = "WALLET" /\ balance' = balance - 1
         \/ method[r] = "CASH" /\ balance' = balance
  PROVE  WalletPaidForRides'
<1> DEFINE Bought == {q \in Rides : method[q] = "WALLET" /\ payment[q] = "PAID"}
<1>0. WalletPaidForRides <=> credited - balance = Cardinality(Bought)
  BY DEF WalletPaidForRides
<1>1. IsFiniteSet(Bought) /\ r \notin Bought
  BY RidesAssumption, FS_Subset
<1>2. CASE method[r] = "WALLET" /\ balance' = balance - 1
  <2>1. Bought' = Bought \cup {r}
    BY <1>2 DEF TypeOK
  <2>2. Cardinality(Bought \cup {r}) = Cardinality(Bought) + 1
    BY <1>1, FS_AddElement
  <2>3. Cardinality(Bought) \in Nat
    BY <1>1, FS_CardinalityType
  <2>q. QED
    <3>1. credited' - balance' = credited - balance + 1
      BY <1>2 DEF TypeOK
    <3>2. Cardinality(Bought') = Cardinality(Bought) + 1
      BY <2>1, <2>2
    <3>q. QED
      BY <1>0, <3>1, <3>2 DEF WalletPaidForRides
<1>3. CASE method[r] = "CASH" /\ balance' = balance
  <2>1. Bought' = Bought
    BY <1>3 DEF TypeOK
  <2>q. QED
    BY <1>3, <2>1 DEF WalletPaidForRides
<1>q. QED
  BY <1>2, <1>3

-----------------------------------------------------------------------------
(* A call that ends leaves the other calls what they know, whatever it did to
   its own ride: nobody else works on it, or it counts as overlapped. *)
LEMMA Finishing ==
  ASSUME IInv, NEW c \in Callers, Busy(c), Goto(c, "done"),
         \A q \in Rides : /\ q # call[c].ride => payment'[q] = payment[q] /\ failed'[q] = failed[q]
                          /\ failed'[q] >= failed[q] /\ failed'[q] \in Nat,
         UNCHANGED <<method, overlapped>>
  PROVE  Placed' /\ Fitting' /\ Counted' /\ Alone' /\ Fresh'
<1> USE DEF IInv
<1>0. /\ call'[c].kind = call[c].kind /\ call'[c].ride = call[c].ride /\ call'[c].at = "done"
      /\ call[c].ride \in Rides
      /\ \A b \in Callers : b # c => call'[b] = call[b]
  BY Going
<1>1. Placed' /\ Alone'
  BY <1>0 DEF Placed, Alone, Busy
<1>2. Fitting'
  BY <1>0 DEF Fitting, Collecting, At
<1>3. Counted'
  <2> SUFFICES ASSUME NEW b \in Callers, Collecting(b, {"ready", "declined"})'
               PROVE  call'[b].failedSoFar <= failed'[call'[b].ride]
    BY DEF Counted
  <2>1. b # c /\ call'[b] = call[b]
    BY <1>0 DEF Collecting
  <2>2. Busy(b) /\ call[b].ride \in Rides /\ call[b].failedSoFar \in Nat
    BY <2>1 DEF Placed, Busy, Collecting, Idle, TypeOK
  <2>3. call[b].failedSoFar <= failed[call[b].ride] /\ failed[call[b].ride] \in Nat
    BY <2>1, <2>2 DEF Counted, Collecting, TypeOK
  <2>4. failed'[call[b].ride] >= failed[call[b].ride] /\ failed'[call[b].ride] \in Nat
    BY <2>2
  <2>q. QED
    BY <2>1, <2>2, <2>3, <2>4
<1>4. Fresh'
  <2> SUFFICES ASSUME NEW b \in Callers, call'[b].ride \notin overlapped',
                      Collecting(b, {"counting", "ready", "declined"})'
               PROVE  /\ payment'[call'[b].ride] = "PENDING"
                      /\ Collecting(b, {"ready", "declined"})'
                             => call'[b].failedSoFar = failed'[call'[b].ride]
    BY DEF Fresh, Collecting
  <2>1. b # c /\ call'[b] = call[b]
    BY <1>0 DEF Collecting
  <2>2. Busy(b) /\ call[b].ride \in Rides
    BY <2>1 DEF Placed, Busy, Collecting, Idle
  <2>3. call[b].ride # call[c].ride
    BY <2>1, <2>2 DEF Alone
  <2>q. QED
    BY <2>1, <2>2, <2>3 DEF Fresh, Collecting
<1>q. QED
  BY <1>1, <1>2, <1>3, <1>4

(* A step that leaves the rows and the ledger alone. *)
LEMMA RowsKept ==
  ASSUME IInv, UNCHANGED <<method, payment, failed, succeeded, writtenOff, posted, notified>>,
         overlapped \subseteq overlapped',
         credited' - balance' = credited - balance
  PROVE  WrittenOffIsFailed' /\ LedgerFitsObligation' /\ Budget' /\ FinalAfterBudget'
         /\ WalletPaidForRides'
<1> USE DEF IInv
<1>1. WrittenOffIsFailed' /\ LedgerFitsObligation'
  BY DEF WrittenOffIsFailed, LedgerFitsObligation
<1>2. Budget' /\ FinalAfterBudget'
  BY DEF Budget, FinalAfterBudget
<1>3. WalletPaidForRides'
  BY DEF WalletPaidForRides
<1>q. QED
  BY <1>1, <1>2, <1>3

(* A step that leaves the calls and the rows they work on alone. *)
LEMMA CallsKept ==
  ASSUME IInv, UNCHANGED <<method, call, failed, overlapped>>,
         \A c \in Callers : Busy(c) /\ payment[call[c].ride] = "PENDING"
             => payment'[call[c].ride] = "PENDING"
  PROVE  Placed' /\ Fitting' /\ Counted' /\ Alone' /\ Fresh'
<1> USE DEF IInv
<1>1. Placed' /\ Fitting' /\ Counted' /\ Alone'
  BY DEF Placed, Fitting, Counted, Alone, Busy, Collecting, At
<1>2. \A c \in Callers : call[c].kind = "collect" => Busy(c)
  BY DEF Busy, Idle
<1>3. Fresh'
  BY <1>2 DEF Fresh, Collecting
<1>q. QED
  BY <1>1, <1>3

-----------------------------------------------------------------------------
(* A ride is completed. *)
LEMMA Completing ==
  ASSUME IInv, NEW r \in Rides, CompleteRide(r)
  PROVE  IInv'
<1> USE DEF IInv
<1>0. /\ payment[r] = "none"
      /\ UNCHANGED <<confirming, method, failed, succeeded, writtenOff, receipt, balance,
                     credited, lock, call, notified, overlapped, faults>>
  BY DEF CompleteRide, historyVars
<1>1. \A c \in Callers : Busy(c) /\ payment[call[c].ride] = "PENDING"
          => payment'[call[c].ride] = "PENDING"
  BY DEF CompleteRide, TypeOK, Placed
<1>2. Placed' /\ Fitting' /\ Counted' /\ Alone' /\ Fresh'
  BY <1>0, <1>1, CallsKept
<1>3. CASE method[r] = "CASH" /\ ~confirming
  <2>1. payment' = [payment EXCEPT ![r] = "PAID"] /\ Post(r, "trip")
    BY <1>3 DEF CompleteRide
  <2>2. /\ posted' \in [Rides -> [Groups -> Nat]]
        /\ posted'[r]["trip"] = posted[r]["trip"] + 1
        /\ \A h \in Groups : h # "trip" => posted'[r][h] = posted[r][h]
        /\ \A q \in Rides : q # r => posted'[q] = posted[q]
    BY <2>1, Posting DEF Groups
  <2>3. TypeOK'
    BY <1>0, <2>1, <2>2 DEF TypeOK
  <2>4. WrittenOffIsFailed' /\ Budget'
    BY <1>0, <2>1 DEF WrittenOffIsFailed, Budget, TypeOK
  <2>5. LedgerFitsObligation'
    BY <1>0, <2>1, <2>2 DEF LedgerFitsObligation, TypeOK, Groups
  <2>6. FinalAfterBudget'
    BY <1>0, <2>1, <2>2 DEF FinalAfterBudget, TypeOK, Groups
  <2>7. WalletPaidForRides'
    BY <1>0, <1>3, <2>1, Joining
  <2>q. QED
    BY <1>2, <2>3, <2>4, <2>5, <2>6, <2>7
<1>4. CASE ~(method[r] = "CASH" /\ ~confirming)
  <2>1. payment' = [payment EXCEPT ![r] = "PENDING"] /\ UNCHANGED posted
    BY <1>4 DEF CompleteRide
  <2>2. TypeOK' /\ WrittenOffIsFailed' /\ Budget' /\ LedgerFitsObligation' /\ FinalAfterBudget'
    BY <1>0, <2>1 DEF TypeOK, WrittenOffIsFailed, Budget, LedgerFitsObligation, FinalAfterBudget
  <2>3. {q \in Rides : method'[q] = "WALLET" /\ payment'[q] = "PAID"} =
        {q \in Rides : method[q] = "WALLET" /\ payment[q] = "PAID"}
    BY <1>0, <2>1 DEF TypeOK
  <2>4. WalletPaidForRides'
    BY <1>0, <2>3 DEF WalletPaidForRides
  <2>q. QED
    BY <1>2, <2>2, <2>4
<1>q. QED
  BY <1>3, <1>4

(* Money comes in, a receipt is seen, a lock expires. *)
LEMMA Surroundings ==
  ASSUME IInv, Credit \/ \E r \in Rides : ViewReceipt(r) \/ LockExpires(r)
  PROVE  IInv'
<1> USE DEF IInv
<1>0. /\ UNCHANGED <<confirming, method, payment, failed, succeeded, writtenOff, posted, call,
                     notified, overlapped>>
      /\ credited' - balance' = credited - balance
      /\ credited' \in 0..MaxCredit /\ balance' \in Nat
      /\ faults' \in 0..MaxFaults
      /\ lock' \in [Rides -> Callers \cup {Nobody}]
  <2>1. CASE Credit
    BY <2>1, BoundAssumption DEF Credit, rowVars, historyVars, TypeOK
  <2>2. CASE \E r \in Rides : ViewReceipt(r)
    BY <2>2 DEF ViewReceipt, rowVars, moneyVars, historyVars, TypeOK
  <2>3. CASE \E r \in Rides : LockExpires(r)
    <3>1. PICK r \in Rides : LockExpires(r)
      BY <2>3
    <3>2. faults' \in 0..MaxFaults
      BY <3>1, BoundAssumption DEF LockExpires, Fault, TypeOK
    <3>q. QED
      BY <3>1, <3>2 DEF LockExpires, rowVars, moneyVars, historyVars, TypeOK
  <2>q. QED
    BY <2>1, <2>2, <2>3
<1>1. receipt' \in [Rides -> {"none", "AWAITING", "PAID", "UNPAID", "WRITTEN_OFF"}]
  <2>1. CASE \E r \in Rides : ViewReceipt(r)
    <3>1. PICK r \in Rides : IssueReceipt(r, payment[r])
      BY <2>1 DEF ViewReceipt
    <3>2. payment[r] \in {"none", "PENDING", "PAID", "FAILED"}
      BY DEF TypeOK
    <3>q. QED
      BY <3>1, <3>2, Receipts
  <2>2. CASE Credit \/ \E r \in Rides : LockExpires(r)
    BY <2>2 DEF TypeOK, Credit, LockExpires
  <2>q. QED
    BY <2>1, <2>2
<1>2. TypeOK'
  BY <1>0, <1>1 DEF TypeOK
<1>3. Placed' /\ Fitting' /\ Counted' /\ Alone' /\ Fresh'
  BY <1>0, CallsKept
<1>4. WrittenOffIsFailed' /\ LedgerFitsObligation' /\ Budget' /\ FinalAfterBudget'
      /\ WalletPaidForRides'
  BY <1>0, RowsKept
<1>q. QED
  BY <1>2, <1>3, <1>4

-----------------------------------------------------------------------------
(* A call takes the lock. *)
LEMMA Acquiring ==
  ASSUME IInv, NEW c \in Callers, NEW kind \in Kinds, NEW r \in Rides, Acquire(c, kind, r)
  PROVE  IInv'
<1> USE DEF IInv
<1>0. /\ call[c] = Idle
      /\ call'[c] = [kind |-> kind, ride |-> r, at |-> "locked", failedSoFar |-> 0]
      /\ \A b \in Callers : b # c => call'[b] = call[b]
      /\ overlapped' = IF Working(r) = {} THEN overlapped ELSE overlapped \cup {r}
      /\ UNCHANGED <<confirming, method, payment, failed, succeeded, writtenOff, posted,
                     balance, credited, receipt, notified, faults>>
  BY DEF Acquire, TypeOK, rowVars, moneyVars
<1>1. TypeOK'
  <2>1. call' \in [Callers ->
              [kind : Kinds \cup {"none"}, ride : Rides \cup {Nobody},
               at : {"idle", "locked", "counting", "ready", "declined", "done"},
               failedSoFar : Nat]]
    BY DEF Acquire, TypeOK
  <2>2. lock' \in [Rides -> Callers \cup {Nobody}] /\ overlapped' \subseteq Rides
    BY <1>0 DEF Acquire, TypeOK
  <2>q. QED
    BY <1>0, <2>1, <2>2 DEF TypeOK
<1>2. Placed' /\ Fitting' /\ Counted'
  BY <1>0 DEF Placed, Fitting, Counted, Busy, Collecting, At
<1>3. Alone'
  <2>1. \A b \in Callers : Busy(b) /\ call[b].ride = r => r \in overlapped'
    BY <1>0 DEF Working
  <2>q. QED
    BY <1>0, <2>1 DEF Alone, Busy
<1>4. Fresh'
  BY <1>0 DEF Fresh, Collecting
<1>5. WrittenOffIsFailed' /\ LedgerFitsObligation' /\ Budget' /\ FinalAfterBudget'
      /\ WalletPaidForRides'
  BY <1>0, RowsKept
<1>q. QED
  BY <1>1, <1>2, <1>3, <1>4, <1>5

(* A call reads its ride. *)
LEMMA Reading ==
  ASSUME IInv, NEW c \in Callers, ReadRide(c)
  PROVE  IInv'
<1> USE DEF IInv
<1>0. /\ call[c].at = "locked" /\ Busy(c)
      /\ UNCHANGED <<confirming, method, payment, failed, succeeded, writtenOff, posted,
                     balance, credited, receipt, lock, notified, overlapped, faults>>
  BY DEF ReadRide, Busy, Idle, rowVars, moneyVars, historyVars
<1>1. PICK place \in {"counting", "ready", "done"} :
          /\ Goto(c, place)
          /\ place = "done" <=> ~Eligible(call[c].kind, call[c].ride)
          /\ place = "counting" => call[c].kind = "collect"
          /\ place = "ready" => call[c].kind # "collect"
  BY DEF ReadRide
<1>2. /\ call'[c].kind = call[c].kind /\ call'[c].ride = call[c].ride
      /\ call'[c].at = place
      /\ call[c].ride \in Rides /\ call[c].kind \in Kinds
      /\ \A b \in Callers : b # c => call'[b] = call[b]
  BY <1>0, <1>1, Going DEF Placed
<1>3. TypeOK'
  BY <1>0, <1>1, Going DEF TypeOK
<1>4. /\ place = "counting" => payment[call[c].ride] = "PENDING" /\ method[call[c].ride] = "WALLET"
      /\ place = "ready" /\ call[c].kind = "settle" => method[call[c].ride] = "WALLET"
      /\ place = "ready" /\ call[c].kind = "confirm" => method[call[c].ride] = "CASH"
  BY <1>1, <1>2 DEF Eligible, Kinds
<1>5. Placed' /\ Alone'
  BY <1>0, <1>2 DEF Placed, Alone, Busy
<1>6. Fitting' /\ Counted' /\ Fresh'
  BY <1>0, <1>1, <1>2, <1>4 DEF Fitting, Counted, Fresh, Collecting, At
<1>7. WrittenOffIsFailed' /\ LedgerFitsObligation' /\ Budget' /\ FinalAfterBudget'
      /\ WalletPaidForRides'
  BY <1>0, RowsKept
<1>q. QED
  BY <1>3, <1>5, <1>6, <1>7

(* A collection counts the attempts made so far, or is refused by the wallet. *)
LEMMA Charging ==
  ASSUME IInv, NEW c \in Callers, CountAttempts(c) \/ Decline(c)
  PROVE  IInv'
<1> USE DEF IInv
<1>0. /\ call[c].kind = "collect" /\ Busy(c) /\ call[c].ride \in Rides
      /\ Collecting(c, {"counting", "ready"})
      /\ UNCHANGED <<confirming, method, payment, failed, succeeded, writtenOff, posted,
                     balance, credited, receipt, lock, notified, overlapped, faults>>
  BY DEF CountAttempts, Decline, At, Collecting, Placed, Busy, Idle, rowVars, moneyVars,
         historyVars
<1>1. /\ call'[c].kind = "collect" /\ call'[c].ride = call[c].ride
      /\ call'[c].at \in {"ready", "declined"}
      /\ \/ call'[c].failedSoFar = failed[call[c].ride]
         \/ Collecting(c, {"ready"}) /\ call'[c].failedSoFar = call[c].failedSoFar
      /\ \A b \in Callers : b # c => call'[b] = call[b]
      /\ call' \in [Callers ->
              [kind : Kinds \cup {"none"}, ride : Rides \cup {Nobody},
               at : {"idle", "locked", "counting", "ready", "declined", "done"},
               failedSoFar : Nat]]
  <2>1. CASE CountAttempts(c)
    <3>1. failed[call[c].ride] \in Nat
      BY <1>0 DEF TypeOK
    <3>q. QED
      <4>1. call' = [call EXCEPT ![c] = [call[c] EXCEPT !.at = "ready",
                                                        !.failedSoFar = failed[call[c].ride]]]
        BY <2>1 DEF CountAttempts, TypeOK
      <4>2. call[c] \in [kind : Kinds \cup {"none"}, ride : Rides \cup {Nobody},
               at : {"idle", "locked", "counting", "ready", "declined", "done"},
               failedSoFar : Nat]
        BY DEF TypeOK
      <4>3. [call[c] EXCEPT !.at = "ready", !.failedSoFar = failed[call[c].ride]] \in
               [kind : Kinds \cup {"none"}, ride : Rides \cup {Nobody},
               at : {"idle", "locked", "counting", "ready", "declined", "done"},
               failedSoFar : Nat]
        BY <3>1, <4>2
      <4>4. /\ call'[c] = [call[c] EXCEPT !.at = "ready", !.failedSoFar = failed[call[c].ride]]
            /\ \A b \in Callers : b # c => call'[b] = call[b]
        BY <4>1 DEF TypeOK
      <4>5. call' \in [Callers ->
              [kind : Kinds \cup {"none"}, ride : Rides \cup {Nobody},
               at : {"idle", "locked", "counting", "ready", "declined", "done"},
               failedSoFar : Nat]]
        BY <4>1, <4>3 DEF TypeOK
      <4>q. QED
        BY <1>0, <4>2, <4>4, <4>5
  <2>2. CASE Decline(c)
    BY <2>2, <1>0, Going DEF Decline, At, Collecting
  <2>q. QED
    BY <2>1, <2>2
<1>2. TypeOK'
  BY <1>0, <1>1 DEF TypeOK
<1>3. Placed' /\ Alone'
  BY <1>0, <1>1 DEF Placed, Alone, Busy, Kinds
<1>4. Fitting'
  BY <1>0, <1>1 DEF Fitting, Collecting, At
<1>5. Counted'
  <2>1. failed[call[c].ride] \in Nat /\ call'[c].failedSoFar <= failed[call[c].ride]
    BY <1>0, <1>1 DEF Counted, Collecting, TypeOK
  <2>q. QED
    BY <1>0, <1>1, <2>1 DEF Counted, Collecting
<1>7. Fresh'
  <2>1. call[c].ride \notin overlapped =>
            /\ payment[call[c].ride] = "PENDING"
            /\ call'[c].failedSoFar = failed[call[c].ride]
    BY <1>0, <1>1 DEF Fresh, Collecting
  <2>q. QED
    BY <1>0, <1>1, <2>1 DEF Fresh, Collecting
<1>6. WrittenOffIsFailed' /\ LedgerFitsObligation' /\ Budget' /\ FinalAfterBudget'
      /\ WalletPaidForRides'
  BY <1>0, RowsKept
<1>q. QED
  BY <1>2, <1>3, <1>4, <1>5, <1>6, <1>7

(* A call finds that somebody was first, ends, or dies. *)
LEMMA Quitting ==
  ASSUME IInv, NEW c \in Callers,
         \/ AlreadySettled(c, "collect", "PENDING")
         \/ AlreadySettled(c, "confirm", "PENDING")
         \/ Release(c)
         \/ Die(c)
  PROVE  IInv'
<1> USE DEF IInv
<1>0. /\ Busy(c)
      /\ UNCHANGED <<confirming, method, payment, failed, succeeded, writtenOff, posted,
                     balance, credited, receipt, notified, overlapped>>
      /\ lock' \in [Rides -> Callers \cup {Nobody}]
  BY DEF AlreadySettled, Release, Die, At, Busy, Idle, rowVars, moneyVars, historyVars, TypeOK
<1>1. faults' \in 0..MaxFaults
  BY BoundAssumption DEF AlreadySettled, Release, Die, Fault, TypeOK
<1>2. WrittenOffIsFailed' /\ LedgerFitsObligation' /\ Budget' /\ FinalAfterBudget'
      /\ WalletPaidForRides'
  BY <1>0, RowsKept
<1>3. CASE Goto(c, "done")
  <2>1. Placed' /\ Fitting' /\ Counted' /\ Alone' /\ Fresh'
    BY <1>0, <1>3, Finishing DEF TypeOK
  <2>2. TypeOK'
    BY <1>0, <1>1, <1>3, Going DEF TypeOK
  <2>q. QED
    BY <1>2, <2>1, <2>2
<1>4. CASE call' = [call EXCEPT ![c] = Idle]
  <2>1. call'[c] = Idle /\ \A b \in Callers : b # c => call'[b] = call[b]
    BY <1>4 DEF TypeOK
  <2>2. TypeOK'
    BY <1>0, <1>1, <1>4 DEF TypeOK, Idle
  <2>3. Placed' /\ Alone'
    BY <1>0, <2>1 DEF Placed, Alone, Busy
  <2>4. Fitting' /\ Counted' /\ Fresh'
    BY <1>0, <2>1 DEF Fitting, Counted, Fresh, Collecting, At, Idle
  <2>q. QED
    BY <1>2, <2>2, <2>3, <2>4
<1>q. QED
  BY <1>3, <1>4 DEF AlreadySettled, Release, Die

-----------------------------------------------------------------------------
(* The wallet pays, or the driver says that he has been paid. *)
LEMMA Paying ==
  ASSUME IInv, NEW c \in Callers, RecordSuccess(c) \/ ConfirmCash(c)
  PROVE  IInv'
<1> USE DEF IInv
<1>1. PICK r \in Rides, g \in {"trip", "share"} :
          /\ r = call[c].ride /\ Busy(c) /\ Goto(c, "done")
          /\ payment[r] = "PENDING" /\ payment' = [payment EXCEPT ![r] = "PAID"]
          /\ succeeded' = [succeeded EXCEPT ![r] = 1]
          /\ Post(r, g) /\ IssueReceipt(r, "PAID")
          /\ \/ method[r] = "WALLET" /\ balance > 0 /\ balance' = balance - 1
             \/ method[r] = "CASH" /\ balance' = balance
          /\ UNCHANGED <<confirming, method, failed, writtenOff, credited, lock, notified,
                         overlapped, faults>>
  <2>1. CASE RecordSuccess(c)
    <3>1. Busy(c) /\ call[c].ride \in Rides /\ method[call[c].ride] = "WALLET"
      BY <2>1 DEF RecordSuccess, At, Busy, Idle, Placed, Fitting, Collecting
    <3>q. QED
      BY <2>1, <3>1 DEF RecordSuccess, Claim, InsertSucceeded, historyVars
  <2>2. CASE ConfirmCash(c)
    <3>1. Busy(c) /\ call[c].ride \in Rides /\ method[call[c].ride] = "CASH"
      BY <2>2 DEF ConfirmCash, At, Busy, Idle, Placed, Fitting
    <3>q. QED
      BY <2>2, <3>1 DEF ConfirmCash, Claim, InsertSucceeded, historyVars
  <2>q. QED
    BY <2>1, <2>2
<1>2. /\ posted' \in [Rides -> [Groups -> Nat]]
      /\ posted'[r][g] = posted[r][g] + 1
      /\ \A h \in Groups : h # g => posted'[r][h] = posted[r][h]
      /\ \A q \in Rides : q # r => posted'[q] = posted[q]
  BY <1>1, Posting DEF Groups
<1>3. Placed' /\ Fitting' /\ Counted' /\ Alone' /\ Fresh'
  BY <1>1, Finishing DEF TypeOK
<1>4. TypeOK'
  <2>1. receipt' \in [Rides -> {"none", "AWAITING", "PAID", "UNPAID", "WRITTEN_OFF"}]
    BY <1>1, Receipts
  <2>2. balance' \in Nat
    BY <1>1 DEF TypeOK
  <2>q. QED
    BY <1>1, <1>2, <2>1, <2>2, Going DEF TypeOK
<1>5. WrittenOffIsFailed' /\ Budget'
  BY <1>1 DEF WrittenOffIsFailed, Budget, TypeOK
<1>6. LedgerFitsObligation'
  <2>1. ASSUME NEW q \in Rides, q # r
        PROVE  payment'[q] = payment[q] /\ posted'[q] = posted[q] /\ writtenOff'[q] = writtenOff[q]
    BY <1>1, <1>2, <2>1 DEF TypeOK
  <2>2. /\ posted'[r]["trip"] + posted'[r]["share"] + posted'[r]["receivable"] = 1
        /\ posted'[r]["receivable"] - posted'[r]["settled"] - posted'[r]["bad_debt"] = 0
        /\ payment'[r] = "PAID"
    BY <1>1, <1>2 DEF LedgerFitsObligation, TypeOK, Groups
  <2>q. QED
    BY <2>1, <2>2 DEF LedgerFitsObligation
<1>7. FinalAfterBudget'
  BY <1>1, <1>2 DEF FinalAfterBudget, Budget, TypeOK, Groups
<1>8. WalletPaidForRides'
  BY <1>1, Joining
<1>q. QED
  BY <1>3, <1>4, <1>5, <1>6, <1>7, <1>8

(* A failed attempt, the last one or not. *)
LEMMA Failing ==
  ASSUME IInv, NEW c \in Callers, RecordFailure(c)
  PROVE  IInv'
<1> USE DEF IInv
<1>1. PICK r \in Rides :
          /\ r = call[c].ride /\ Busy(c) /\ Goto(c, "done")
          /\ Collecting(c, {"declined"})
          /\ failed' = [failed EXCEPT ![r] = @ + 1]
          /\ UNCHANGED <<confirming, method, succeeded, writtenOff, balance, credited, lock,
                         overlapped, faults>>
  <2>1. call[c].ride \in Rides /\ Busy(c) /\ Collecting(c, {"declined"})
    BY DEF RecordFailure, At, Busy, Idle, Placed, Collecting
  <2>2. /\ Goto(c, "done")
        /\ failed' = [failed EXCEPT ![call[c].ride] = @ + 1]
        /\ UNCHANGED <<confirming, method, succeeded, writtenOff, balance, credited, lock,
                       overlapped, faults>>
    BY DEF RecordFailure
  <2>q. QED
    BY <2>1, <2>2
<1>2. /\ failed[r] \in Nat /\ failed'[r] = failed[r] + 1
      /\ \A q \in Rides : q # r => failed'[q] = failed[q]
      /\ failed' \in [Rides -> Nat]
  BY <1>1 DEF TypeOK
<1>3. /\ call[c].failedSoFar \in Nat /\ call[c].failedSoFar <= failed[r]
      /\ r \notin overlapped => payment[r] = "PENDING" /\ call[c].failedSoFar = failed[r]
  BY <1>1 DEF Counted, Fresh, Collecting, TypeOK
<1>4. WillRetry(c) <=> call[c].failedSoFar + 1 < MaxAttempts
  BY DEF WillRetry
<1>5. CASE UNCHANGED <<payment, posted, receipt>> /\ (WillRetry(c) \/ payment[r] # "PENDING")
           /\ notified' = IF WillRetry(c) THEN notified ELSE notified \cup {r}
  <2>1. Placed' /\ Fitting' /\ Counted' /\ Alone' /\ Fresh'
    BY <1>1, <1>2, <1>5, Finishing DEF TypeOK
  <2>2. TypeOK'
    <3>1. notified' \subseteq Rides
      BY <1>5 DEF TypeOK
    <3>q. QED
      BY <1>1, <1>2, <1>5, <3>1, Going DEF TypeOK
  <2>3. WrittenOffIsFailed' /\ LedgerFitsObligation' /\ WalletPaidForRides'
    BY <1>1, <1>5 DEF WrittenOffIsFailed, LedgerFitsObligation, WalletPaidForRides
  <2>4. r \notin overlapped => WillRetry(c) /\ failed'[r] < MaxAttempts /\ notified' = notified
    BY <1>2, <1>3, <1>4, <1>5
  <2>5. Budget'
    BY <1>1, <1>2, <1>5, <2>4 DEF Budget
  <2>6. FinalAfterBudget'
    <3>1. \A q \in Rides : payment'[q] = "FAILED" => failed'[q] >= MaxAttempts
      BY <1>2, <1>5, AttemptsAssumption DEF FinalAfterBudget
    <3>2. ASSUME NEW q \in Rides, q \notin overlapped
          PROVE  failed'[q] <= MaxAttempts /\ (q \in notified' <=> posted'[q]["receivable"] = 1)
      <4>1. CASE q = r
        BY <1>2, <1>5, <2>4, <3>2, <4>1, AttemptsAssumption DEF FinalAfterBudget
      <4>2. CASE q # r
        BY <1>2, <1>5, <3>2, <4>2 DEF FinalAfterBudget
      <4>q. QED
        BY <4>1, <4>2
    <3>q. QED
      BY <1>1, <3>1, <3>2 DEF FinalAfterBudget
  <2>q. QED
    BY <2>1, <2>2, <2>3, <2>5, <2>6
<1>6. CASE /\ ~WillRetry(c) /\ payment[r] = "PENDING"
           /\ notified' = notified \cup {r}
           /\ payment' = [payment EXCEPT ![r] = "FAILED"]
           /\ Post(r, "receivable") /\ IssueReceipt(r, "FAILED")
  <2>0. /\ posted' \in [Rides -> [Groups -> Nat]]
        /\ posted'[r]["receivable"] = posted[r]["receivable"] + 1
        /\ \A h \in Groups : h # "receivable" => posted'[r][h] = posted[r][h]
        /\ \A q \in Rides : q # r => posted'[q] = posted[q]
    BY <1>6, Posting DEF Groups
  <2>1. /\ payment'[r] = "FAILED"
        /\ \A q \in Rides : q # r => payment'[q] = payment[q]
        /\ payment' \in [Rides -> {"none", "PENDING", "PAID", "FAILED"}]
    BY <1>6 DEF TypeOK
  <2>2. Placed' /\ Fitting' /\ Counted' /\ Alone' /\ Fresh'
    BY <1>1, <1>2, <2>1, Finishing DEF TypeOK
  <2>3. TypeOK'
    <3>1. receipt' \in [Rides -> {"none", "AWAITING", "PAID", "UNPAID", "WRITTEN_OFF"}]
      BY <1>6, Receipts
    <3>2. notified' \subseteq Rides
      BY <1>6 DEF TypeOK
    <3>q. QED
      BY <1>1, <1>2, <2>0, <2>1, <3>1, <3>2, Going DEF TypeOK
  <2>4. writtenOff[r] = 0 /\ posted[r]["receivable"] = 0
    <3>1. writtenOff[r] = 0
      BY <1>6 DEF WrittenOffIsFailed, TypeOK
    <3>2. \A g \in Groups : posted[r][g] \in Nat
      BY DEF TypeOK
    <3>3. posted[r]["trip"] + posted[r]["share"] + posted[r]["receivable"] = 0
      BY <1>6 DEF LedgerFitsObligation
    <3>q. QED
      BY <3>1, <3>2, <3>3 DEF Groups
  <2>5. WrittenOffIsFailed' /\ Budget'
    BY <1>1, <1>2, <2>1, <2>4 DEF WrittenOffIsFailed, Budget
  <2>6. LedgerFitsObligation'
    <3>1. ASSUME NEW q \in Rides, q # r
          PROVE  payment'[q] = payment[q] /\ posted'[q] = posted[q] /\ writtenOff'[q] = writtenOff[q]
      BY <1>1, <2>0, <2>1, <3>1
    <3>2. /\ posted'[r]["trip"] + posted'[r]["share"] + posted'[r]["receivable"] = 1
          /\ posted'[r]["receivable"] - posted'[r]["settled"] - posted'[r]["bad_debt"] = 1
          /\ writtenOff'[r] = 0
      <4>1. \A g \in Groups : posted[r][g] \in Nat
        BY DEF TypeOK
      <4>2. posted[r]["trip"] + posted[r]["share"] + posted[r]["receivable"] = 0
        BY <1>6 DEF LedgerFitsObligation
      <4>3. posted[r]["receivable"] - posted[r]["settled"] - posted[r]["bad_debt"] = 0
        BY <1>6 DEF LedgerFitsObligation
      <4>q. QED
        <5>1. /\ posted'[r]["trip"] = posted[r]["trip"] /\ posted'[r]["share"] = posted[r]["share"]
              /\ posted'[r]["settled"] = posted[r]["settled"]
              /\ posted'[r]["bad_debt"] = posted[r]["bad_debt"]
              /\ posted'[r]["receivable"] = 1
          BY <2>0, <2>4 DEF Groups
        <5>2. writtenOff'[r] = 0
          BY <1>1, <2>4
        <5>3. /\ posted[r]["trip"] \in Nat /\ posted[r]["share"] \in Nat
              /\ posted[r]["settled"] \in Nat /\ posted[r]["bad_debt"] \in Nat
          BY <4>1 DEF Groups
        <5>4. posted[r]["trip"] + posted[r]["share"] = 0
          BY <2>4, <4>2, <5>3
        <5>5. 0 - posted[r]["settled"] - posted[r]["bad_debt"] = 0
          BY <2>4, <4>3
        <5>6. 1 - posted[r]["settled"] - posted[r]["bad_debt"] = 1
          BY <5>3, <5>5
        <5>q. QED
          BY <5>1, <5>2, <5>3, <5>4, <5>6
    <3>q. QED
      BY <2>1, <3>1, <3>2 DEF LedgerFitsObligation
  <2>7. FinalAfterBudget'
    <3>1. ASSUME NEW q \in Rides, payment'[q] = "FAILED" PROVE failed'[q] >= MaxAttempts
      <4>1. CASE q = r
        BY <1>2, <1>3, <1>4, <1>6, <4>1, AttemptsAssumption
      <4>2. CASE q # r
        BY <1>2, <2>1, <3>1, <4>2 DEF FinalAfterBudget
      <4>q. QED
        BY <4>1, <4>2
    <3>2. ASSUME NEW q \in Rides, q \notin overlapped
          PROVE  failed'[q] <= MaxAttempts /\ (q \in notified' <=> posted'[q]["receivable"] = 1)
      <4>1. CASE q = r
        <5>1. failed[r] < MaxAttempts
          BY <1>6, <3>2, <4>1 DEF Budget
        <5>q. QED
          BY <1>2, <1>6, <2>0, <2>4, <4>1, <5>1, AttemptsAssumption
      <4>2. CASE q # r
        BY <1>2, <1>6, <2>0, <3>2, <4>2 DEF FinalAfterBudget
      <4>q. QED
        BY <4>1, <4>2
    <3>q. QED
      BY <1>1, <3>1, <3>2 DEF FinalAfterBudget
  <2>8. WalletPaidForRides'
    <3>1. {q \in Rides : method'[q] = "WALLET" /\ payment'[q] = "PAID"} =
          {q \in Rides : method[q] = "WALLET" /\ payment[q] = "PAID"}
      BY <1>1, <1>6, <2>1
    <3>q. QED
      BY <1>1, <3>1 DEF WalletPaidForRides
  <2>q. QED
    BY <2>2, <2>3, <2>5, <2>6, <2>7, <2>8
<1>q. QED
  BY <1>1, <1>5, <1>6 DEF RecordFailure, Claim

(* A receivable is settled late. *)
LEMMA Settling ==
  ASSUME IInv, NEW c \in Callers, SettleReceivable(c)
  PROVE  IInv'
<1> USE DEF IInv
<1>1. /\ Busy(c) /\ Goto(c, "done") /\ call[c].ride \in Rides
      /\ method[call[c].ride] = "WALLET"
      /\ UNCHANGED <<confirming, method, failed, writtenOff, receipt, credited, lock,
                     notified, overlapped, faults>>
  BY DEF SettleReceivable, At, Busy, Idle, Placed, Fitting, historyVars
<1>2. CASE UNCHANGED <<payment, balance, succeeded, posted>>
  <2>1. Placed' /\ Fitting' /\ Counted' /\ Alone' /\ Fresh'
    BY <1>1, <1>2, Finishing DEF TypeOK
  <2>2. TypeOK'
    BY <1>1, <1>2, Going DEF TypeOK
  <2>3. WrittenOffIsFailed' /\ LedgerFitsObligation' /\ Budget' /\ FinalAfterBudget'
        /\ WalletPaidForRides'
    BY <1>1, <1>2, RowsKept
  <2>q. QED
    BY <2>1, <2>2, <2>3
<1>3. ASSUME NEW r \in Rides, r = call[c].ride,
             writtenOff[r] = 0, balance > 0, payment[r] = "FAILED",
             payment' = [payment EXCEPT ![r] = "PAID"],
             balance' = balance - 1,
             succeeded' = [succeeded EXCEPT ![r] = 1],
             Post(r, "settled")
      PROVE  IInv'
  <2>0. /\ posted' \in [Rides -> [Groups -> Nat]]
        /\ posted'[r]["settled"] = posted[r]["settled"] + 1
        /\ \A h \in Groups : h # "settled" => posted'[r][h] = posted[r][h]
        /\ \A q \in Rides : q # r => posted'[q] = posted[q]
    BY <1>3, Posting DEF Groups
  <2>1. /\ payment'[r] = "PAID"
        /\ \A q \in Rides : q # r => payment'[q] = payment[q]
    BY <1>3 DEF TypeOK
  <2>2. Placed' /\ Fitting' /\ Counted' /\ Alone' /\ Fresh'
    BY <1>1, <1>3, <2>1, Finishing DEF TypeOK
  <2>3. TypeOK'
    <3>1. balance' \in Nat
      BY <1>3 DEF TypeOK
    <3>q. QED
      BY <1>1, <1>3, <2>0, <3>1, Going DEF TypeOK
  <2>4. WrittenOffIsFailed' /\ Budget'
    BY <1>1, <1>3, <2>1 DEF WrittenOffIsFailed, Budget
  <2>5. LedgerFitsObligation'
    <3>1. ASSUME NEW q \in Rides, q # r
          PROVE  payment'[q] = payment[q] /\ posted'[q] = posted[q] /\ writtenOff'[q] = writtenOff[q]
      BY <1>1, <2>0, <2>1, <3>1
    <3>2. /\ posted'[r]["trip"] + posted'[r]["share"] + posted'[r]["receivable"] = 1
          /\ posted'[r]["receivable"] - posted'[r]["settled"] - posted'[r]["bad_debt"] = 0
      <4>1. \A g \in Groups : posted[r][g] \in Nat
        BY DEF TypeOK
      <4>2. posted[r]["trip"] + posted[r]["share"] + posted[r]["receivable"] = 1
        BY <1>3 DEF LedgerFitsObligation
      <4>3. posted[r]["receivable"] - posted[r]["settled"] - posted[r]["bad_debt"] = 1
        BY <1>3 DEF LedgerFitsObligation
      <4>q. QED
        BY <2>0, <4>1, <4>2, <4>3 DEF Groups
    <3>q. QED
      BY <2>1, <3>1, <3>2 DEF LedgerFitsObligation
  <2>6. FinalAfterBudget'
    <3>1. \A q \in Rides : posted'[q]["receivable"] = posted[q]["receivable"]
      BY <2>0 DEF Groups
    <3>q. QED
      BY <1>1, <2>1, <3>1 DEF FinalAfterBudget
  <2>7. WalletPaidForRides'
    BY <1>1, <1>3, Joining
  <2>q. QED
    BY <2>2, <2>3, <2>4, <2>5, <2>6, <2>7
<1>q. QED
  BY <1>1, <1>2, <1>3 DEF SettleReceivable, Claim, InsertSucceeded

(* A receivable is written off. *)
LEMMA WritingOff ==
  ASSUME IInv, NEW c \in Callers, WriteOff(c)
  PROVE  IInv'
<1> USE DEF IInv
<1>1. /\ Busy(c) /\ Goto(c, "done") /\ call[c].ride \in Rides
      /\ UNCHANGED <<confirming, method, payment, failed, succeeded, receipt, balance,
                     credited, lock, notified, overlapped, faults>>
  BY DEF WriteOff, At, Busy, Idle, Placed, historyVars
<1>2. Placed' /\ Fitting' /\ Counted' /\ Alone' /\ Fresh'
  BY <1>1, Finishing DEF TypeOK
<1>3. WalletPaidForRides'
  BY <1>1 DEF WalletPaidForRides
<1>4. CASE UNCHANGED <<writtenOff, posted>>
  <2>1. TypeOK'
    BY <1>1, <1>4, Going DEF TypeOK
  <2>2. WrittenOffIsFailed' /\ LedgerFitsObligation' /\ Budget' /\ FinalAfterBudget'
    BY <1>1, <1>4, RowsKept
  <2>q. QED
    BY <1>2, <1>3, <2>1, <2>2
<1>5. ASSUME NEW r \in Rides, r = call[c].ride, payment[r] = "FAILED", writtenOff[r] = 0,
             writtenOff' = [writtenOff EXCEPT ![r] = 1], Post(r, "bad_debt")
      PROVE  IInv'
  <2>0. /\ posted' \in [Rides -> [Groups -> Nat]]
        /\ posted'[r]["bad_debt"] = posted[r]["bad_debt"] + 1
        /\ \A h \in Groups : h # "bad_debt" => posted'[r][h] = posted[r][h]
        /\ \A q \in Rides : q # r => posted'[q] = posted[q]
    BY <1>5, Posting DEF Groups
  <2>1. /\ writtenOff'[r] = 1
        /\ \A q \in Rides : q # r => writtenOff'[q] = writtenOff[q]
    BY <1>5 DEF TypeOK
  <2>2. TypeOK'
    BY <1>1, <1>5, <2>0, Going DEF TypeOK
  <2>3. WrittenOffIsFailed' /\ Budget'
    BY <1>1, <1>5, <2>1 DEF WrittenOffIsFailed, Budget
  <2>4. LedgerFitsObligation'
    <3>1. ASSUME NEW q \in Rides, q # r
          PROVE  payment'[q] = payment[q] /\ posted'[q] = posted[q] /\ writtenOff'[q] = writtenOff[q]
      BY <1>1, <2>0, <2>1, <3>1
    <3>2. /\ posted'[r]["trip"] + posted'[r]["share"] + posted'[r]["receivable"] = 1
          /\ posted'[r]["receivable"] - posted'[r]["settled"] - posted'[r]["bad_debt"] = 0
          /\ payment'[r] = "FAILED"
      <4>1. \A g \in Groups : posted[r][g] \in Nat
        BY DEF TypeOK
      <4>2. posted[r]["trip"] + posted[r]["share"] + posted[r]["receivable"] = 1
        BY <1>5 DEF LedgerFitsObligation
      <4>3. posted[r]["receivable"] - posted[r]["settled"] - posted[r]["bad_debt"] = 1
        BY <1>5 DEF LedgerFitsObligation
      <4>q. QED
        BY <1>1, <1>5, <2>0, <4>1, <4>2, <4>3 DEF Groups
    <3>q. QED
      BY <2>1, <3>1, <3>2 DEF LedgerFitsObligation
  <2>5. FinalAfterBudget'
    <3>1. \A q \in Rides : posted'[q]["receivable"] = posted[q]["receivable"]
      BY <2>0 DEF Groups
    <3>q. QED
      BY <1>1, <3>1 DEF FinalAfterBudget
  <2>q. QED
    BY <1>2, <1>3, <2>2, <2>3, <2>4, <2>5
<1>q. QED
  BY <1>1, <1>4, <1>5 DEF WriteOff

(* A stutter keeps everything. *)
LEMMA Stuttering == ASSUME IInv, UNCHANGED vars PROVE IInv'
<1> USE DEF IInv, vars
<1>1. TypeOK'
  BY DEF TypeOK
<1>2. Placed' /\ Fitting' /\ Counted' /\ Alone' /\ Fresh'
  BY CallsKept
<1>3. WrittenOffIsFailed' /\ LedgerFitsObligation' /\ Budget' /\ FinalAfterBudget'
      /\ WalletPaidForRides'
  BY RowsKept
<1>q. QED
  BY <1>1, <1>2, <1>3

(* Every step keeps the invariant, and the initial states have it. *)
LEMMA Invariance == Spec => []IInv
<1>1. IInv /\ [Next]_vars => IInv'
  <2> SUFFICES ASSUME IInv, [Next]_vars PROVE IInv'
    OBVIOUS
  <2>1. CASE UNCHANGED vars
    BY <2>1, Stuttering
  <2>2. CASE Next
    BY <2>2, Completing, Surroundings, Acquiring, Reading, Charging, Quitting, Paying,
       Failing, Settling, WritingOff, Zenon DEF Next, Proceed
  <2>q. QED
    BY <2>1, <2>2
<1>q. QED
  BY InitEstablishes, <1>1, PTL DEF Spec

-----------------------------------------------------------------------------
(* A step that leaves every obligation as it is. *)
LEMMA Keeping ==
  ASSUME UNCHANGED <<payment, writtenOff>>,
         \A r \in Rides : posted'[r]["receivable"] = posted[r]["receivable"]
  PROVE  obligation' = obligation
BY DEF obligation

(* A step that moves one obligation. *)
LEMMA Moving ==
  ASSUME NEW r \in Rides, NEW from, NEW to, obligation[r] = from, obligation'[r] = to,
         \A q \in Rides : q # r => /\ payment'[q] = payment[q]
                                   /\ writtenOff'[q] = writtenOff[q]
                                   /\ posted'[q]["receivable"] = posted[q]["receivable"]
  PROVE  Promise!Move(r, from, to)
<1>1. \A q \in Rides : q # r => obligation'[q] = obligation[q]
  BY DEF obligation
<1>2. obligation' = [obligation EXCEPT ![r] = to]
  <2>1. /\ obligation' = [q \in Rides |-> obligation'[q]]
        /\ obligation = [q \in Rides |-> obligation[q]]
    BY DEF obligation
  <2>q. QED
    BY <1>1, <2>1
<1>q. QED
  BY <1>2 DEF Promise!Move

(* What an obligation is, in the states the calls can reach. *)
LEMMA Obligations ==
  ASSUME TypeOK, LedgerFitsObligation, NEW r \in Rides
  PROVE  /\ payment[r] = "none" => obligation[r] = "none"
         /\ payment[r] = "PENDING" => obligation[r] = "owed" /\ posted[r]["receivable"] = 0
         /\ payment[r] = "FAILED" /\ writtenOff[r] = 0
                => obligation[r] = "receivable" /\ posted[r]["receivable"] = 1
         /\ payment[r] = "FAILED" /\ writtenOff[r] = 1 => obligation[r] = "written_off"
         /\ payment[r] = "PAID" /\ posted[r]["receivable"] = 0 => obligation[r] = "paid"
         /\ payment[r] = "PAID" /\ posted[r]["receivable"] # 0 /\ writtenOff[r] = 0
                => obligation[r] = "paid_late"
<1>1. /\ payment[r] = "none" => obligation[r] = "none"
      /\ payment[r] = "PENDING" => obligation[r] = "owed"
      /\ payment[r] = "FAILED" /\ writtenOff[r] = 0 => obligation[r] = "receivable"
      /\ payment[r] = "FAILED" /\ writtenOff[r] = 1 => obligation[r] = "written_off"
      /\ payment[r] = "PAID" /\ posted[r]["receivable"] = 0 => obligation[r] = "paid"
      /\ payment[r] = "PAID" /\ posted[r]["receivable"] # 0 /\ writtenOff[r] = 0
             => obligation[r] = "paid_late"
  BY DEF obligation, ObligationAs
<1>2. /\ posted[r]["trip"] \in Nat /\ posted[r]["share"] \in Nat
      /\ posted[r]["receivable"] \in Nat /\ posted[r]["settled"] \in Nat
      /\ posted[r]["bad_debt"] \in Nat
  BY DEF TypeOK, Groups
<1>3. payment[r] = "PENDING" => posted[r]["receivable"] = 0
  <2>1. payment[r] = "PENDING" =>
            posted[r]["trip"] + posted[r]["share"] + posted[r]["receivable"] = 0
    BY DEF LedgerFitsObligation
  <2>q. QED
    BY <1>2, <2>1
<1>4. payment[r] = "FAILED" /\ writtenOff[r] = 0 => posted[r]["receivable"] = 1
  <2> SUFFICES ASSUME payment[r] = "FAILED", writtenOff[r] = 0
               PROVE  posted[r]["receivable"] = 1
    OBVIOUS
  <2>1. posted[r]["receivable"] - posted[r]["settled"] - posted[r]["bad_debt"] = 1
    BY DEF LedgerFitsObligation
  <2>2. posted[r]["trip"] + posted[r]["share"] + posted[r]["receivable"] = 1
    BY DEF LedgerFitsObligation
  <2>q. QED
    BY <1>2, <2>1, <2>2
<1>q. QED
  BY <1>1, <1>3, <1>4

(* Every step of the calls is a step of ObligationPromise or none. *)
LEMMA Refining ==
  ASSUME IInv, IInv', [Next]_vars
  PROVE  [Promise!Next]_obligation
<1> USE DEF IInv
<1>1. ASSUME NEW r \in Rides, NEW from, NEW to, Promise!Move(r, from, to),
             <<from, to>> \in {<<"none", "owed">>, <<"none", "paid">>, <<"owed", "paid">>,
                               <<"owed", "receivable">>, <<"receivable", "paid_late">>,
                               <<"receivable", "written_off">>}
      PROVE  Promise!Next
  BY <1>1 DEF Promise!Next, Promise!Fall, Promise!PayAtOnce, Promise!Pay, Promise!GiveUp,
              Promise!PayLate, Promise!WriteOff
<1>2. ASSUME NEW r \in Rides, CompleteRide(r) PROVE Promise!Next
  <2>0. obligation[r] = "none" /\ posted[r]["receivable"] = 0
    <3>1. payment[r] = "none" /\ \A g \in Groups : posted[r][g] \in Nat
      BY <1>2 DEF CompleteRide, TypeOK
    <3>2. posted[r]["trip"] + posted[r]["share"] + posted[r]["receivable"] = 0
      BY <3>1 DEF LedgerFitsObligation
    <3>3. /\ posted[r]["trip"] \in Nat /\ posted[r]["share"] \in Nat
          /\ posted[r]["receivable"] \in Nat
      BY <3>1 DEF Groups
    <3>4. posted[r]["receivable"] = 0
      BY <3>2, <3>3
    <3>q. QED
      BY <3>1, <3>4, Obligations
  <2>1. CASE payment' = [payment EXCEPT ![r] = "PAID"] /\ Post(r, "trip")
    <3>1. \A q \in Rides : posted'[q]["receivable"] = posted[q]["receivable"]
      BY <2>1, Posting DEF Groups
    <3>2. obligation'[r] = "paid"
      BY <2>0, <2>1, <3>1 DEF TypeOK, obligation, ObligationAs
    <3>3. Promise!Move(r, "none", "paid")
      BY <1>2, <2>0, <2>1, <3>1, <3>2, Moving DEF CompleteRide, TypeOK
    <3>q. QED
      BY <1>1, <3>3
  <2>2. CASE payment' = [payment EXCEPT ![r] = "PENDING"] /\ UNCHANGED posted
    <3>1. obligation'[r] = "owed"
      BY <2>2 DEF TypeOK, obligation, ObligationAs
    <3>2. Promise!Move(r, "none", "owed")
      BY <1>2, <2>0, <2>2, <3>1, Moving DEF CompleteRide, TypeOK
    <3>q. QED
      BY <1>1, <3>2
  <2>q. QED
    BY <1>2, <2>1, <2>2 DEF CompleteRide
<1>3. ASSUME NEW c \in Callers, RecordSuccess(c) \/ ConfirmCash(c) PROVE Promise!Next
  <2>1. PICK r \in Rides, g \in {"trip", "share"} :
            /\ payment[r] = "PENDING" /\ payment' = [payment EXCEPT ![r] = "PAID"]
            /\ Post(r, g) /\ UNCHANGED writtenOff
    <3>1. call[c].ride \in Rides
      BY <1>3 DEF RecordSuccess, ConfirmCash, At, Placed, Busy, Idle
    <3>q. QED
      BY <1>3, <3>1 DEF RecordSuccess, ConfirmCash, Claim
  <2>2. \A q \in Rides : posted'[q]["receivable"] = posted[q]["receivable"]
    BY <2>1, Posting DEF Groups
  <2>3. obligation[r] = "owed" /\ posted[r]["receivable"] = 0
    BY <2>1, Obligations
  <2>4. obligation'[r] = "paid"
    BY <2>1, <2>2, <2>3 DEF TypeOK, obligation, ObligationAs
  <2>5. Promise!Move(r, "owed", "paid")
    BY <2>1, <2>2, <2>3, <2>4, Moving DEF TypeOK
  <2>q. QED
    BY <1>1, <2>5
<1>4. ASSUME NEW c \in Callers, RecordFailure(c) PROVE [Promise!Next]_obligation
  <2>1. call[c].ride \in Rides /\ UNCHANGED writtenOff
    BY <1>4 DEF RecordFailure, At, Placed, Busy, Idle
  <2>2. CASE UNCHANGED <<payment, posted>>
    BY <2>1, <2>2, Keeping
  <2>3. ASSUME NEW r \in Rides, payment[r] = "PENDING",
               payment' = [payment EXCEPT ![r] = "FAILED"], Post(r, "receivable")
        PROVE  Promise!Next
    <3>1. \A q \in Rides : q # r => posted'[q]["receivable"] = posted[q]["receivable"]
      BY <2>3, Posting DEF Groups
    <3>2. obligation[r] = "owed" /\ writtenOff[r] = 0
      BY <2>3, Obligations DEF WrittenOffIsFailed, TypeOK
    <3>3. obligation'[r] = "receivable"
      BY <2>1, <2>3, <3>2 DEF TypeOK, obligation, ObligationAs
    <3>4. Promise!Move(r, "owed", "receivable")
      BY <2>1, <2>3, <3>1, <3>2, <3>3, Moving DEF TypeOK
    <3>q. QED
      BY <1>1, <3>4
  <2>q. QED
    BY <1>4, <2>1, <2>2, <2>3 DEF RecordFailure, Claim
<1>5. ASSUME NEW c \in Callers, SettleReceivable(c) PROVE [Promise!Next]_obligation
  <2>1. call[c].ride \in Rides /\ UNCHANGED writtenOff
    BY <1>5 DEF SettleReceivable, At, Placed, Busy, Idle
  <2>2. CASE UNCHANGED <<payment, posted>>
    BY <2>1, <2>2, Keeping
  <2>3. ASSUME NEW r \in Rides, payment[r] = "FAILED", writtenOff[r] = 0,
               payment' = [payment EXCEPT ![r] = "PAID"], Post(r, "settled")
        PROVE  Promise!Next
    <3>1. \A q \in Rides : posted'[q]["receivable"] = posted[q]["receivable"]
      BY <2>3, Posting DEF Groups
    <3>2. obligation[r] = "receivable" /\ posted[r]["receivable"] = 1
      BY <2>3, Obligations
    <3>3. obligation'[r] = "paid_late"
      BY <2>1, <2>3, <3>1, <3>2 DEF TypeOK, obligation, ObligationAs
    <3>4. Promise!Move(r, "receivable", "paid_late")
      BY <2>1, <2>3, <3>1, <3>2, <3>3, Moving DEF TypeOK
    <3>q. QED
      BY <1>1, <3>4
  <2>q. QED
    BY <1>5, <2>1, <2>2, <2>3 DEF SettleReceivable, Claim
<1>6. ASSUME NEW c \in Callers, WriteOff(c) PROVE [Promise!Next]_obligation
  <2>1. call[c].ride \in Rides /\ UNCHANGED payment
    BY <1>6 DEF WriteOff, At, Placed, Busy, Idle
  <2>2. CASE UNCHANGED <<writtenOff, posted>>
    BY <2>1, <2>2, Keeping
  <2>3. ASSUME NEW r \in Rides, payment[r] = "FAILED", writtenOff[r] = 0,
               writtenOff' = [writtenOff EXCEPT ![r] = 1], Post(r, "bad_debt")
        PROVE  Promise!Next
    <3>1. \A q \in Rides : posted'[q]["receivable"] = posted[q]["receivable"]
      BY <2>3, Posting DEF Groups
    <3>2. obligation[r] = "receivable"
      BY <2>3, Obligations
    <3>3. obligation'[r] = "written_off"
      BY <2>1, <2>3 DEF TypeOK, obligation, ObligationAs
    <3>4. Promise!Move(r, "receivable", "written_off")
      BY <2>1, <2>3, <3>1, <3>2, <3>3, Moving DEF TypeOK
    <3>q. QED
      BY <1>1, <3>4
  <2>q. QED
    BY <1>6, <2>1, <2>2, <2>3 DEF WriteOff
<1>7. ASSUME UNCHANGED <<payment, writtenOff, posted>> PROVE obligation' = obligation
  BY <1>7, Keeping
<1>8. CASE Credit \/ \E r \in Rides : ViewReceipt(r) \/ LockExpires(r)
  BY <1>7, <1>8 DEF Credit, ViewReceipt, LockExpires, rowVars, moneyVars
<1>9. CASE \E c \in Callers, kind \in Kinds, r \in Rides : Acquire(c, kind, r)
  BY <1>7, <1>9 DEF Acquire, rowVars, moneyVars
<1>10. CASE \E c \in Callers :
              \/ ReadRide(c) \/ CountAttempts(c) \/ Decline(c) \/ Release(c) \/ Die(c)
              \/ AlreadySettled(c, "collect", "PENDING")
              \/ AlreadySettled(c, "confirm", "PENDING")
  BY <1>7, <1>10 DEF ReadRide, CountAttempts, Decline, Release, Die, AlreadySettled, rowVars,
                     moneyVars
<1>11. CASE UNCHANGED vars
  BY <1>7, <1>11 DEF vars
<1>q. QED
  BY <1>2, <1>3, <1>4, <1>5, <1>6, <1>8, <1>9, <1>10, <1>11, Zenon DEF Next, Proceed

-----------------------------------------------------------------------------
(* Every variable keeps its type, for every budget of attempts and every       *)
(* number of expired locks: the wallet is never overdrawn, the partial indexes *)
(* on SUCCEEDED and WRITTEN_OFF rows hold.                                     *)
THEOREM Typed == Spec => []TypeOK
BY Invariance, PTL DEF IInv

(* The ledger recognises the earnings of a ride once, and the rider's debt     *)
(* stands in it exactly while the fare is a receivable.                        *)
THEOREM LedgerFits == Spec => []LedgerFitsObligation
BY Invariance, PTL DEF IInv

(* What left the rider's wallet is the number of rides it paid.                *)
THEOREM WalletPays == Spec => []WalletPaidForRides
BY Invariance, PTL DEF IInv

(* A fare is given up after all attempts, and then the rider is told so; nobody *)
(* is told wrongly of a ride whose calls never overlapped.                      *)
THEOREM BudgetIsSpent == Spec => []FinalAfterBudget
BY Invariance, PTL DEF IInv

(* The calls implement ObligationPromise: no fare is both paid and written off, *)
(* and each end is final, whatever locks expire.                                *)
THEOREM PromiseKept == Spec => KeepsPromise
<1>1. Init => Promise!Init
  BY DEF Init, Promise!Init, obligation, ObligationAs
<1>2. IInv /\ IInv' /\ [Next]_vars => [Promise!Next]_obligation
  BY Refining
<1>q. QED
  BY Invariance, <1>1, <1>2, PTL DEF Spec, KeepsPromise, Promise!Spec, Promise!vars
=============================================================================
