------------------------------ MODULE IntentProofs ------------------------------
(***************************************************************************)
(* Safety of the gate for any intents, callers and number of payments:     *)
(* one effect for one payment, no capture that was heard of is lost, and   *)
(* every transaction of the gate is one step of IntentPromise.             *)
(***************************************************************************)
EXTENDS Intent, FiniteSetTheorems, TLAPS

Decided == {"SUCCEEDED", "MANUAL_REVIEW"}

\* A payment with a row was captured for an intent, which is decided since.
RowsAreCaptures ==
    \A p \in Payments : books.row[p] # "none" =>
        /\ order[p] \in Intents /\ WasCaptured(p)
        /\ books.status[order[p]] \in Decided
        /\ books.row[p] = "SUCCEEDED" => fits[p]

\* A payment that is held has its case.
HeldHasCase(b) ==
    \A p \in Payments :
        b.row[p] = "CAPTURED_REVIEW" => \E k \in HoldKinds : <<k, p>> \in b.cases

\* A payment is made for an intent that exists; one that nobody knows is nobody's.
OrdersExist ==
    \A p \in Payments :
        /\ money[p] # "none" /\ order[p] \in Intents => books.status[order[p]] # "none"
        /\ <<"UNKNOWN_ORDER", p>> \in books.cases => order[p] = Nothing /\ money[p] # "none"

\* What was heard, or learnt by a call, is of payments that exist, and those of
\* one call are for one intent; what is captured stays so, or is refunded.
KnownPayments ==
    /\ \A e \in heard : money[e[1]] # "none"
    /\ \A c \in Callers : \A p \in DOMAIN call[c].records :
          /\ order[p] \in Intents /\ money[p] # "none"
          /\ call[c].records[p] = "captured" => WasCaptured(p)
          /\ \A q \in DOMAIN call[c].records : order[q] = order[p]

\* An intent that succeeded has its effect by one payment, any other has none.
OneEffect(i) ==
    IF books.status[i] = "SUCCEEDED"
    THEN books.effects[i] = 1 /\ \E p \in Payments : Paid(i) = {p}
    ELSE books.effects[i] = 0 /\ Paid(i) = {}

IInv ==
    /\ TypeOK
    /\ RowsAreCaptures
    /\ HeldHasCase(books)
    /\ OrdersExist
    /\ KnownPayments
    /\ \A i \in Intents : OneEffect(i)
    /\ HeardIsTracked

-----------------------------------------------------------------------------
(* What one transaction of the gate does to the intent i.                  *)

Fresh(b, d) == {p \in Payments : d.row[p] # b.row[p]}

\* Of the payments with a new row p is the one that was applied.
OnlyApplied(b, d, p) ==
    /\ p \in Fresh(b, d) /\ d.row[p] = "SUCCEEDED"
    /\ \A q \in Fresh(b, d) \ {p} : d.row[q] = "CAPTURED_REVIEW"

NoneApplied(b, d) == \A q \in Fresh(b, d) : d.row[q] = "CAPTURED_REVIEW"

Outcome(b, d, i) ==
    \/ /\ Fresh(b, d) = {}
       /\ d.status[i] = b.status[i] /\ d.effects[i] = b.effects[i]
    \/ /\ Fresh(b, d) = {}
       /\ b.status[i] = "PENDING" /\ d.status[i] = "FAILED" /\ d.effects[i] = b.effects[i]
    \/ /\ b.status[i] \in {"PENDING", "FAILED"} /\ d.status[i] = "SUCCEEDED"
       /\ d.effects[i] = b.effects[i] + 1
       /\ \E p \in Payments : OnlyApplied(b, d, p)
    \/ /\ b.status[i] \in {"PENDING", "FAILED"} /\ d.status[i] = "MANUAL_REVIEW"
       /\ d.effects[i] = b.effects[i]
       /\ Fresh(b, d) # {} /\ NoneApplied(b, d)
    \/ /\ b.status[i] \in Decided /\ d.status[i] = b.status[i]
       /\ d.effects[i] = b.effects[i]
       /\ NoneApplied(b, d)

\* d is what the gate may make of b, given payments for i.
Gated(b, d, i) ==
    /\ d \in BookStates
    /\ \A j \in Intents \ {i} : d.status[j] = b.status[j] /\ d.effects[j] = b.effects[j]
    /\ b.cases \subseteq d.cases
    /\ \A p \in Payments : <<"UNKNOWN_ORDER", p>> \in d.cases => <<"UNKNOWN_ORDER", p>> \in b.cases
    /\ \A p \in Fresh(b, d) :
          /\ b.row[p] = "none" /\ order[p] = i /\ WasCaptured(p)
          /\ d.row[p] = "SUCCEEDED" => fits[p]
    /\ HeldHasCase(d)
    /\ Outcome(b, d, i)

\* What the gate relies on: an intent of which a payment has its row is decided.
Gateable(b, i) ==
    /\ b \in BookStates
    /\ i \in Intents /\ b.status[i] # "none"
    /\ HeldHasCase(b)
    /\ \A p \in Payments : order[p] = i /\ b.row[p] # "none" => b.status[i] \in Decided

(* The gate leaves what it relies on.                                      *)
LEMMA GateableStays ==
  ASSUME NEW b, NEW d, NEW i, Gateable(b, i), Gated(b, d, i)
  PROVE  Gateable(d, i)
BY DEF Gateable, Gated, Outcome, OnlyApplied, NoneApplied, Fresh, Decided, BookStates

(* Nothing is something the gate may do.                                   *)
LEMMA GatedByNothing ==
  ASSUME NEW b, NEW i, Gateable(b, i)
  PROVE  Gated(b, b, i)
BY DEF Gateable, Gated, Outcome, Fresh

(* The gate's work on two payments in turn is the gate's work.             *)
LEMMA GatedTwice ==
  ASSUME NEW b, NEW d, NEW e, NEW i, Gateable(b, i), Gated(b, d, i), Gated(d, e, i)
  PROVE  Gated(b, e, i)
<1>0. /\ Gateable(d, i)
      /\ \A p \in Fresh(b, d) : b.row[p] = "none" /\ d.row[p] # "none"
      /\ \A p \in Fresh(d, e) : d.row[p] = "none" /\ e.row[p] # "none"
  BY GateableStays DEF Gated, Fresh
<1>1. /\ Fresh(b, e) = Fresh(b, d) \cup Fresh(d, e)
      /\ Fresh(b, d) \cap Fresh(d, e) = {}
      /\ \A p \in Fresh(b, d) : e.row[p] = d.row[p]
      /\ \A p \in Fresh(d, e) : d.row[p] = b.row[p]
  BY <1>0 DEF Fresh
<1>2. Outcome(b, e, i)
  BY <1>1 DEF Gated, Outcome, OnlyApplied, NoneApplied, Decided
<1>q. QED
  BY <1>1, <1>2 DEF Gated

(* Holding a payment.                                                      *)
LEMMA HoldIsGated ==
  ASSUME NEW b, NEW i, Gateable(b, i), NEW p \in Payments, order[p] = i, WasCaptured(p),
         NEW k \in HoldKinds
  PROVE  Gated(b, Hold(b, i, p, k), i) /\ Hold(b, i, p, k).row[p] # "none"
<1> DEFINE d == Hold(b, i, p, k)
<1>1. /\ b.status \in [Intents -> {"none", "PENDING", "FAILED", "SUCCEEDED", "MANUAL_REVIEW"}]
      /\ b.row \in [Payments -> {"none", "SUCCEEDED", "CAPTURED_REVIEW"}]
      /\ b.cases \in SUBSET ((HoldKinds \cup {"EXTERNAL_REFUND", "UNKNOWN_ORDER"}) \X Payments)
      /\ b.effects \in [Intents -> Nat]
  BY DEF Gateable, BookStates
<1>2. /\ d.row = [b.row EXCEPT ![p] = IF @ = "none" THEN "CAPTURED_REVIEW" ELSE @]
      /\ d.status = [b.status EXCEPT ![i] = IF @ \in {"PENDING", "FAILED"}
                                            THEN "MANUAL_REVIEW" ELSE @]
      /\ d.cases = b.cases \cup {<<k, p>>}
      /\ d.effects = b.effects
  <2>1. b \in BookStates
    BY DEF Gateable
  <2>3. d.row = [b.row EXCEPT ![p] = IF @ = "none" THEN "CAPTURED_REVIEW" ELSE @]
    BY <2>1 DEF Hold, BookStates
  <2>4. d.status = [b.status EXCEPT ![i] = IF @ \in {"PENDING", "FAILED"}
                                            THEN "MANUAL_REVIEW" ELSE @]
    BY <2>1 DEF Hold, BookStates
  <2>5. d.cases = b.cases \cup {<<k, p>>} /\ d.effects = b.effects
    BY <2>1 DEF Hold, BookStates
  <2>q. QED
    BY <2>1, <2>3, <2>4, <2>5
<1>3. d \in BookStates
  <2> DEFINE T == (HoldKinds \cup {"EXTERNAL_REFUND", "UNKNOWN_ORDER"}) \X Payments
  <2>1. d.row \in [Payments -> {"none", "SUCCEEDED", "CAPTURED_REVIEW"}]
    BY <1>1, <1>2
  <2>2. d.status \in [Intents -> {"none", "PENDING", "FAILED", "SUCCEEDED", "MANUAL_REVIEW"}]
    BY <1>1, <1>2
  <2>3. d.cases \in SUBSET T
    BY <1>1, <1>2
  <2>4. b \in [status : [Intents -> {"none", "PENDING", "FAILED", "SUCCEEDED", "MANUAL_REVIEW"}],
               row : [Payments -> {"none", "SUCCEEDED", "CAPTURED_REVIEW"}],
               cases : SUBSET T, effects : [Intents -> Nat]]
    BY DEF Gateable, BookStates
  <2> HIDE DEF T
  <2>5. d \in [status : [Intents -> {"none", "PENDING", "FAILED", "SUCCEEDED", "MANUAL_REVIEW"}],
               row : [Payments -> {"none", "SUCCEEDED", "CAPTURED_REVIEW"}],
               cases : SUBSET T, effects : [Intents -> Nat]]
    BY <1>1, <2>1, <2>2, <2>3, <2>4 DEF Hold
  <2>q. QED
    BY <2>5 DEF BookStates, T
<1> HIDE DEF d
<1>4. Fresh(b, d) = IF b.row[p] = "none" THEN {p} ELSE {}
  BY <1>1, <1>2 DEF Fresh
<1>5. d.row[p] # "none" /\ (b.row[p] = "none" => d.row[p] = "CAPTURED_REVIEW")
  BY <1>1, <1>2
<1>6. HeldHasCase(d)
  BY <1>1, <1>2 DEF Gateable, HeldHasCase
<1>7. Outcome(b, d, i)
  <2>1. CASE b.status[i] \in {"PENDING", "FAILED"}
    <3>1. b.row[p] = "none" /\ d.status[i] = "MANUAL_REVIEW"
      BY <1>1, <1>2, <2>1 DEF Gateable, Decided
    <3>q. QED
      BY <1>2, <1>4, <1>5, <2>1, <3>1 DEF Outcome, NoneApplied
  <2>2. CASE b.status[i] \in Decided
    BY <1>1, <1>2, <1>4, <1>5, <2>2 DEF Outcome, NoneApplied, Decided, Gateable
  <2>q. QED
    BY <1>1, <2>1, <2>2 DEF Gateable, Decided
<1>8. /\ \A q \in Payments : <<"UNKNOWN_ORDER", q>> \in d.cases => <<"UNKNOWN_ORDER", q>> \in b.cases
      /\ \A j \in Intents \ {i} : d.status[j] = b.status[j] /\ d.effects[j] = b.effects[j]
      /\ b.cases \subseteq d.cases
  BY <1>1, <1>2 DEF HoldKinds
<1>9. Gated(b, d, i)
  BY <1>3, <1>4, <1>5, <1>6, <1>7, <1>8 DEF Gated
<1>q. QED
  BY <1>5, <1>9 DEF d

(* Applying a payment.                                                     *)
LEMMA ApplyIsGated ==
  ASSUME NEW b, NEW i, Gateable(b, i), NEW p \in Payments, order[p] = i, WasCaptured(p),
         fits[p], b.row[p] = "none", b.status[i] \in {"PENDING", "FAILED"}
  PROVE  Gated(b, Apply(b, i, p), i) /\ Apply(b, i, p).row[p] # "none"
<1> DEFINE d == Apply(b, i, p)
<1>1. /\ b.status \in [Intents -> {"none", "PENDING", "FAILED", "SUCCEEDED", "MANUAL_REVIEW"}]
      /\ b.row \in [Payments -> {"none", "SUCCEEDED", "CAPTURED_REVIEW"}]
      /\ b.effects \in [Intents -> Nat]
      /\ i \in Intents
  BY DEF Gateable, BookStates
<1>2. /\ d.row = [b.row EXCEPT ![p] = "SUCCEEDED"]
      /\ d.status = [b.status EXCEPT ![i] = "SUCCEEDED"]
      /\ d.cases = b.cases
      /\ d.effects = [b.effects EXCEPT ![i] = @ + 1]
  BY DEF Gateable, BookStates, Apply
<1>3. d \in BookStates
  <2> DEFINE T == SUBSET ((HoldKinds \cup {"EXTERNAL_REFUND", "UNKNOWN_ORDER"}) \X Payments)
  <2>1. /\ d.row \in [Payments -> {"none", "SUCCEEDED", "CAPTURED_REVIEW"}]
        /\ d.status \in [Intents -> {"none", "PENDING", "FAILED", "SUCCEEDED", "MANUAL_REVIEW"}]
        /\ d.effects \in [Intents -> Nat]
    BY <1>1, <1>2
  <2>2. b \in [status : [Intents -> {"none", "PENDING", "FAILED", "SUCCEEDED", "MANUAL_REVIEW"}],
               row : [Payments -> {"none", "SUCCEEDED", "CAPTURED_REVIEW"}],
               cases : T, effects : [Intents -> Nat]]
    BY DEF Gateable, BookStates
  <2> HIDE DEF T
  <2>3. d \in [status : [Intents -> {"none", "PENDING", "FAILED", "SUCCEEDED", "MANUAL_REVIEW"}],
               row : [Payments -> {"none", "SUCCEEDED", "CAPTURED_REVIEW"}],
               cases : T, effects : [Intents -> Nat]]
    BY <1>1, <2>1, <2>2 DEF Apply
  <2>q. QED
    BY <2>3 DEF BookStates, T
<1> HIDE DEF d
<1>4. Fresh(b, d) = {p} /\ d.row[p] = "SUCCEEDED"
  BY <1>1, <1>2 DEF Fresh
<1>5. Outcome(b, d, i)
  BY <1>1, <1>2, <1>4 DEF Outcome, OnlyApplied
<1>6. HeldHasCase(d)
  BY <1>1, <1>2 DEF Gateable, HeldHasCase
<1>7. Gated(b, d, i)
  BY <1>1, <1>2, <1>3, <1>4, <1>5, <1>6 DEF Gated
<1>q. QED
  BY <1>4, <1>7 DEF d

(* Failing an intent.                                                      *)
LEMMA FailIsGated ==
  ASSUME NEW b, NEW i, Gateable(b, i), b.status[i] = "PENDING"
  PROVE  Gated(b, [b EXCEPT !.status[i] = "FAILED"], i)
<1> DEFINE d == [b EXCEPT !.status[i] = "FAILED"]
<1>1. b.status \in [Intents -> {"none", "PENDING", "FAILED", "SUCCEEDED", "MANUAL_REVIEW"}]
  BY DEF Gateable, BookStates
<1>2. /\ d.row = b.row /\ d.cases = b.cases /\ d.effects = b.effects
      /\ d.status = [b.status EXCEPT ![i] = "FAILED"]
  BY DEF Gateable, BookStates
<1>3. d \in BookStates
  BY <1>1 DEF Gateable, BookStates
<1> HIDE DEF d
<1>4. Fresh(b, d) = {}
  BY <1>2 DEF Fresh
<1>5. Outcome(b, d, i) /\ HeldHasCase(d)
  BY <1>1, <1>2, <1>4 DEF Gateable, Outcome, HeldHasCase
<1>6. Gated(b, d, i)
  BY <1>1, <1>2, <1>3, <1>4, <1>5 DEF Gated
<1>q. QED
  BY <1>6 DEF d

(* Noting a refund that is not ours.                                       *)
LEMMA NoteIsGated ==
  ASSUME NEW b, NEW i, Gateable(b, i), NEW p \in Payments
  PROVE  Gated(b, Hold(b, i, p, "EXTERNAL_REFUND"), i)
<1> DEFINE d == Hold(b, i, p, "EXTERNAL_REFUND")
           T == (HoldKinds \cup {"EXTERNAL_REFUND", "UNKNOWN_ORDER"}) \X Payments
<1>1. /\ b.status \in [Intents -> {"none", "PENDING", "FAILED", "SUCCEEDED", "MANUAL_REVIEW"}]
      /\ b.row \in [Payments -> {"none", "SUCCEEDED", "CAPTURED_REVIEW"}]
      /\ b.cases \in SUBSET T
      /\ i \in Intents
  BY DEF Gateable, BookStates
<1>2. /\ d.row = b.row /\ d.effects = b.effects /\ d.status = b.status
      /\ d.cases = b.cases \cup {<<"EXTERNAL_REFUND", p>>}
  BY DEF Gateable, BookStates, Hold, HoldKinds
<1>3. d \in BookStates
  <2>1. d.cases \in SUBSET T
    BY <1>1, <1>2
  <2>2. b \in [status : [Intents -> {"none", "PENDING", "FAILED", "SUCCEEDED", "MANUAL_REVIEW"}],
               row : [Payments -> {"none", "SUCCEEDED", "CAPTURED_REVIEW"}],
               cases : SUBSET T, effects : [Intents -> Nat]]
    BY DEF Gateable, BookStates
  <2> HIDE DEF T
  <2>3. d \in [status : [Intents -> {"none", "PENDING", "FAILED", "SUCCEEDED", "MANUAL_REVIEW"}],
               row : [Payments -> {"none", "SUCCEEDED", "CAPTURED_REVIEW"}],
               cases : SUBSET T, effects : [Intents -> Nat]]
    BY <1>1, <1>2, <2>1, <2>2 DEF Hold
  <2>q. QED
    BY <2>3 DEF BookStates, T
<1> HIDE DEF d, T
<1>4. Fresh(b, d) = {}
  BY <1>2 DEF Fresh
<1>5. Outcome(b, d, i) /\ HeldHasCase(d)
  BY <1>1, <1>2, <1>4 DEF Gateable, Outcome, HeldHasCase
<1>6. Gated(b, d, i)
  BY <1>1, <1>2, <1>3, <1>4, <1>5 DEF Gated
<1>q. QED
  BY <1>6 DEF d

(* Judging a payment, whatever the provider said of it, and whether or not *)
(* the amount is right; a capture gets its row.                            *)
LEMMA JudgeIsGated ==
  ASSUME NEW b, NEW i, Gateable(b, i), NEW p \in Payments, order[p] = i,
         NEW seen, seen = "captured" => WasCaptured(p),
         NEW right \in BOOLEAN, right => fits[p]
  PROVE  /\ Gated(b, Judge(b, i, p, seen, right), i)
         /\ seen = "captured" => Judge(b, i, p, seen, right).row[p] # "none"
<1>1. CASE seen = "captured"
  <2>0. Judge(b, i, p, seen, right) = JudgeCapture(b, i, p, right)
    BY <1>1 DEF Judge
  <2>1. CASE ~right
    BY <1>1, <2>0, <2>1, HoldIsGated DEF JudgeCapture, HoldKinds
  <2>2. CASE right /\ b.row[p] # "none"
    BY <1>1, <2>0, <2>2, GatedByNothing DEF JudgeCapture
  <2>3. CASE right /\ b.row[p] = "none" /\ b.status[i] \in {"PENDING", "FAILED"}
    BY <1>1, <2>0, <2>3, ApplyIsGated DEF JudgeCapture
  <2>4. CASE right /\ b.row[p] = "none" /\ b.status[i] \notin {"PENDING", "FAILED"}
    BY <1>1, <2>0, <2>4, HoldIsGated DEF JudgeCapture, HoldKinds
  <2>q. QED
    BY <2>1, <2>2, <2>3, <2>4
<1>2. CASE seen = "failed" /\ b.status[i] = "PENDING"
  BY <1>2, FailIsGated DEF Judge
<1>3. CASE seen = "refunded" /\ p \notin repaid
  BY <1>3, NoteIsGated DEF Judge
<1>4. CASE /\ seen # "captured"
           /\ ~(seen = "failed" /\ b.status[i] = "PENDING")
           /\ ~(seen = "refunded" /\ p \notin repaid)
  <2>1. Judge(b, i, p, seen, right) = b
    BY <1>4 DEF Judge
  <2>q. QED
    BY <1>4, <2>1, GatedByNothing
<1>q. QED
  BY <1>1, <1>2, <1>3, <1>4

-----------------------------------------------------------------------------
(* Judging one record after the other.                                     *)

\* The next payment's turn.
Turn(b, records, n) ==
    IF n \in DOMAIN records THEN Judge(b, order[n], n, records[n], fits[n]) ELSE b

\* f judges the payments up to m in turn.
Judges(f, b, records, m) ==
    f = [n \in 0..m |-> IF n = 0 THEN b ELSE Turn(f[n - 1], records, n)]

(* Some number is a smallest one with a property.                          *)
LEMMA SmallestNat ==
  ASSUME NEW S \in SUBSET Nat, S # {}
  PROVE  \E n \in S : \A k \in S : n <= k
<1>1. PICK n \in S : \A k \in S : ~(<<k, n>> \in OpToRel(<, Nat))
  BY NatLessThanWellFounded, WFMin
<1>2. \A k \in S : ~(k < n)
  BY <1>1 DEF OpToRel
<1>q. QED
  BY <1>2

(* Such a function exists, by induction over the number of payments.       *)
LEMMA JudgesExists ==
  ASSUME NEW b, NEW records, NEW m \in Nat
  PROVE  \E f : Judges(f, b, records, m)
<1> DEFINE N == {n \in Nat : ~\E f : Judges(f, b, records, n)}
<1>0. N \in SUBSET Nat
  OBVIOUS
<1>1. ASSUME N # {} PROVE FALSE
  <2>1. PICK n \in N : \A k \in N : n <= k
    <3> HIDE DEF N
    <3>q. QED
      BY <1>0, <1>1, SmallestNat
  <2>3. n # 0
    <3> DEFINE g == [k \in 0..0 |-> b]
    <3>1. Judges(g, b, records, 0)
      BY DEF Judges
    <3>q. QED
      BY <3>1
  <2>4. PICK g : Judges(g, b, records, n - 1)
    BY <2>1, <2>3
  <2> DEFINE h == [k \in 0..n |-> IF k = n THEN Turn(g[n - 1], records, n) ELSE g[k]]
  <2>5. h = [k \in 0..n |-> IF k = 0 THEN b ELSE Turn(h[k - 1], records, k)]
    <3>1. \A k \in 0..n : h[k] = IF k = 0 THEN b ELSE Turn(h[k - 1], records, k)
      <4> SUFFICES ASSUME NEW k \in 0..n
                   PROVE  h[k] = IF k = 0 THEN b ELSE Turn(h[k - 1], records, k)
        OBVIOUS
      <4>1. CASE k = n
        BY <2>3, <4>1
      <4>2. CASE k # n
        BY <2>3, <2>4, <4>2 DEF Judges
      <4>q. QED
        BY <4>1, <4>2
    <3>q. QED
      BY <3>1
  <2>6. Judges(h, b, records, n)
    BY <2>5, Zenon DEF Judges
  <2>q. QED
    BY <2>1, <2>6
<1>q. QED
  BY <1>1

(* JudgeAll, by such a function.                                           *)
LEMMA JudgeAllByTurns ==
  ASSUME NEW b, NEW records
  PROVE  \E f : /\ Judges(f, b, records, MaxPayments)
                /\ JudgeAll(b, records) = f[MaxPayments]
<1> DEFINE f == CHOOSE g : Judges(g, b, records, MaxPayments)
<1>1. Judges(f, b, records, MaxPayments)
  BY JudgesExists, BoundAssumption, Zenon
<1>2. JudgeAll(b, records) = f[MaxPayments]
  BY Zenon DEF JudgeAll, Judges, Turn
<1>q. QED
  BY <1>1, <1>2

(* All of one answer is the gate's work on one intent.                     *)
LEMMA JudgeAllIsGated ==
  ASSUME TypeOK, NEW b, NEW i, Gateable(b, i), NEW records,
         \A p \in DOMAIN records : /\ p \in Payments /\ order[p] = i
                                   /\ records[p] = "captured" => WasCaptured(p)
  PROVE  Gated(b, JudgeAll(b, records), i)
<1>1. PICK f : /\ Judges(f, b, records, MaxPayments)
               /\ JudgeAll(b, records) = f[MaxPayments]
  BY JudgeAllByTurns
<1> DEFINE N == {n \in 0..MaxPayments : ~Gated(b, f[n], i)}
<1>2. ASSUME N # {} PROVE FALSE
  <2>1. PICK n \in N : \A k \in N : n <= k
    <3>1. N \in SUBSET Nat
      BY BoundAssumption
    <3> HIDE DEF N
    <3>q. QED
      BY <1>2, <3>1, SmallestNat
  <2>3. f[n] = IF n = 0 THEN b ELSE Turn(f[n - 1], records, n)
    BY <1>1 DEF Judges
  <2>4. n # 0
    BY <2>1, <2>3, GatedByNothing
  <2>5. Gated(b, f[n - 1], i)
    BY <2>1, <2>4, BoundAssumption
  <2>6. Gateable(f[n - 1], i)
    BY <2>5, GateableStays
  <2>7. Gated(f[n - 1], f[n], i)
    <3>1. CASE n \in DOMAIN records
      <4>1. fits[n] \in BOOLEAN
        BY <3>1 DEF TypeOK
      <4>2. Gated(f[n - 1], Judge(f[n - 1], i, n, records[n], fits[n]), i)
        BY <2>6, <3>1, <4>1, JudgeIsGated
      <4>q. QED
        BY <2>3, <2>4, <3>1, <4>2 DEF Turn
    <3>2. CASE n \notin DOMAIN records
      BY <2>3, <2>4, <2>6, <3>2, GatedByNothing DEF Turn
    <3>q. QED
      BY <3>1, <3>2
  <2>8. Gated(b, f[n], i)
    BY <2>5, <2>7, GatedTwice
  <2>q. QED
    BY <2>1, <2>8
<1>3. Gated(b, f[MaxPayments], i)
  BY <1>2, BoundAssumption
<1>q. QED
  BY <1>1, <1>3

-----------------------------------------------------------------------------
(* Types.                                                                  *)

(* Some payment is the oldest, and some the latest.                        *)
LEMMA OldestAndLatest ==
  ASSUME NEW P \in SUBSET Payments, P # {}
  PROVE  Min(P) \in P /\ Max(P) \in P
<1>1. \E p \in P : \A q \in P : p <= q
  BY BoundAssumption, SmallestNat DEF Payments
<1>2. \E p \in P : \A q \in P : q <= p
  <2>0. \A p \in P : p \in Nat /\ p <= MaxPayments /\ MaxPayments - p \in Nat
    BY BoundAssumption DEF Payments
  <2> DEFINE D == {n \in Nat : \E p \in P : n + p = MaxPayments}
  <2>1. D \in SUBSET Nat
    OBVIOUS
  <2>2. \A p \in P : MaxPayments - p \in D
    <3> SUFFICES ASSUME NEW p \in P PROVE MaxPayments - p \in D
      OBVIOUS
    <3>1. (MaxPayments - p) + p = MaxPayments
      BY <2>0, BoundAssumption
    <3>q. QED
      BY <2>0, <3>1
  <2>3. PICK d \in D : \A e \in D : d <= e
    <3> HIDE DEF D
    <3>q. QED
      BY <2>1, <2>2, SmallestNat
  <2>4. PICK p \in P : d + p = MaxPayments
    OBVIOUS
  <2>5. ASSUME NEW q \in P PROVE q <= p
    <3>1. d <= MaxPayments - q
      BY <2>2, <2>3
    <3> HIDE DEF D
    <3>q. QED
      BY <2>0, <2>1, <2>4, <3>1, BoundAssumption
  <2>q. QED
    BY <2>5
<1>q. QED
  BY <1>1, <1>2 DEF Min, Max

(* The records of an order are of payments made for it.                    *)
LEMMA RecordsAreOwn ==
  ASSUME TypeOK, NEW i \in Intents
  PROVE  \E P \in SUBSET {p \in Payments : order[p] = i /\ money[p] # "none"} :
             OrderPayments(i) = RecordsOf(P)
<1> DEFINE own == {p \in Payments : order[p] = i /\ money[p] # "none"}
           captured == {p \in own : money[p] = "captured"}
           pending == {p \in own : money[p] = "created"}
           P == IF captured # {} THEN captured
                ELSE IF pending # {} THEN {Min(pending)}
                ELSE IF own # {} THEN {Max(own)} ELSE {}
<1>1. OrderPayments(i) = RecordsOf(P)
  BY Zenon DEF OrderPayments
<1>2. /\ own \in SUBSET Payments
      /\ captured \in SUBSET own /\ pending \in SUBSET own
  OBVIOUS
<1> HIDE DEF own, captured, pending
<1>3. P \in SUBSET own
  BY <1>2, OldestAndLatest
<1>q. QED
  BY <1>1, <1>3 DEF own

(* A call that learnt of payments of one intent is a call, and knows them. *)
LEMMA Learns ==
  ASSUME TypeOK, NEW c \in Callers, NEW i \in Intents, NEW kind \in {"verify", "confirm"},
         NEW P \in SUBSET {p \in Payments : order[p] = i /\ money[p] # "none"},
         KnownPayments, UNCHANGED <<provider, heard>>,
         call' = [call EXCEPT ![c] = [kind |-> kind, records |-> RecordsOf(P)]]
  PROVE  call' \in [Callers -> Calls] /\ KnownPayments'
<1> DEFINE one == [kind |-> kind, records |-> RecordsOf(P)]
<1>1. RecordsOf(P) \in [P -> {"created", "captured", "failed", "refunded"}]
  BY DEF RecordsOf, TypeOK
<1>2. one \in Calls
  BY <1>1 DEF Calls
<1>3. /\ DOMAIN one.records = P
      /\ \A p \in P : one.records[p] = money[p]
  BY DEF RecordsOf
<1> HIDE DEF one
<1>4. call' = [call EXCEPT ![c] = one]
  BY DEF one
<1>5. /\ call' \in [Callers -> Calls] /\ call'[c] = one
      /\ \A b \in Callers \ {c} : call'[b] = call[b]
  BY <1>2, <1>4 DEF TypeOK
<1>6. KnownPayments'
  <2>1. order' = order /\ money' = money /\ heard' = heard
    BY DEF provider
  <2>2. ASSUME NEW b \in Callers, NEW p \in DOMAIN call'[b].records
        PROVE  /\ order[p] \in Intents /\ money[p] # "none"
               /\ call'[b].records[p] = "captured" => WasCaptured(p)
               /\ \A q \in DOMAIN call'[b].records : order[q] = order[p]
    <3>1. CASE b = c
      BY <1>3, <1>5, <2>2, <3>1 DEF WasCaptured
    <3>2. CASE b # c
      BY <1>5, <2>2, <3>2 DEF KnownPayments
    <3>q. QED
      BY <3>1, <3>2
  <2>q. QED
    BY <2>1, <2>2 DEF KnownPayments, WasCaptured
<1>q. QED
  BY <1>5, <1>6

(* Making no call is a state of a call, with nothing learnt.               *)
LEMMA IdleIsACall == Idle \in Calls /\ DOMAIN Idle.records = {}
<1>1. Idle.records \in [{} -> {"created", "captured", "failed", "refunded"}]
  BY DEF Idle
<1>2. {} \in SUBSET Payments
  OBVIOUS
<1>q. QED
  BY <1>1, <1>2 DEF Idle, Calls

(* A call that ends leaves the others.                                     *)
LEMMA Ends ==
  ASSUME TypeOK, KnownPayments, NEW c \in Callers, UNCHANGED <<provider, heard>>,
         call' = [call EXCEPT ![c] = Idle]
  PROVE  call' \in [Callers -> Calls] /\ KnownPayments'
<1>1. order' = order /\ money' = money /\ heard' = heard
  BY DEF provider
<1>2. /\ call' \in [Callers -> Calls] /\ call'[c] = Idle
      /\ \A b \in Callers \ {c} : call'[b] = call[b]
  BY IdleIsACall DEF TypeOK
<1>3. ASSUME NEW b \in Callers, NEW p \in DOMAIN call'[b].records
      PROVE  /\ order[p] \in Intents /\ money[p] # "none"
             /\ call'[b].records[p] = "captured" => WasCaptured(p)
             /\ \A q \in DOMAIN call'[b].records : order[q] = order[p]
  <2>1. b # c
    BY <1>2, <1>3, IdleIsACall
  <2>q. QED
    BY <1>2, <1>3, <2>1 DEF KnownPayments
<1>q. QED
  BY <1>1, <1>2, <1>3 DEF KnownPayments, WasCaptured

-----------------------------------------------------------------------------
(* What each step keeps.                                                   *)

\* The payment has been applied, or Finance has a case for it.
Tracked(p) ==
    \/ books.row[p] = "SUCCEEDED"
    \/ books.row[p] = "CAPTURED_REVIEW" /\ \E k \in HoldKinds : <<k, p>> \in books.cases
    \/ order[p] = Nothing /\ <<"UNKNOWN_ORDER", p>> \in books.cases

\* The invariant, but for the types and what was heard and learnt.
BooksInv ==
    /\ RowsAreCaptures
    /\ HeldHasCase(books)
    /\ OrdersExist
    /\ \A i \in Intents : OneEffect(i)

(* The gate may judge the payments of any intent that exists.              *)
LEMMA GateableNow ==
  ASSUME IInv, NEW i \in Intents, books.status[i] # "none"
  PROVE  Gateable(books, i)
BY DEF IInv, TypeOK, RowsAreCaptures, Gateable

(* What the gate does to one intent keeps the invariant, and tracks what   *)
(* was tracked.                                                            *)
LEMMA GateKeeps ==
  ASSUME IInv, NEW i \in Intents, books.status[i] # "none", UNCHANGED provider,
         Gated(books, books', i)
  PROVE  BooksInv' /\ \A p \in Payments : Tracked(p) => Tracked(p)'
<1> DEFINE fresh == Fresh(books, books')
<1>0. /\ order' = order /\ fits' = fits /\ money' = money
      /\ order \in [Payments -> Intents \cup {Nothing}]
      /\ books \in BookStates /\ books' \in BookStates
      /\ \A p \in Payments : WasCaptured(p)' = WasCaptured(p)
  BY DEF provider, IInv, TypeOK, Gated, WasCaptured
<1>1. /\ \A p \in fresh : books.row[p] = "none" /\ order[p] = i /\ WasCaptured(p)
      /\ \A p \in fresh : books'.row[p] = "SUCCEEDED" => fits[p]
      /\ \A p \in Payments \ fresh : books'.row[p] = books.row[p]
      /\ fresh \subseteq Payments
  BY DEF Gated, Fresh
<1>2. /\ \A j \in Intents \ {i} : books'.status[j] = books.status[j]
      /\ \A j \in Intents \ {i} : books'.effects[j] = books.effects[j]
      /\ books.cases \subseteq books'.cases
      /\ HeldHasCase(books')
      /\ \A p \in Payments : <<"UNKNOWN_ORDER", p>> \in books'.cases
                                => <<"UNKNOWN_ORDER", p>> \in books.cases
  BY DEF Gated
<1>3. /\ books'.status[i] # "none"
      /\ books.status[i] \in Decided => books'.status[i] \in Decided
      /\ fresh # {} => books'.status[i] \in Decided
  BY DEF Gated, Outcome, Decided
<1>4. RowsAreCaptures'
  <2> SUFFICES ASSUME NEW p \in Payments, books'.row[p] # "none"
               PROVE  /\ order[p] \in Intents /\ WasCaptured(p)
                      /\ books'.status[order[p]] \in Decided
                      /\ books'.row[p] = "SUCCEEDED" => fits[p]
    BY <1>0 DEF RowsAreCaptures
  <2>1. CASE p \in fresh
    BY <1>1, <1>3, <2>1
  <2>2. CASE p \notin fresh
    BY <1>1, <1>2, <1>3, <2>2 DEF IInv, RowsAreCaptures
  <2>q. QED
    BY <2>1, <2>2
<1>5. OrdersExist'
  BY <1>0, <1>2, <1>3 DEF IInv, OrdersExist
<1>6. ASSUME NEW j \in Intents PROVE OneEffect(j)'
  <2>0. /\ OneEffect(j)
        /\ Paid(j) = {p \in Payments : order[p] = j /\ books.row[p] = "SUCCEEDED"}
        /\ Paid(j)' = {p \in Payments : order[p] = j /\ books'.row[p] = "SUCCEEDED"}
    BY <1>0 DEF IInv, Paid
  <2>1. CASE j # i
    <3>1. Paid(j)' = Paid(j)
      BY <1>1, <2>0, <2>1
    <3>q. QED
      BY <1>2, <2>0, <2>1, <3>1 DEF OneEffect
  <2>2. CASE j = i /\ NoneApplied(books, books') /\ books'.effects[i] = books.effects[i]
             /\ (books'.status[i] = "SUCCEEDED" <=> books.status[i] = "SUCCEEDED")
    <3>1. Paid(j)' = Paid(j)
      BY <1>1, <2>0, <2>2 DEF NoneApplied
    <3>q. QED
      BY <2>0, <2>2, <3>1 DEF OneEffect
  <2>3. ASSUME j = i, NEW p \in Payments, OnlyApplied(books, books', p),
               books.status[i] \in {"PENDING", "FAILED"}, books'.status[i] = "SUCCEEDED",
               books'.effects[i] = books.effects[i] + 1
        PROVE  OneEffect(j)'
    <3>1. Paid(j) = {} /\ books.effects[i] = 0
      BY <2>0, <2>3 DEF OneEffect
    <3>2. Paid(j)' = {p}
      BY <1>1, <2>0, <2>3, <3>1 DEF OnlyApplied
    <3>q. QED
      BY <2>3, <3>1, <3>2 DEF OneEffect
  <2>q. QED
    BY <2>1, <2>2, <2>3 DEF Gated, Outcome, NoneApplied, Decided
<1>7. ASSUME NEW p \in Payments, Tracked(p) PROVE Tracked(p)'
  <2>1. books.row[p] # "none" => books'.row[p] = books.row[p]
    BY <1>1
  <2>q. QED
    BY <1>0, <1>2, <1>7, <2>1 DEF Tracked
<1>q. QED
  BY <1>2, <1>4, <1>5, <1>6, <1>7 DEF BooksInv

(* What happens at the provider leaves the books true: payments of orders  *)
(* of ours are for intents that exist, and captures stay.                  *)
LEMMA ProviderKeeps ==
  ASSUME IInv, UNCHANGED <<heard, books, call>>, TypeOK',
         \A p \in Payments : money[p] # "none" =>
             /\ order'[p] = order[p] /\ fits'[p] = fits[p] /\ money'[p] # "none"
             /\ WasCaptured(p) => WasCaptured(p)',
         \A p \in Payments : money'[p] # "none" /\ order'[p] \in Intents =>
             books.status[order'[p]] # "none"
  PROVE  IInv'
<1>1. \A p \in Payments : books.row[p] # "none" => money[p] # "none"
  BY DEF IInv, RowsAreCaptures, WasCaptured
<1>2. RowsAreCaptures'
  BY <1>1 DEF IInv, RowsAreCaptures
<1>3. OrdersExist' /\ HeldHasCase(books)'
  BY DEF IInv, OrdersExist, HeldHasCase
<1>4. KnownPayments'
  <2>0. \A e \in heard : e[1] \in Payments
    BY DEF IInv, TypeOK, Events
  <2>1. \A c \in Callers : DOMAIN call[c].records \subseteq Payments
    BY DEF IInv, TypeOK, Calls
  <2>2. \A e \in heard : money'[e[1]] # "none"
    BY <2>0 DEF IInv, KnownPayments
  <2>3. \A c \in Callers : \A p \in DOMAIN call[c].records :
          /\ order'[p] \in Intents /\ money'[p] # "none"
          /\ call[c].records[p] = "captured" => WasCaptured(p)'
          /\ \A q \in DOMAIN call[c].records : order'[q] = order'[p]
    BY <2>1 DEF IInv, KnownPayments
  <2>q. QED
    BY <2>2, <2>3 DEF KnownPayments
<1>5. ASSUME NEW i \in Intents PROVE OneEffect(i)'
  <2>1. Paid(i)' = Paid(i)
    BY <1>1 DEF Paid, IInv, RowsAreCaptures
  <2>q. QED
    BY <2>1 DEF IInv, OneEffect
<1>6. HeardIsTracked'
  <2>1. \A e \in heard : money[e[1]] # "none"
    BY DEF IInv, KnownPayments
  <2>2. ASSUME NEW p \in Payments, <<p, "captured">> \in heard \/ <<p, "paid">> \in heard
        PROVE  money[p] # "none"
    BY <2>1, <2>2
  <2>q. QED
    BY <2>2 DEF IInv, HeardIsTracked
<1>q. QED
  BY <1>2, <1>3, <1>4, <1>5, <1>6 DEF IInv

\* The steps, by whose they are.
ProviderStep ==
    \/ \E p \in Payments, i \in Intents \cup {Nothing}, fit \in BOOLEAN : Pay(p, i, fit)
    \/ \E p \in Payments, to \in {"captured", "failed"} : Settle(p, to)
    \/ \E p \in Payments, byUs \in BOOLEAN : GiveBack(p, byUs)

Learning ==
    \/ \E i \in Intents : BeginReconcile(i)
    \/ StartRun \/ Die
    \/ \E c \in Callers, p \in Payments : BeginVerify(c, p)
    \/ \E c \in Callers, i \in Intents : BeginConfirm(c, i)
    \/ \E c \in Callers : Abandon(c)

Stepping ==
    \/ ProviderStep
    \/ Learning
    \/ \E i \in Intents : CreateIntent(i)
    \/ \E e \in Events, alone \in BOOLEAN : HandleWebhook(e, alone)
    \/ \E c \in Callers : Conclude(c)

(* They are all the steps there are.                                       *)
LEMMA Steps == Next => Stepping
BY Zenon DEF Next, Stepping, ProviderStep, Learning

(* The provider's steps.                                                   *)
LEMMA ProviderStepKeeps == IInv /\ ProviderStep => IInv'
<1> SUFFICES ASSUME IInv, ProviderStep PROVE IInv'
  OBVIOUS
<1>0. /\ order \in [Payments -> Intents \cup {Nothing}]
      /\ fits \in [Payments -> BOOLEAN]
      /\ money \in [Payments -> {"none", "created", "captured", "failed", "refunded"}]
      /\ repaid \in SUBSET Payments
      /\ TypeOK /\ OrdersExist
  BY DEF IInv, TypeOK
<1>1. ASSUME NEW p \in Payments, NEW i \in Intents \cup {Nothing}, NEW fit \in BOOLEAN,
             Pay(p, i, fit)
      PROVE  IInv'
  <2>1. TypeOK'
    BY <1>0, <1>1 DEF Pay, TypeOK
  <2>q. QED
    BY <1>0, <1>1, <2>1, ProviderKeeps, NothingAssumption DEF Pay, OrdersExist, WasCaptured
<1>2. ASSUME NEW p \in Payments, NEW to \in {"captured", "failed"}, Settle(p, to)
      PROVE  IInv'
  <2>1. TypeOK'
    BY <1>0, <1>2 DEF Settle, TypeOK
  <2>q. QED
    BY <1>0, <1>2, <2>1, ProviderKeeps DEF Settle, OrdersExist, WasCaptured
<1>3. ASSUME NEW p \in Payments, NEW byUs \in BOOLEAN, GiveBack(p, byUs)
      PROVE  IInv'
  <2>1. TypeOK'
    BY <1>0, <1>3 DEF GiveBack, TypeOK
  <2>q. QED
    BY <1>0, <1>3, <2>1, ProviderKeeps DEF GiveBack, OrdersExist, WasCaptured
<1>q. QED
  BY <1>1, <1>2, <1>3 DEF ProviderStep

(* Callers that learn, or give up.                                         *)
LEMMA LearningKeeps == IInv /\ Learning => IInv'
<1> SUFFICES ASSUME IInv, Learning PROVE IInv'
  OBVIOUS
<1>0. /\ TypeOK /\ KnownPayments
      /\ order \in [Payments -> Intents \cup {Nothing}]
      /\ batch \in SUBSET Intents
  BY DEF IInv, TypeOK
<1>1. UNCHANGED <<provider, heard, books>>
  BY DEF Learning, BeginReconcile, StartRun, Die, BeginVerify, BeginConfirm, Abandon
<1>2. ASSUME batch' \in SUBSET Intents, call' \in [Callers -> Calls], KnownPayments'
      PROVE  IInv'
  <2>1. /\ order' = order /\ fits' = fits /\ money' = money /\ repaid' = repaid
        /\ heard' = heard /\ books' = books
    BY <1>1 DEF provider
  <2>2. TypeOK'
    BY <1>0, <1>2, <2>1 DEF TypeOK
  <2>q. QED
    BY <1>2, <2>1, <2>2 DEF IInv, RowsAreCaptures, HeldHasCase, OrdersExist, OneEffect, Paid,
       HeardIsTracked, WasCaptured
<1>3. ASSUME NEW c \in Callers, call' = [call EXCEPT ![c] = Idle], batch' \in SUBSET Intents
      PROVE  IInv'
  BY <1>0, <1>1, <1>2, <1>3, Ends
<1>4. ASSUME call' = call, batch' \in SUBSET Intents
      PROVE  IInv'
  <2>1. order' = order /\ money' = money /\ heard' = heard
    BY <1>1 DEF provider
  <2>2. KnownPayments'
    BY <1>0, <1>4, <2>1 DEF KnownPayments, WasCaptured
  <2>q. QED
    BY <1>0, <1>2, <1>4, <2>2 DEF TypeOK
<1>5. ASSUME NEW c \in Callers, NEW i \in Intents,
             call' = [call EXCEPT ![c] = [kind |-> "confirm", records |-> OrderPayments(i)]],
             batch' \in SUBSET Intents
      PROVE  IInv'
  <2>1. PICK P \in SUBSET {p \in Payments : order[p] = i /\ money[p] # "none"} :
            OrderPayments(i) = RecordsOf(P)
    BY <1>0, RecordsAreOwn
  <2>q. QED
    BY <1>0, <1>1, <1>2, <1>5, <2>1, Learns
<1>6. ASSUME NEW c \in Callers, NEW p \in Payments, BeginVerify(c, p) PROVE IInv'
  <2>1. {p} \in SUBSET {q \in Payments : order[q] = order[p] /\ money[q] # "none"}
    BY <1>6 DEF BeginVerify
  <2>2. /\ order[p] \in Intents /\ batch' = batch
        /\ call' = [call EXCEPT ![c] = [kind |-> "verify", records |-> RecordsOf({p})]]
    BY <1>6 DEF BeginVerify
  <2>3. call' \in [Callers -> Calls] /\ KnownPayments'
    BY <1>0, <1>1, <2>1, <2>2, Learns
  <2>q. QED
    BY <1>0, <1>2, <2>2, <2>3
<1>7. ASSUME NEW i \in Intents, BeginReconcile(i) PROVE IInv'
  <2>1. batch' \in SUBSET Intents
    BY <1>0, <1>7 DEF BeginReconcile
  <2>2. CASE books.status[i] # "SUCCEEDED" /\ DOMAIN OrderPayments(i) # {}
    BY <1>5, <1>7, <2>1, <2>2, CallersAssumption DEF BeginReconcile
  <2>3. CASE ~(books.status[i] # "SUCCEEDED" /\ DOMAIN OrderPayments(i) # {})
    <3>1. call' = call
      BY <1>0, <1>7, <2>3, CallersAssumption DEF BeginReconcile, TypeOK
    <3>q. QED
      BY <1>4, <2>1, <3>1
  <2>q. QED
    BY <2>2, <2>3
<1>8. CASE StartRun
  BY <1>4, <1>8 DEF StartRun
<1>9. CASE Die
  BY <1>3, <1>9, CallersAssumption DEF Die
<1>10. ASSUME NEW c \in Callers, NEW i \in Intents, BeginConfirm(c, i) PROVE IInv'
  BY <1>0, <1>5, <1>10 DEF BeginConfirm
<1>11. ASSUME NEW c \in Callers, Abandon(c) PROVE IInv'
  BY <1>0, <1>3, <1>11 DEF Abandon
<1>q. QED
  BY <1>6, <1>7, <1>8, <1>9, <1>10, <1>11 DEF Learning

(* A new intent.                                                           *)
LEMMA CreateIntentKeeps == ASSUME IInv, NEW i \in Intents, CreateIntent(i) PROVE IInv'
<1>0. /\ TypeOK /\ books \in BookStates
      /\ books.status \in [Intents -> {"none", "PENDING", "FAILED", "SUCCEEDED", "MANUAL_REVIEW"}]
  BY DEF IInv, TypeOK, BookStates
<1>1. /\ books'.status = [books.status EXCEPT ![i] = "PENDING"]
      /\ books'.row = books.row /\ books'.cases = books.cases
      /\ books'.effects = books.effects
      /\ books' \in BookStates
      /\ books.status[i] = "none"
  BY <1>0 DEF CreateIntent, BookStates
<1>2. /\ order' = order /\ fits' = fits /\ money' = money /\ repaid' = repaid
      /\ heard' = heard /\ call' = call /\ batch' = batch
  BY DEF CreateIntent, provider
<1>3. TypeOK'
  BY <1>0, <1>1, <1>2 DEF TypeOK
<1>4. RowsAreCaptures' /\ HeldHasCase(books)' /\ OrdersExist'
  BY <1>0, <1>1, <1>2 DEF IInv, RowsAreCaptures, HeldHasCase, OrdersExist, Decided, WasCaptured
<1>5. KnownPayments' /\ HeardIsTracked'
  BY <1>1, <1>2 DEF IInv, KnownPayments, HeardIsTracked, WasCaptured
<1>6. \A j \in Intents : OneEffect(j)'
  BY <1>0, <1>1, <1>2 DEF IInv, OneEffect, Paid
<1>q. QED
  BY <1>3, <1>4, <1>5, <1>6 DEF IInv

(* The transaction that concludes a call judges the payments of one intent. *)
LEMMA ConcludeIsGated ==
  ASSUME IInv, NEW c \in Callers, Conclude(c)
  PROVE  \/ books' = books
         \/ \E i \in Intents : books.status[i] # "none" /\ Gated(books, books', i)
<1>1. books' = JudgeAll(books, call[c].records)
  BY DEF Conclude
<1>2. /\ DOMAIN call[c].records \subseteq Payments
      /\ \A p \in DOMAIN call[c].records :
            /\ order[p] \in Intents /\ money[p] # "none"
            /\ call[c].records[p] = "captured" => WasCaptured(p)
            /\ \A q \in DOMAIN call[c].records : order[q] = order[p]
  BY DEF IInv, TypeOK, Calls, KnownPayments
<1>3. ASSUME NEW q \in DOMAIN call[c].records
      PROVE  \E i \in Intents : books.status[i] # "none" /\ Gated(books, books', i)
  <2>1. order[q] \in Intents /\ books.status[order[q]] # "none"
    BY <1>2 DEF IInv, OrdersExist
  <2>2. Gateable(books, order[q])
    BY <2>1, GateableNow
  <2>3. Gated(books, books', order[q])
    BY <1>1, <1>2, <2>2, JudgeAllIsGated DEF IInv
  <2>q. QED
    BY <2>1, <2>3
<1>4. CASE DOMAIN call[c].records = {}
  <2>1. PICK f : /\ Judges(f, books, call[c].records, MaxPayments)
                 /\ JudgeAll(books, call[c].records) = f[MaxPayments]
    BY JudgeAllByTurns
  <2> DEFINE N == {n \in 0..MaxPayments : f[n] # books}
  <2>2. ASSUME N # {} PROVE FALSE
    <3>1. PICK n \in N : \A k \in N : n <= k
      <4>1. N \in SUBSET Nat
        BY BoundAssumption
      <4> HIDE DEF N
      <4>q. QED
        BY <2>2, <4>1, SmallestNat
    <3>2. f[n] = IF n = 0 THEN books ELSE f[n - 1]
      BY <1>4, <2>1 DEF Judges, Turn
    <3>3. n # 0 => f[n - 1] = books
      BY <3>1, BoundAssumption
    <3>q. QED
      BY <3>1, <3>2, <3>3
  <2>3. f[MaxPayments] = books
    BY <2>2, BoundAssumption
  <2>q. QED
    BY <1>1, <2>1, <2>3
<1>q. QED
  BY <1>3, <1>4

(* A transaction that concludes a call.                                    *)
LEMMA ConcludeKeeps == ASSUME IInv, NEW c \in Callers, Conclude(c) PROVE IInv'
<1>1. /\ UNCHANGED <<provider, heard, batch>>
      /\ call' = [call EXCEPT ![c] = Idle]
      /\ TypeOK /\ KnownPayments
  BY DEF Conclude, IInv
<1>2. call' \in [Callers -> Calls] /\ KnownPayments'
  BY <1>1, Ends
<1>3. /\ order' = order /\ fits' = fits /\ money' = money /\ repaid' = repaid
      /\ heard' = heard /\ batch' = batch
  BY <1>1 DEF provider
<1>4. /\ books' \in BookStates /\ BooksInv'
      /\ \A p \in Payments : Tracked(p) => Tracked(p)'
  <2>1. CASE books' = books
    BY <1>3, <2>1 DEF IInv, TypeOK, BooksInv, RowsAreCaptures, HeldHasCase, OrdersExist,
       OneEffect, Paid, Tracked, WasCaptured
  <2>2. ASSUME NEW i \in Intents, books.status[i] # "none", Gated(books, books', i)
        PROVE  /\ books' \in BookStates /\ BooksInv'
               /\ \A p \in Payments : Tracked(p) => Tracked(p)'
    BY <1>1, <2>2, GateKeeps DEF Gated
  <2>q. QED
    BY <2>1, <2>2, ConcludeIsGated
<1>5. TypeOK'
  BY <1>1, <1>2, <1>3, <1>4 DEF TypeOK
<1>6. HeardIsTracked'
  BY <1>3, <1>4 DEF IInv, HeardIsTracked, Tracked
<1>q. QED
  BY <1>2, <1>4, <1>5, <1>6 DEF IInv, BooksInv

(* What a webhook does to the books.                                       *)
LEMMA WebhookEffect ==
  ASSUME IInv, NEW e \in Events, NEW alone \in BOOLEAN, HandleWebhook(e, alone)
  PROVE  /\ e[1] \in Payments /\ money[e[1]] # "none"
         /\ UNCHANGED <<provider, call, batch>> /\ heard' = heard \cup {e}
         /\ Told(e) = "captured" => WasCaptured(e[1])
         /\ \/ /\ order[e[1]] \in Intents /\ books.status[order[e[1]]] # "none"
               /\ Gated(books, books', order[e[1]])
               /\ Told(e) = "captured" => books'.row[e[1]] # "none"
            \/ /\ order[e[1]] = Nothing
               /\ books' = [books EXCEPT !.cases = @ \cup {<<"UNKNOWN_ORDER", e[1]>>}]
            \/ order[e[1]] = Nothing /\ Told(e) # "captured" /\ books' = books
<1>1. /\ e[1] \in Payments
      /\ Told(e) \in {"captured", "failed"}
      /\ Told(e) = "captured" => WasCaptured(e[1])
      /\ money[e[1]] # "none"
      /\ order[e[1]] \in Intents \cup {Nothing}
      /\ fits[e[1]] \in BOOLEAN
  BY DEF HandleWebhook, Events, Told, WasCaptured, IInv, TypeOK
<1>2. UNCHANGED <<provider, call, batch>> /\ heard' = heard \cup {e}
  BY DEF HandleWebhook
<1>3. CASE order[e[1]] \in Intents
  <2>1. books' = Judge(books, order[e[1]], e[1], Told(e), fits[e[1]] /\ alone)
    BY <1>3 DEF HandleWebhook
  <2>2. books.status[order[e[1]]] # "none"
    BY <1>1, <1>3 DEF IInv, OrdersExist
  <2>3. Gateable(books, order[e[1]])
    BY <1>3, <2>2, GateableNow
  <2>4. (fits[e[1]] /\ alone) \in BOOLEAN /\ ((fits[e[1]] /\ alone) => fits[e[1]])
    BY <1>1
  <2>5. /\ Gated(books, books', order[e[1]])
        /\ Told(e) = "captured" => books'.row[e[1]] # "none"
    BY <1>1, <2>1, <2>3, <2>4, JudgeIsGated
  <2>q. QED
    BY <1>1, <1>2, <1>3, <2>2, <2>5
<1>4. CASE order[e[1]] \notin Intents
  <2>1. books' = IF Told(e) = "captured"
                 THEN [books EXCEPT !.cases = @ \cup {<<"UNKNOWN_ORDER", e[1]>>}] ELSE books
    BY <1>4 DEF HandleWebhook
  <2>q. QED
    BY <1>1, <1>2, <1>4, <2>1
<1>q. QED
  BY <1>3, <1>4

(* A payment that nobody knows gets its case.                              *)
LEMMA UnknownKeeps ==
  ASSUME IInv, NEW p \in Payments, order[p] = Nothing, money[p] # "none", UNCHANGED provider,
         books' = [books EXCEPT !.cases = @ \cup {<<"UNKNOWN_ORDER", p>>}]
  PROVE  /\ books'.status = books.status /\ books'.row = books.row
         /\ books'.effects = books.effects
         /\ books'.cases = books.cases \cup {<<"UNKNOWN_ORDER", p>>}
         /\ books' \in BookStates /\ BooksInv' /\ Tracked(p)'
         /\ \A q \in Payments : Tracked(q) => Tracked(q)'
<1>0. /\ order' = order /\ fits' = fits /\ money' = money
      /\ books \in BookStates
  BY DEF IInv, TypeOK, provider
<1>1. /\ books'.status = books.status /\ books'.row = books.row
      /\ books'.effects = books.effects
      /\ books'.cases = books.cases \cup {<<"UNKNOWN_ORDER", p>>}
  BY <1>0 DEF BookStates
<1>2. books' \in BookStates
  BY <1>0 DEF BookStates
<1>3. BooksInv'
  <2>1. RowsAreCaptures' /\ HeldHasCase(books)' /\ OrdersExist'
    BY <1>0, <1>1 DEF IInv, RowsAreCaptures, HeldHasCase, OrdersExist, WasCaptured, HoldKinds
  <2>2. \A i \in Intents : OneEffect(i)'
    BY <1>0, <1>1 DEF IInv, OneEffect, Paid
  <2>q. QED
    BY <2>1, <2>2 DEF BooksInv
<1>4. Tracked(p)' /\ \A q \in Payments : Tracked(q) => Tracked(q)'
  BY <1>0, <1>1 DEF Tracked
<1>q. QED
  BY <1>1, <1>2, <1>3, <1>4

(* A webhook.                                                              *)
LEMMA WebhookKeeps ==
  ASSUME IInv, NEW e \in Events, NEW alone \in BOOLEAN, HandleWebhook(e, alone)
  PROVE  IInv'
<1>1. /\ e[1] \in Payments /\ money[e[1]] # "none"
      /\ UNCHANGED <<provider, call, batch>> /\ heard' = heard \cup {e}
      /\ Told(e) = "captured" => WasCaptured(e[1])
  BY WebhookEffect
<1>2. /\ order' = order /\ fits' = fits /\ money' = money /\ repaid' = repaid
      /\ call' = call /\ batch' = batch /\ TypeOK
  BY <1>1 DEF provider, IInv
<1>3. /\ books' \in BookStates /\ BooksInv'
      /\ \A p \in Payments : Tracked(p) => Tracked(p)'
      /\ Told(e) = "captured" => Tracked(e[1])'
  <2>1. CASE /\ order[e[1]] \in Intents /\ books.status[order[e[1]]] # "none"
             /\ Gated(books, books', order[e[1]])
             /\ Told(e) = "captured" => books'.row[e[1]] # "none"
    <3>1. /\ books' \in BookStates /\ BooksInv'
          /\ \A p \in Payments : Tracked(p) => Tracked(p)'
      BY <1>1, <2>1, GateKeeps DEF Gated
    <3>2. books'.row[e[1]] \in {"none", "SUCCEEDED", "CAPTURED_REVIEW"}
      BY <1>1, <3>1 DEF BookStates
    <3>3. Told(e) = "captured" => Tracked(e[1])'
      BY <1>1, <2>1, <3>1, <3>2 DEF Tracked, BooksInv, HeldHasCase
    <3>q. QED
      BY <3>1, <3>3
  <2>2. CASE /\ order[e[1]] = Nothing
             /\ books' = [books EXCEPT !.cases = @ \cup {<<"UNKNOWN_ORDER", e[1]>>}]
    BY <1>1, <2>2, UnknownKeeps
  <2>3. CASE order[e[1]] = Nothing /\ Told(e) # "captured" /\ books' = books
    BY <1>2, <2>3 DEF IInv, TypeOK, BooksInv, RowsAreCaptures, HeldHasCase, OrdersExist,
       OneEffect, Paid, Tracked, WasCaptured
  <2>q. QED
    BY <2>1, <2>2, <2>3, WebhookEffect
<1>4. TypeOK'
  BY <1>1, <1>2, <1>3 DEF TypeOK
<1>5. KnownPayments'
  BY <1>1, <1>2 DEF IInv, KnownPayments, WasCaptured
<1>6. HeardIsTracked'
  <2>1. SUFFICES ASSUME NEW p \in Payments,
                        <<p, "captured">> \in heard' \/ <<p, "paid">> \in heard'
                 PROVE  Tracked(p)'
    BY <1>2 DEF HeardIsTracked, Tracked
  <2>2. CASE <<p, "captured">> \in heard \/ <<p, "paid">> \in heard
    BY <1>3, <2>2 DEF IInv, HeardIsTracked, Tracked
  <2>3. CASE e = <<p, "captured">> \/ e = <<p, "paid">>
    <3>1. Told(e) = "captured" /\ e[1] = p
      BY <2>3 DEF Told
    <3>q. QED
      BY <1>3, <3>1
  <2>q. QED
    BY <1>1, <2>1, <2>2, <2>3
<1>q. QED
  BY <1>3, <1>4, <1>5, <1>6 DEF IInv, BooksInv

-----------------------------------------------------------------------------
(* The invariant holds at the start.                                       *)
LEMMA InitEstablishes == Init => IInv
<1> SUFFICES ASSUME Init PROVE IInv
  OBVIOUS
<1>1. TypeOK
  <2>1. call \in [Callers -> Calls]
    BY IdleIsACall DEF Init
  <2>2. books \in BookStates
    BY DEF Init, BookStates
  <2>q. QED
    BY <2>1, <2>2 DEF Init, TypeOK
<1>2. RowsAreCaptures /\ HeldHasCase(books) /\ OrdersExist /\ HeardIsTracked
  BY DEF Init, RowsAreCaptures, HeldHasCase, OrdersExist, HeardIsTracked
<1>3. KnownPayments
  BY IdleIsACall DEF Init, KnownPayments
<1>4. \A i \in Intents : OneEffect(i)
  BY DEF Init, OneEffect, Paid
<1>q. QED
  BY <1>1, <1>2, <1>3, <1>4 DEF IInv

(* Every step preserves it.                                                *)
LEMMA NextPreserves == IInv /\ [Next]_vars => IInv'
<1> SUFFICES ASSUME IInv, [Next]_vars PROVE IInv'
  OBVIOUS
<1>1. CASE UNCHANGED vars
  BY <1>1 DEF vars, provider, IInv, TypeOK, RowsAreCaptures, HeldHasCase, OrdersExist,
     KnownPayments, OneEffect, Paid, HeardIsTracked, WasCaptured
<1>2. CASE Next
  BY <1>2, Steps, ProviderStepKeeps, LearningKeeps, CreateIntentKeeps, WebhookKeeps,
     ConcludeKeeps DEF Stepping
<1>q. QED
  BY <1>1, <1>2

(* The invariant holds always.                                             *)
THEOREM Invariance == Spec => []IInv
<1>q. QED
  BY InitEstablishes, NextPreserves, PTL DEF Spec

-----------------------------------------------------------------------------
(* What holds of the gate.                                                 *)

(* Intents, payments, books and calls are of their types.                  *)
THEOREM TypeCorrect == Spec => []TypeOK
<1>1. IInv => TypeOK
  BY DEF IInv
<1>q. QED
  BY <1>1, Invariance, PTL

(* However webhooks, verifications, staff and the job race, an intent has  *)
(* its effect once, for one captured payment of the right amount.          *)
THEOREM OneEffectForOnePayment == Spec => []EffectForOnePayment
<1>1. IInv => EffectForOnePayment
  <2> SUFFICES ASSUME IInv, NEW i \in Intents
               PROVE  /\ books.effects[i] = Cardinality(Paid(i))
                      /\ books.effects[i] = IF books.status[i] = "SUCCEEDED" THEN 1 ELSE 0
                      /\ \A p \in Paid(i) : money[p] \in {"captured", "refunded"} /\ fits[p]
    BY DEF EffectForOnePayment
  <2>1. OneEffect(i)
    BY DEF IInv
  <2>2. books.effects[i] = Cardinality(Paid(i))
    BY <2>1, FS_EmptySet, FS_Singleton DEF OneEffect
  <2>3. \A p \in Paid(i) : money[p] \in {"captured", "refunded"} /\ fits[p]
    BY DEF IInv, RowsAreCaptures, Paid, WasCaptured
  <2>q. QED
    BY <2>1, <2>2, <2>3 DEF OneEffect
<1>q. QED
  BY <1>1, Invariance, PTL

(* No capture a webhook told of is lost, whatever was said of it before.   *)
THEOREM EveryCaptureIsTracked == Spec => []HeardIsTracked
<1>1. IInv => HeardIsTracked
  BY DEF IInv
<1>q. QED
  BY <1>1, Invariance, PTL

-----------------------------------------------------------------------------
(* The gate implements IntentPromise.                                      *)

(* How an intent stands, by its status.                                    *)
LEMMA StandingOf ==
  ASSUME TypeOK, NEW i \in Intents
  PROVE  /\ books.status[i] = "none" => standing[i] = "none"
         /\ books.status[i] = "PENDING" => standing[i] = "open"
         /\ books.status[i] = "FAILED" => standing[i] = "failed"
         /\ books.status[i] = "SUCCEEDED" => standing[i] = "paid"
         /\ books.status[i] = "MANUAL_REVIEW" => standing[i] = "review"
BY DEF standing

(* What became of a payment, by its row and its cases.                     *)
LEMMA FateOf ==
  ASSUME NEW p \in Payments
  PROVE  /\ books.row[p] = "SUCCEEDED" => fate[p] = [is |-> "applied", on |-> order[p]]
         /\ books.row[p] = "CAPTURED_REVIEW" => fate[p] = [is |-> "held", on |-> order[p]]
         /\ books.row[p] \notin {"SUCCEEDED", "CAPTURED_REVIEW"} =>
               fate[p] = IF <<"UNKNOWN_ORDER", p>> \in books.cases
                         THEN [is |-> "held", on |-> Nothing]
                         ELSE [is |-> "untracked", on |-> Nothing]
BY DEF fate

(* The same after a step.                                                  *)
LEMMA StandingNext ==
  ASSUME TypeOK', NEW i \in Intents
  PROVE  /\ books'.status[i] = "none" => standing'[i] = "none"
         /\ books'.status[i] = "PENDING" => standing'[i] = "open"
         /\ books'.status[i] = "FAILED" => standing'[i] = "failed"
         /\ books'.status[i] = "SUCCEEDED" => standing'[i] = "paid"
         /\ books'.status[i] = "MANUAL_REVIEW" => standing'[i] = "review"
BY DEF standing

(* The same after a step.                                                  *)
LEMMA FateNext ==
  ASSUME NEW p \in Payments
  PROVE  /\ books'.row[p] = "SUCCEEDED" => fate'[p] = [is |-> "applied", on |-> order'[p]]
         /\ books'.row[p] = "CAPTURED_REVIEW" => fate'[p] = [is |-> "held", on |-> order'[p]]
         /\ books'.row[p] \notin {"SUCCEEDED", "CAPTURED_REVIEW"} =>
               fate'[p] = IF <<"UNKNOWN_ORDER", p>> \in books'.cases
                          THEN [is |-> "held", on |-> Nothing]
                          ELSE [is |-> "untracked", on |-> Nothing]
BY DEF fate

(* Functions over the intents, and over the payments, that agree are equal. *)
LEMMA Shapes ==
  /\ standing = [i \in Intents |-> standing[i]] /\ standing' = [i \in Intents |-> standing'[i]]
  /\ fate = [p \in Payments |-> fate[p]] /\ fate' = [p \in Payments |-> fate'[p]]
BY DEF standing, fate

(* The gate's work on one intent is a step of the promise.                 *)
LEMMA GateRefines ==
  ASSUME IInv, TypeOK', NEW i \in Intents, books.status[i] # "none",
         UNCHANGED provider, Gated(books, books', i)
  PROVE  Promise!Next \/ UNCHANGED <<standing, fate>>
<1> DEFINE fresh == Fresh(books, books')
<1>0. /\ order' = order
      /\ books \in BookStates /\ books' \in BookStates
      /\ TypeOK
  BY DEF provider, IInv, TypeOK, Gated
<1>1. /\ \A p \in fresh : books.row[p] = "none" /\ order[p] = i
      /\ \A p \in Payments \ fresh : books'.row[p] = books.row[p]
      /\ fresh \in SUBSET Payments
      /\ \A p \in Payments : <<"UNKNOWN_ORDER", p>> \in books'.cases
                                <=> <<"UNKNOWN_ORDER", p>> \in books.cases
      /\ \A j \in Intents \ {i} : books'.status[j] = books.status[j]
  BY DEF Gated, Fresh
<1>2. \A p \in fresh : fate[p] = Promise!Untracked
  BY <1>1, FateOf, NothingAssumption DEF IInv, OrdersExist, Promise!Untracked
<1>3. ASSUME NEW p \in Payments \ fresh PROVE fate'[p] = fate[p]
  <2>1. /\ p \in Payments /\ books'.row[p] = books.row[p]
        /\ <<"UNKNOWN_ORDER", p>> \in books'.cases <=> <<"UNKNOWN_ORDER", p>> \in books.cases
    BY <1>1
  <2> HIDE DEF fresh
  <2>q. QED
    BY <1>0, <2>1, FateOf, FateNext
<1>4. \A j \in Intents \ {i} : standing'[j] = standing[j]
  BY <1>0, <1>1, StandingOf, StandingNext DEF BookStates
<1>5. \A to : standing'[i] = to => standing' = [standing EXCEPT ![i] = to]
  BY <1>4, Shapes
<1>6. ASSUME NEW p, \A q \in fresh : books'.row[q] = IF q = p THEN "SUCCEEDED" ELSE "CAPTURED_REVIEW"
      PROVE  Promise!Track(i, fresh, p)
  <2>1. ASSUME NEW q \in fresh
        PROVE  fate'[q] = IF q = p THEN [is |-> "applied", on |-> i] ELSE [is |-> "held", on |-> i]
    <3>1. /\ q \in Payments /\ order'[q] = i
          /\ books'.row[q] = IF q = p THEN "SUCCEEDED" ELSE "CAPTURED_REVIEW"
      BY <1>0, <1>1, <1>6
    <3> HIDE DEF fresh
    <3>q. QED
      BY <3>1, FateNext
  <2>2. fate' = [q \in Payments |->
                  CASE q \notin fresh             -> fate[q]
                    [] q \in fresh /\ q = p     -> [is |-> "applied", on |-> i]
                    [] q \in fresh /\ q # p     -> [is |-> "held", on |-> i]]
    <3> HIDE DEF fresh
    <3>q. QED
      BY <1>1, <1>3, <2>1, Shapes
  <2>q. QED
    BY <1>2, <2>2, Zenon DEF Promise!Track
<1>7. ASSUME NoneApplied(books, books') PROVE Promise!Track(i, fresh, Nothing)
  <2>1. \A q \in fresh : q # Nothing
    BY <1>1, NothingAssumption DEF Payments
  <2>q. QED
    BY <1>6, <1>7, <2>1 DEF NoneApplied
<1>8. ASSUME fresh = {} PROVE fate' = fate
  BY <1>3, <1>8, Shapes
<1>9. CASE fresh = {} /\ books'.status[i] = books.status[i]
  <2>1. standing'[i] = standing[i]
    BY <1>0, <1>9, StandingOf, StandingNext DEF BookStates
  <2>2. standing' = standing
    BY <1>4, <2>1, Shapes
  <2>q. QED
    BY <1>8, <1>9, <2>2
<1>10. CASE fresh = {} /\ books.status[i] = "PENDING" /\ books'.status[i] = "FAILED"
  <2>1. Promise!Fail(i)
    BY <1>0, <1>5, <1>8, <1>10, StandingOf, StandingNext DEF Promise!Fail, Promise!Move
  <2>q. QED
    BY <2>1 DEF Promise!Next
<1>11. ASSUME books.status[i] \in {"PENDING", "FAILED"}, books'.status[i] = "SUCCEEDED",
              NEW p \in Payments, OnlyApplied(books, books', p)
       PROVE  Promise!Next
  <2>1. p \in fresh /\ Promise!Track(i, fresh, p)
    BY <1>6, <1>11 DEF OnlyApplied
  <2>2. Promise!Move(i, {"open", "failed"}, "paid")
    BY <1>0, <1>5, <1>11, StandingOf, StandingNext DEF Promise!Move
  <2>3. Promise!Pay(i, fresh, p)
    BY <2>1, <2>2 DEF Promise!Pay
  <2>q. QED
    BY <1>1, <2>1, <2>3, Zenon DEF Promise!Next
<1>12. ASSUME books.status[i] \in {"PENDING", "FAILED"}, books'.status[i] = "MANUAL_REVIEW",
              fresh # {}, NoneApplied(books, books')
       PROVE  Promise!Next
  <2>1. Promise!Move(i, {"open", "failed"}, "review")
    BY <1>0, <1>5, <1>12, StandingOf, StandingNext DEF Promise!Move
  <2>2. Promise!Review(i, fresh)
    BY <1>7, <1>12, <2>1 DEF Promise!Review
  <2>q. QED
    BY <1>1, <2>2, Zenon DEF Promise!Next
<1>13. ASSUME books.status[i] \in Decided, books'.status[i] = books.status[i],
              fresh # {}, NoneApplied(books, books')
       PROVE  Promise!Next
  <2>1. standing'[i] = standing[i] /\ standing[i] \in {"paid", "review"}
    BY <1>0, <1>13, StandingOf, StandingNext DEF Decided
  <2>2. standing' = standing
    BY <1>4, <2>1, Shapes
  <2>3. Promise!Hold(i, fresh)
    BY <1>7, <1>13, <2>1, <2>2 DEF Promise!Hold
  <2>q. QED
    BY <1>1, <2>3, Zenon DEF Promise!Next
<1>q. QED
  BY <1>9, <1>10, <1>11, <1>12, <1>13 DEF Gated, Outcome

(* Steps outside the books leave what the promise speaks of.               *)
LEMMA OutsideRefines ==
  ASSUME IInv, UNCHANGED books, \A p \in Payments : money[p] # "none" => order'[p] = order[p]
  PROVE  UNCHANGED <<standing, fate>>
<1>1. ASSUME NEW p \in Payments PROVE fate'[p] = fate[p]
  <2>1. books.row[p] # "none" => order'[p] = order[p]
    BY DEF IInv, RowsAreCaptures, WasCaptured
  <2>2. books' = books
    OBVIOUS
  <2>3. CASE books.row[p] \in {"SUCCEEDED", "CAPTURED_REVIEW"}
    BY <2>1, <2>2, <2>3, FateOf, FateNext
  <2>4. CASE books.row[p] \notin {"SUCCEEDED", "CAPTURED_REVIEW"}
    BY <2>2, <2>4, FateOf, FateNext
  <2>q. QED
    BY <2>3, <2>4
<1>2. standing' = standing
  BY DEF standing
<1>q. QED
  BY <1>1, <1>2, Shapes

(* A new intent opens.                                                     *)
LEMMA CreateIntentRefines ==
  ASSUME IInv, TypeOK', NEW i \in Intents, CreateIntent(i)
  PROVE  Promise!Open(i)
<1>1. /\ books.status[i] = "none" /\ books'.status[i] = "PENDING"
      /\ \A j \in Intents \ {i} : books'.status[j] = books.status[j]
      /\ books'.row = books.row /\ books'.cases = books.cases /\ order' = order
      /\ \A j \in Intents : books.status[j] \in {"none", "PENDING", "FAILED", "SUCCEEDED",
                                                "MANUAL_REVIEW"}
  BY DEF IInv, TypeOK, BookStates, CreateIntent, provider
<1>2. \A j \in Intents \ {i} : standing'[j] = standing[j]
  BY <1>1, StandingOf, StandingNext DEF IInv
<1>3. standing[i] = "none" /\ standing'[i] = "open"
  BY <1>1, StandingOf, StandingNext DEF IInv
<1>4. standing' = [standing EXCEPT ![i] = "open"]
  BY <1>2, <1>3, Shapes
<1>5. fate' = fate
  BY <1>1 DEF fate
<1>q. QED
  BY <1>3, <1>4, <1>5 DEF Promise!Open, Promise!Move

(* A capture of an order that nobody knows is held for nobody, once.       *)
LEMMA UnknownRefines ==
  ASSUME IInv, NEW p \in Payments, order[p] = Nothing, money[p] # "none", UNCHANGED provider,
         books' = [books EXCEPT !.cases = @ \cup {<<"UNKNOWN_ORDER", p>>}]
  PROVE  Promise!Next \/ UNCHANGED <<standing, fate>>
<1>1. /\ books'.status = books.status /\ books'.row = books.row
      /\ books'.cases = books.cases \cup {<<"UNKNOWN_ORDER", p>>}
      /\ order' = order
  BY UnknownKeeps DEF provider
<1>2. standing' = standing
  BY <1>1 DEF standing
<1>3. books.row[p] = "none"
  BY NothingAssumption DEF IInv, RowsAreCaptures
<1>4. ASSUME NEW q \in Payments \ {p} PROVE fate'[q] = fate[q]
  <2>1. <<"UNKNOWN_ORDER", q>> \in books'.cases <=> <<"UNKNOWN_ORDER", q>> \in books.cases
    BY <1>1, <1>4
  <2>q. QED
    BY <1>1, <2>1, FateOf, FateNext
<1>5. fate'[p] = [is |-> "held", on |-> Nothing]
  BY <1>1, <1>3, FateNext
<1>6. CASE <<"UNKNOWN_ORDER", p>> \in books.cases
  <2>1. fate'[p] = fate[p]
    BY <1>3, <1>5, <1>6, FateOf
  <2>q. QED
    BY <1>2, <1>4, <2>1, Shapes
<1>7. CASE <<"UNKNOWN_ORDER", p>> \notin books.cases
  <2>1. fate[p] = Promise!Untracked
    BY <1>3, <1>7, FateOf DEF Promise!Untracked
  <2>2. p # Nothing
    BY NothingAssumption DEF Payments
  <2>3. fate' = [q \in Payments |->
                  CASE q \notin {p}                   -> fate[q]
                    [] q \in {p} /\ q = Nothing     -> [is |-> "applied", on |-> Nothing]
                    [] q \in {p} /\ q # Nothing     -> [is |-> "held", on |-> Nothing]]
    BY <1>4, <1>5, <2>2, Shapes
  <2>4. Promise!Track(Nothing, {p}, Nothing)
    BY <2>1, <2>3 DEF Promise!Track
  <2>5. Promise!Hold(Nothing, {p})
    BY <1>2, <2>4 DEF Promise!Hold
  <2>q. QED
    BY <2>5 DEF Promise!Next
<1>q. QED
  BY <1>6, <1>7

(* Every step is one of the promise's, or none.                            *)
LEMMA StepRefines ==
  IInv /\ IInv' /\ [Next]_vars => Promise!Next \/ UNCHANGED <<standing, fate>>
<1> SUFFICES ASSUME IInv, IInv', [Next]_vars
             PROVE  Promise!Next \/ UNCHANGED <<standing, fate>>
  OBVIOUS
<1>0. TypeOK /\ TypeOK'
  BY DEF IInv
<1>1. CASE UNCHANGED vars
  BY <1>1, OutsideRefines DEF vars, provider
<1>2. CASE ProviderStep
  <2>1. books' = books /\ \A p \in Payments : money[p] # "none" => order'[p] = order[p]
    BY <1>0, <1>2 DEF ProviderStep, Pay, Settle, GiveBack, TypeOK
  <2>q. QED
    BY <2>1, OutsideRefines
<1>3. CASE Learning
  <2>1. books' = books /\ order' = order
    BY <1>3 DEF Learning, BeginReconcile, StartRun, Die, BeginVerify, BeginConfirm, Abandon,
       provider
  <2>q. QED
    BY <2>1, OutsideRefines
<1>4. ASSUME NEW i \in Intents, CreateIntent(i) PROVE Promise!Next
  BY <1>0, <1>4, CreateIntentRefines DEF Promise!Next
<1>5. ASSUME NEW e \in Events, NEW alone \in BOOLEAN, HandleWebhook(e, alone)
      PROVE  Promise!Next \/ UNCHANGED <<standing, fate>>
  <2>1. UNCHANGED provider /\ e[1] \in Payments /\ money[e[1]] # "none"
    BY <1>5, WebhookEffect
  <2>2. CASE /\ order[e[1]] \in Intents /\ books.status[order[e[1]]] # "none"
             /\ Gated(books, books', order[e[1]])
    BY <1>0, <2>1, <2>2, GateRefines
  <2>3. CASE /\ order[e[1]] = Nothing
             /\ books' = [books EXCEPT !.cases = @ \cup {<<"UNKNOWN_ORDER", e[1]>>}]
    BY <2>1, <2>3, UnknownRefines
  <2>4. CASE books' = books
    <3>1. order' = order
      BY <2>1 DEF provider
    <3>q. QED
      BY <2>4, <3>1, OutsideRefines
  <2>q. QED
    BY <1>5, <2>2, <2>3, <2>4, WebhookEffect
<1>6. ASSUME NEW c \in Callers, Conclude(c)
      PROVE  Promise!Next \/ UNCHANGED <<standing, fate>>
  <2>1. UNCHANGED provider
    BY <1>6 DEF Conclude
  <2>2. ASSUME NEW i \in Intents, books.status[i] # "none", Gated(books, books', i)
        PROVE  Promise!Next \/ UNCHANGED <<standing, fate>>
    BY <1>0, <2>1, <2>2, GateRefines
  <2>3. CASE books' = books
    <3>1. order' = order
      BY <2>1 DEF provider
    <3>q. QED
      BY <2>3, <3>1, OutsideRefines
  <2>q. QED
    BY <1>6, <2>2, <2>3, ConcludeIsGated
<1>q. QED
  BY <1>1, <1>2, <1>3, <1>4, <1>5, <1>6, Steps DEF Stepping

(* At the start nothing is promised.                                       *)
LEMMA InitRefines == Init => Promise!Init
<1> SUFFICES ASSUME Init PROVE Promise!Init
  OBVIOUS
<1>1. TypeOK
  BY InitEstablishes DEF IInv
<1>2. \A i \in Intents : standing[i] = "none"
  BY <1>1, StandingOf DEF Init
<1>3. \A p \in Payments : fate[p] = Promise!Untracked
  BY FateOf DEF Init, Promise!Untracked
<1>q. QED
  BY <1>2, <1>3, Shapes DEF Promise!Init

(* Whatever arrives late, again or out of order, the gate keeps its        *)
(* promise: one payment pays an intent, the others are held for Finance.   *)
THEOREM ImplementsPromise == Spec => KeepsPromise
<1>1. IInv /\ IInv' /\ [Next]_vars => [Promise!Next]_(Promise!vars)
  BY StepRefines DEF Promise!vars
<1>q. QED
  BY <1>1, InitRefines, Invariance, PTL DEF Spec, KeepsPromise, Promise!Spec
=============================================================================
