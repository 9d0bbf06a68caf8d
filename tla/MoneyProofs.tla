------------------------------ MODULE MoneyProofs ------------------------------
(***************************************************************************)
(* Safety of the money that leaves: the refunds of a payment (Refund), for *)
(* any number of refunds, callers and administrators, any captured amount  *)
(* and any bounds; the settlements and payouts of a driver (Payout), for   *)
(* any finite sets of them, any sessions and any bounds.                   *)
(*                                                                         *)
(* Both account for sums over rows, of which the first part proves what    *)
(* they need.  All of Refund rests on Conversations: what a caller has in  *)
(* hand is still what the provider says, because nobody else talks to it   *)
(* about the same refund unless the refund counts as overtaken.  In Payout *)
(* the money is an induction over sums, and the freedom from deadlock      *)
(* rests on the order in which every call locks its rows.                  *)
(***************************************************************************)
EXTENDS Refund, Payout, FiniteSetTheorems, TLAPS

-----------------------------------------------------------------------------
(* Sums.  SumFunctionOnSet is the sum of f[x] over the elements x of a     *)
(* finite set.  The community modules define it by a recursive function    *)
(* over subsets, which takes out one chosen element after the other.       *)
(* Inductions over finite sets are by a smallest counterexample, which the *)
(* well-foundedness of strict inclusion provides.                          *)

Chosen(s) == CHOOSE x \in s : TRUE

\* g adds f up over every set of D.
AddsUp(g, f, D) ==
    g = [s \in D |-> IF s = {} THEN 0 ELSE f[Chosen(s)] + g[s \ {Chosen(s)}]]

(* The definition, written out. *)
LEMMA SumIsChosen ==
  ASSUME NEW f, NEW S
  PROVE  SumFunctionOnSet(f, S) = (CHOOSE g : AddsUp(g, f, SUBSET S))[S]
BY DEF SumFunctionOnSet, FoldFunctionOnSet, MapThenFoldSet, AddsUp, Chosen

(* A set that is not empty has its chosen element. *)
LEMMA ChosenIsIn ==
  ASSUME NEW s, s # {}
  PROVE  Chosen(s) \in s
BY DEF Chosen

(* Some subset of a finite set is a smallest one with a property. *)
LEMMA SmallestSubset ==
  ASSUME NEW S, IsFiniteSet(S), NEW W \in SUBSET SUBSET S, W # {}
  PROVE  \E T \in W : \A U \in W : ~(U \subseteq T /\ U # T)
<1>1. FiniteSubsetsOf(S) = SUBSET S
  BY FS_FiniteSubsetsOfFinite
<1>2. PICK T \in W : \A U \in W : ~(<<U, T>> \in StrictSubsetOrdering(S))
  BY <1>1, FS_StrictSubsetOrderingWellFounded, WFMin
<1>q. QED
  BY <1>2 DEF StrictSubsetOrdering

(* Two functions that add f up agree where both are defined. *)
LEMMA AddsUpOnce ==
  ASSUME NEW f, NEW S, IsFiniteSet(S), NEW T \in SUBSET S,
         NEW g, AddsUp(g, f, SUBSET S), NEW h, AddsUp(h, f, SUBSET T)
  PROVE  g[T] = h[T]
<1> DEFINE W == {U \in SUBSET T : g[U] # h[U]}
<1>1. ASSUME W # {} PROVE FALSE
  <2>0. IsFiniteSet(T)
    BY FS_Subset
  <2>1. PICK U \in W : \A V \in W : ~(V \subseteq U /\ V # U)
    <3>1. W \in SUBSET SUBSET T
      OBVIOUS
    <3> HIDE DEF W
    <3>q. QED
      BY <1>1, <2>0, <3>1, SmallestSubset
  <2>2. U # {}
    <3>1. g[{}] = 0 /\ h[{}] = 0
      BY DEF AddsUp
    <3>q. QED
      BY <2>1, <3>1
  <2>3. g[U \ {Chosen(U)}] = h[U \ {Chosen(U)}]
    BY <2>1, <2>2, ChosenIsIn
  <2>4. /\ g[U] = f[Chosen(U)] + g[U \ {Chosen(U)}]
        /\ h[U] = f[Chosen(U)] + h[U \ {Chosen(U)}]
    BY <2>2 DEF AddsUp
  <2>q. QED
    BY <2>1, <2>3, <2>4
<1>q. QED
  BY <1>1

UpTo(S, n) == {s \in SUBSET S : Cardinality(s) <= n}

(* There is a function that adds f up, by induction over the size of sets. *)
LEMMA AddsUpExists ==
  ASSUME NEW f, NEW S, IsFiniteSet(S)
  PROVE  \E g : AddsUp(g, f, SUBSET S)
<1> DEFINE N == {n \in Nat : ~\E g : AddsUp(g, f, UpTo(S, n))}
<1>0. \A s \in SUBSET S : IsFiniteSet(s) /\ Cardinality(s) \in Nat
  BY FS_Subset, FS_CardinalityType
<1>1. ASSUME N # {} PROVE FALSE
  <2>1. PICK n \in N : \A m \in N : ~(<<m, n>> \in OpToRel(<, Nat))
    BY <1>1, NatLessThanWellFounded, WFMin
  <2>2. \A m \in N : ~(m < n)
    BY <2>1 DEF OpToRel
  <2>3. n # 0
    <3> DEFINE g == [s \in UpTo(S, 0) |-> 0]
    <3>1. UpTo(S, 0) = {{}}
      BY <1>0, FS_EmptySet DEF UpTo
    <3>2. AddsUp(g, f, UpTo(S, 0))
      BY <3>1 DEF AddsUp
    <3>q. QED
      BY <3>2
  <2>4. PICK g : AddsUp(g, f, UpTo(S, n - 1))
    BY <2>2, <2>3
  <2> DEFINE h == [s \in UpTo(S, n) |-> IF s \in UpTo(S, n - 1) THEN g[s]
                                         ELSE f[Chosen(s)] + g[s \ {Chosen(s)}]]
  <2>5. \A s \in UpTo(S, n) : s # {} => s \ {Chosen(s)} \in UpTo(S, n - 1)
    BY <1>0, <2>3, ChosenIsIn, FS_RemoveElement DEF UpTo
  <2>6. {} \in UpTo(S, n - 1) /\ UpTo(S, n - 1) \subseteq UpTo(S, n)
    BY <1>0, <2>3, FS_EmptySet DEF UpTo
  <2>7. \A s \in UpTo(S, n) : 
            h[s] = IF s = {} THEN 0 ELSE f[Chosen(s)] + h[s \ {Chosen(s)}]
    <3> SUFFICES ASSUME NEW s \in UpTo(S, n)
                 PROVE  h[s] = IF s = {} THEN 0 ELSE f[Chosen(s)] + h[s \ {Chosen(s)}]
      OBVIOUS
    <3>1. CASE s = {}
      BY <2>4, <2>6, <3>1 DEF AddsUp
    <3>2. CASE s # {}
      <4>1. h[s \ {Chosen(s)}] = g[s \ {Chosen(s)}]
        BY <2>5, <2>6, <3>2
      <4>2. s \in UpTo(S, n - 1) => g[s] = f[Chosen(s)] + g[s \ {Chosen(s)}]
        BY <2>4, <3>2 DEF AddsUp
      <4>q. QED
        BY <3>2, <4>1, <4>2
    <3>q. QED
      BY <3>1, <3>2
  <2>8. AddsUp(h, f, UpTo(S, n))
    BY <2>7 DEF AddsUp
  <2>q. QED
    BY <2>1, <2>8
<1>2. UpTo(S, Cardinality(S)) = SUBSET S
  BY <1>0, FS_Subset DEF UpTo
<1>3. Cardinality(S) \in Nat /\ Cardinality(S) \notin N
  BY <1>0, <1>1
<1>q. QED
  BY <1>2, <1>3

(* The sum over any subset is what one function says that adds up over all. *)
LEMMA SumOfSubset ==
  ASSUME NEW f, NEW S, IsFiniteSet(S)
  PROVE  \E g : /\ AddsUp(g, f, SUBSET S)
                /\ \A T \in SUBSET S : SumFunctionOnSet(f, T) = g[T]
<1>1. PICK g : AddsUp(g, f, SUBSET S)
  BY AddsUpExists
<1>2. ASSUME NEW T \in SUBSET S PROVE SumFunctionOnSet(f, T) = g[T]
  <2> DEFINE h == CHOOSE k : AddsUp(k, f, SUBSET T)
  <2>1. IsFiniteSet(T)
    BY FS_Subset
  <2>2. AddsUp(h, f, SUBSET T)
    BY <2>1, AddsUpExists
  <2>3. SumFunctionOnSet(f, T) = h[T]
    BY SumIsChosen
  <2>q. QED
    BY <1>1, <2>2, <2>3, AddsUpOnce
<1>q. QED
  BY <1>1, <1>2

(* The sum takes out the chosen element, then sums the rest. *)
LEMMA SumOfChosen ==
  ASSUME NEW f, NEW S, IsFiniteSet(S), S # {}
  PROVE  SumFunctionOnSet(f, S) =
             f[Chosen(S)] + SumFunctionOnSet(f, S \ {Chosen(S)})
<1>1. PICK g : /\ AddsUp(g, f, SUBSET S)
               /\ \A T \in SUBSET S : SumFunctionOnSet(f, T) = g[T]
  BY SumOfSubset
<1>2. g[S] = f[Chosen(S)] + g[S \ {Chosen(S)}]
  BY <1>1 DEF AddsUp
<1>q. QED
  BY <1>1, <1>2

(* Nothing adds up to nothing. *)
LEMMA SumOfNone ==
  ASSUME NEW f
  PROVE  SumFunctionOnSet(f, {}) = 0
<1>1. PICK g : /\ AddsUp(g, f, SUBSET {})
               /\ \A T \in SUBSET {} : SumFunctionOnSet(f, T) = g[T]
  BY SumOfSubset, FS_EmptySet
<1>q. QED
  BY <1>1 DEF AddsUp

(* Any element of the set may be taken out of the sum. *)
LEMMA SumOfElement ==
  ASSUME NEW f, NEW S, IsFiniteSet(S), \A y \in S : f[y] \in Int, NEW x \in S
  PROVE  /\ SumFunctionOnSet(f, S) \in Int
         /\ SumFunctionOnSet(f, S) = f[x] + SumFunctionOnSet(f, S \ {x})
<1> DEFINE Good(T) == /\ SumFunctionOnSet(f, T) \in Int
                      /\ \A y \in T : SumFunctionOnSet(f, T) =
                                          f[y] + SumFunctionOnSet(f, T \ {y})
           W == {T \in SUBSET S : ~Good(T)}
<1>1. ASSUME W # {} PROVE FALSE
  <2>1. PICK T \in W : \A U \in W : ~(U \subseteq T /\ U # T)
    <3>1. W \in SUBSET SUBSET S
      OBVIOUS
    <3> HIDE DEF W
    <3>q. QED
      BY <1>1, <3>1, SmallestSubset
  <2>2. \A U \in SUBSET T : U # T => Good(U)
    BY <2>1
  <2>3. IsFiniteSet(T)
    BY FS_Subset
  <2>4. T # {}
    <3>1. T = {} => SumFunctionOnSet(f, T) = 0
      BY SumOfNone, Zenon
    <3>q. QED
      BY <2>1, <3>1
  <2> DEFINE c == Chosen(T)
  <2>5. c \in T
    BY <2>4, ChosenIsIn
  <2> HIDE DEF c
  <2>6. SumFunctionOnSet(f, T) = f[c] + SumFunctionOnSet(f, T \ {c})
    BY <2>3, <2>4, SumOfChosen DEF c
  <2>7. SumFunctionOnSet(f, T) \in Int
    BY <2>2, <2>5, <2>6
  <2>8. ASSUME NEW y \in T, y # c
        PROVE  SumFunctionOnSet(f, T) = f[y] + SumFunctionOnSet(f, T \ {y})
    <3> DEFINE R == (T \ {c}) \ {y}
    <3>1. SumFunctionOnSet(f, T \ {c}) = f[y] + SumFunctionOnSet(f, R)
      BY <2>2, <2>5, <2>8
    <3>2. SumFunctionOnSet(f, T \ {y}) = f[c] + SumFunctionOnSet(f, R)
      <4>1. SumFunctionOnSet(f, T \ {y}) = f[c] + SumFunctionOnSet(f, (T \ {y}) \ {c})
        BY <2>2, <2>5, <2>8
      <4>2. (T \ {y}) \ {c} = R
        OBVIOUS
      <4>q. QED
        BY <4>1, <4>2, Zenon
    <3>4. SumFunctionOnSet(f, R) \in Int
      BY <2>2, <2>5
    <3> HIDE DEF R
    <3>5. f[y] \in Int /\ f[c] \in Int
      BY <2>5
    <3>q. QED
      BY <2>6, <3>1, <3>2, <3>4, <3>5
  <2>q. QED
    BY <2>1, <2>6, <2>7, <2>8
<1>2. Good(S)
  BY <1>1
<1>q. QED
  BY <1>2

(* The sum of integers is one. *)
THEOREM SumType ==
  ASSUME NEW f, NEW S, IsFiniteSet(S), \A y \in S : f[y] \in Int
  PROVE  SumFunctionOnSet(f, S) \in Int
<1>1. CASE S = {}
  <2>1. SumFunctionOnSet(f, S) = 0
    BY <1>1, SumOfNone, Zenon
  <2>q. QED
    BY <2>1
<1>2. CASE S # {}
  BY <1>2, SumOfElement
<1>q. QED
  BY <1>1, <1>2

(* One more element adds its value. *)
THEOREM SumWithElement ==
  ASSUME NEW f, NEW S, IsFiniteSet(S), NEW x, x \notin S,
         \A y \in S \cup {x} : f[y] \in Int
  PROVE  SumFunctionOnSet(f, S \cup {x}) = SumFunctionOnSet(f, S) + f[x]
<1> DEFINE T == S \cup {x}
<1>1. IsFiniteSet(T) /\ x \in T
  BY FS_AddElement
<1>2. T \ {x} = S
  OBVIOUS
<1>3. SumFunctionOnSet(f, T) = f[x] + SumFunctionOnSet(f, T \ {x})
  BY <1>1, SumOfElement
<1>4. SumFunctionOnSet(f, T) = f[x] + SumFunctionOnSet(f, S)
  BY <1>2, <1>3, Zenon
<1>5. SumFunctionOnSet(f, S) \in Int /\ f[x] \in Int
  BY SumType
<1>q. QED
  BY <1>4, <1>5

(* The sum depends on the values in the set only. *)
THEOREM SumOfEqual ==
  ASSUME NEW f, NEW g, NEW S, IsFiniteSet(S),
         \A y \in S : f[y] \in Int /\ g[y] = f[y]
  PROVE  SumFunctionOnSet(g, S) = SumFunctionOnSet(f, S)
<1> DEFINE W == {T \in SUBSET S : SumFunctionOnSet(g, T) # SumFunctionOnSet(f, T)}
<1>1. ASSUME W # {} PROVE FALSE
  <2>1. PICK T \in W : \A U \in W : ~(U \subseteq T /\ U # T)
    <3>1. W \in SUBSET SUBSET S
      OBVIOUS
    <3> HIDE DEF W
    <3>q. QED
      BY <1>1, <3>1, SmallestSubset
  <2>2. IsFiniteSet(T)
    BY FS_Subset
  <2>3. PICK x \in T : TRUE
    BY <2>1, SumOfNone
  <2>4. SumFunctionOnSet(g, T \ {x}) = SumFunctionOnSet(f, T \ {x})
    BY <2>1
  <2>5. SumFunctionOnSet(f, T) = f[x] + SumFunctionOnSet(f, T \ {x})
    BY <2>2, SumOfElement
  <2>6. SumFunctionOnSet(g, T) = g[x] + SumFunctionOnSet(g, T \ {x})
    BY <2>2, SumOfElement
  <2>q. QED
    BY <2>1, <2>4, <2>5, <2>6
<1>q. QED
  BY <1>1

(* A function changed at one element of the set changes the sum by the     *)
(* difference, and changed outside of it, not at all.                      *)
THEOREM SumOfChanged ==
  ASSUME NEW f, NEW g, NEW S, IsFiniteSet(S), NEW x,
         \A y \in S : f[y] \in Int /\ g[y] \in Int,
         \A y \in S \ {x} : g[y] = f[y]
  PROVE  SumFunctionOnSet(g, S) =
             SumFunctionOnSet(f, S) + (IF x \in S THEN g[x] - f[x] ELSE 0)
<1>1. CASE x \notin S
  <2>1. SumFunctionOnSet(g, S) = SumFunctionOnSet(f, S)
    BY <1>1, SumOfEqual
  <2>q. QED
    BY <1>1, <2>1, SumType
<1>2. CASE x \in S
  <2>1. IsFiniteSet(S \ {x})
    BY FS_RemoveElement
  <2>2. SumFunctionOnSet(g, S \ {x}) = SumFunctionOnSet(f, S \ {x})
    BY <2>1, SumOfEqual
  <2>3. /\ SumFunctionOnSet(f, S) = f[x] + SumFunctionOnSet(f, S \ {x})
        /\ SumFunctionOnSet(g, S) = g[x] + SumFunctionOnSet(g, S \ {x})
    BY <1>2, SumOfElement
  <2>4. SumFunctionOnSet(f, S \ {x}) \in Int
    BY <2>1, SumType
  <2>q. QED
    BY <1>2, <2>2, <2>3, <2>4
<1>q. QED
  BY <1>1, <1>2

(* Of what is never negative, a part is at least nothing and at most the   *)
(* whole.                                                                  *)
THEOREM SumOfPart ==
  ASSUME NEW f, NEW S, IsFiniteSet(S), \A y \in S : f[y] \in Nat,
         NEW T \in SUBSET S
  PROVE  /\ SumFunctionOnSet(f, T) \in Nat
         /\ SumFunctionOnSet(f, T) <= SumFunctionOnSet(f, S)
<1> DEFINE Good(U) == /\ SumFunctionOnSet(f, U) \in Nat
                      /\ SumFunctionOnSet(f, U \cap T) \in Nat
                      /\ SumFunctionOnSet(f, U \cap T) <= SumFunctionOnSet(f, U)
           W == {U \in SUBSET S : ~Good(U)}
<1>1. ASSUME W # {} PROVE FALSE
  <2>1. PICK U \in W : \A V \in W : ~(V \subseteq U /\ V # U)
    <3>1. W \in SUBSET SUBSET S
      OBVIOUS
    <3> HIDE DEF W
    <3>q. QED
      BY <1>1, <3>1, SmallestSubset
  <2>2. IsFiniteSet(U) /\ IsFiniteSet(U \cap T)
    BY FS_Subset
  <2>3. PICK x \in U : TRUE
    <3>1. ASSUME U = {} PROVE FALSE
      <4>1. U \cap T = {}
        BY <3>1
      <4>2. SumFunctionOnSet(f, U) = 0 /\ SumFunctionOnSet(f, U \cap T) = 0
        BY <3>1, <4>1, SumOfNone, Zenon
      <4>q. QED
        BY <2>1, <4>2
    <3>q. QED
      BY <3>1
  <2>4. Good(U \ {x})
    BY <2>1
  <2>5. SumFunctionOnSet(f, U) = f[x] + SumFunctionOnSet(f, U \ {x})
    BY <2>2, SumOfElement
  <2>6. CASE x \in T
    <3>1. x \in U \cap T /\ (U \cap T) \ {x} = (U \ {x}) \cap T
      BY <2>6
    <3>2. SumFunctionOnSet(f, U \cap T) = f[x] + SumFunctionOnSet(f, (U \cap T) \ {x})
      BY <2>2, <3>1, SumOfElement
    <3>q. QED
      BY <2>1, <2>4, <2>5, <3>1, <3>2
  <2>7. CASE x \notin T
    <3>1. U \cap T = (U \ {x}) \cap T
      BY <2>7
    <3>q. QED
      BY <2>1, <2>4, <2>5, <3>1
  <2>q. QED
    BY <2>6, <2>7
<1>2. Good(S) /\ S \cap T = T
  BY <1>1
<1>q. QED
  BY <1>2

(* Zeros add up to nothing.                                                *)
THEOREM SumOfZeros ==
  ASSUME NEW f, NEW S, IsFiniteSet(S), \A y \in S : f[y] = 0
  PROVE  SumFunctionOnSet(f, S) = 0
<1> DEFINE W == {T \in SUBSET S : SumFunctionOnSet(f, T) # 0}
<1>1. ASSUME W # {} PROVE FALSE
  <2>1. PICK T \in W : \A U \in W : ~(U \subseteq T /\ U # T)
    <3>1. W \in SUBSET SUBSET S
      OBVIOUS
    <3> HIDE DEF W
    <3>q. QED
      BY <1>1, <3>1, SmallestSubset
  <2>2. IsFiniteSet(T)
    BY FS_Subset
  <2>3. PICK x \in T : TRUE
    BY <2>1, SumOfNone
  <2>4. SumFunctionOnSet(f, T \ {x}) = 0
    BY <2>1
  <2>5. SumFunctionOnSet(f, T) = f[x] + SumFunctionOnSet(f, T \ {x})
    BY <2>2, SumOfElement
  <2>q. QED
    BY <2>1, <2>4, <2>5
<1>q. QED
  BY <1>1

-----------------------------------------------------------------------------
(* Refunds.                                                                *)

Talking(c) == talk[c].at # "idle"

Known ==
    /\ \A c \in Callers :
           /\ Talking(c) => talk[c].refund \in Refunds
           /\ ~Talking(c) => talk[c] = Idle
    /\ \A d \in Admins : decision[d].kind # "none" =>
           /\ decision[d].refund \in Refunds
           /\ status[decision[d].refund] # "none"

\* Two callers talk about one refund only if it counts as overtaken.
Alone ==
    \A b, c \in Callers :
        b # c /\ Talking(b) /\ Talking(c) /\ talk[b].refund = talk[c].refund
            => talk[b].refund \in overtaken

\* What caller c, talking about r, may conclude.
Conversation(c, r) ==
    /\ status[r] \notin {"none", "PENDING"}
    /\ r \notin overruled \cup overtaken => status[r] = "PROCESSING"
    /\ talk[c].at = "creating" /\ r \notin overtaken => verdict[r] = "none"
    /\ talk[c].at = "answered" /\ talk[c].outcome = "SUCCEEDED"
           => verdict[r] = "SUCCEEDED"
    /\ talk[c].at = "answered" /\ talk[c].outcome = "FAILED"
           => verdict[r] = "FAILED"
    /\ talk[c].at = "answered" /\ talk[c].outcome \notin {"SUCCEEDED", "FAILED",
                                                         "PENDING", "UNKNOWN"}
           /\ r \notin overtaken \cup misread => verdict[r] = "none"

Conversations ==
    \A c \in Callers : Talking(c) => Conversation(c, talk[c].refund)

Unasked ==
    \A r \in Refunds :
        /\ status[r] \in {"none", "PENDING"} => verdict[r] = "none"
        /\ verdict[r] = "none" => made[r] = 0

IInv ==
    /\ TypeOK
    /\ Known
    /\ Alone
    /\ Conversations
    /\ Unasked
    /\ LedgerFitsStatus
    /\ RefundedOnce
    /\ NeverReturnedAndPaid
    /\ PaidMeansPaid

(* The initial state: no refund, nobody talking. *)
LEMMA InitEstablishes == Init => IInv
<1> SUFFICES ASSUME Init PROVE IInv
  OBVIOUS
<1>1. TypeOK
  BY CapturedAssumption, BoundAssumption DEF Init, TypeOK, Idle, Quiet, WorkflowAfter
<1>2. Known /\ Alone /\ Conversations
  BY DEF Init, Known, Alone, Conversations, Talking, Idle, Quiet
<1>3. Unasked /\ LedgerFitsStatus /\ RefundedOnce /\ NeverReturnedAndPaid /\ PaidMeansPaid
  BY DEF Init, Unasked, LedgerFitsStatus, RefundedOnce, NeverReturnedAndPaid, PaidMeansPaid
<1>q. QED
  BY <1>1, <1>2, <1>3 DEF IInv

(* The kinds of decisions, written out. *)
LEMMA Kinds ==
  /\ DOMAIN WorkflowAfter = {"review", "approve", "reject", "process", "complete"}
  /\ \A k \in DOMAIN WorkflowAfter :
         WorkflowAfter[k] \in {"under_review", "approved", "rejected",
                               "processing", "completed"}
BY DEF WorkflowAfter

(* The actions, one by one. *)
Stepping ==
    \/ Spend
    \/ \E r \in Refunds, a \in Amounts : ProcessRefund(r, a)
    \/ \E r \in Refunds, a \in Amounts : CreateForReview(r, a)
    \/ \E d \in Admins, r \in Refunds :
           \E kind \in (DOMAIN WorkflowAfter) \cup {"dispatch"}, a \in 0..Captured :
               Decide(d, r, kind, a)
    \/ \E d \in Admins : WriteDecision(d)
    \/ \E d \in Admins : Dispatch(d)
    \/ \E r \in Refunds : LeaseLapses(r)
    \/ \E r \in Refunds : ProviderDecides(r)
    \/ \E c \in Callers, r \in Refunds : Claim(c, r)
    \/ \E c \in Callers : Find(c)
    \/ \E c \in Callers : FindFails(c)
    \/ \E c \in Callers : Create(c)
    \/ \E c \in Callers : CreateUnheard(c)
    \/ \E c \in Callers : CreateFails(c)
    \/ \E c \in Callers : ApplyOutcome(c)
    \/ \E c \in Callers : Abandon(c)

(* They are all the steps there are.                                       *)
LEMMA Steps == Next => Stepping
<1> SUFFICES ASSUME Next PROVE Stepping
  OBVIOUS
<1>0. Amounts \subseteq 0..Captured /\ 0 \in 0..Captured
  BY CapturedAssumption DEF Amounts
<1>1. ASSUME NEW d \in Admins, Review(d) PROVE Stepping
  <2>1. CASE WriteDecision(d) \/ Dispatch(d)
    BY <2>1, Zenon DEF Stepping
  <2>2. CASE ~(WriteDecision(d) \/ Dispatch(d))
    <3>1. PICK r \in Refunds :
            \/ StartReview(d, r)
            \/ \E a \in Amounts : ApproveRefund(d, r, a)
            \/ RejectRefund(d, r)
            \/ MarkRefundProcessing(d, r)
            \/ MarkRefundCompleted(d, r)
      BY <1>1, <2>2, Zenon DEF Review
    <3>2. \E kind \in {"review", "approve", "reject", "process", "complete", "dispatch"},
             a \in 0..Captured : Decide(d, r, kind, a)
      BY <3>1, <1>0 DEF StartReview, ApproveRefund, RejectRefund,
         MarkRefundProcessing, MarkRefundCompleted
    <3>3. \E kind \in (DOMAIN WorkflowAfter) \cup {"dispatch"}, a \in 0..Captured :
             Decide(d, r, kind, a)
      BY <3>2, Kinds
    <3>q. QED
      BY <3>3, Zenon DEF Stepping
  <2>q. QED
    BY <2>1, <2>2
<1>q. QED
  BY <1>1, Zenon DEF Next, Stepping, Answered, Failing

(* What a reservation does. *)
LEMMA ReserveEffect ==
  ASSUME TypeOK, NEW r \in Refunds, NEW a \in 0..Captured, Reserve(r, a)
  PROVE  /\ balance' \in Int
         /\ purpose # "subscription" => balance' >= 0
         /\ inTransit' = [inTransit EXCEPT ![r] = @ + a]
         /\ status' = [status EXCEPT ![r] = "PROCESSING"]
BY CapturedAssumption DEF Reserve, TypeOK

Outcomes == {"none", "PENDING", "SUCCEEDED", "FAILED", "REJECTED", "UNKNOWN"}

Talks ==
    [Callers -> [at : {"idle", "looking", "creating", "answered"},
                 refund : Refunds \cup {Nothing}, outcome : Outcomes]]

(* What an answer does: the conversation goes on, about the same refund. *)
LEMMA AnswerEffect ==
  ASSUME talk \in Talks, NEW c \in Callers, NEW outcome \in Outcomes, Answer(c, outcome)
  PROVE  /\ talk' \in Talks
         /\ talk'[c].at = "answered"
         /\ talk'[c].outcome = outcome
         /\ talk'[c].refund = talk[c].refund
         /\ \A b \in Callers \ {c} : talk'[b] = talk[b]
BY DEF Talks, Answer

(* Every step keeps the types. *)
LEMMA TypeStep == IInv /\ Stepping => TypeOK'
<1> SUFFICES ASSUME IInv, Stepping PROVE TypeOK'
  OBVIOUS
<1>0. TypeOK /\ Known
  BY DEF IInv
<1> USE CapturedAssumption, BoundAssumption
<1> USE DEF rowVars, moneyVars, providerVars, historyVars
<1>1. CASE Spend
  BY <1>0, <1>1 DEF TypeOK, Spend
<1>2. ASSUME NEW r \in Refunds, NEW a \in Amounts, ProcessRefund(r, a) PROVE TypeOK'
  <2>1. Reserve(r, a) /\ a \in 0..Captured
    BY <1>2 DEF ProcessRefund, Amounts
  <2>2. /\ balance' \in Int /\ (purpose # "subscription" => balance' >= 0)
        /\ inTransit' = [inTransit EXCEPT ![r] = @ + a]
        /\ status' = [status EXCEPT ![r] = "PROCESSING"]
    BY <1>0, <2>1, ReserveEffect
  <2>q. QED
    BY <1>0, <1>2, <2>1, <2>2 DEF TypeOK, ProcessRefund
<1>3. ASSUME NEW r \in Refunds, NEW a \in Amounts, CreateForReview(r, a) PROVE TypeOK'
  BY <1>0, <1>3 DEF TypeOK, CreateForReview, Amounts
<1>4. ASSUME NEW d \in Admins, NEW r \in Refunds, NEW a \in 0..Captured,
             NEW kind \in (DOMAIN WorkflowAfter) \cup {"dispatch"}, Decide(d, r, kind, a)
      PROVE TypeOK'
  BY <1>0, <1>4 DEF TypeOK, Decide
<1>5. ASSUME NEW d \in Admins, WriteDecision(d) PROVE TypeOK'
  <2>1. decision[d].refund \in Refunds /\ decision[d].amount \in 0..Captured
    BY <1>0, <1>5, Kinds DEF TypeOK, WriteDecision, Known
  <2>2. decision' \in [Admins -> [kind : DOMAIN WorkflowAfter \cup {"none", "dispatch"},
                                  refund : Refunds \cup {Nothing}, amount : 0..Captured]]
    BY <1>0, <1>5 DEF TypeOK, WriteDecision, Quiet
  <2>3. workflow' \in [Refunds -> {"requested", "under_review", "approved",
                                   "rejected", "processing", "completed"}]
    BY <1>0, <1>5, Kinds DEF TypeOK, WriteDecision
  <2>q. QED
    BY <1>0, <1>5, <2>1, <2>2, <2>3 DEF TypeOK, WriteDecision
<1>6. ASSUME NEW d \in Admins, Dispatch(d) PROVE TypeOK'
  <2>1. decision[d].refund \in Refunds
    BY <1>0, <1>6 DEF Dispatch, Known
  <2>2. amount[decision[d].refund] \in 0..Captured
    BY <1>0, <2>1 DEF TypeOK
  <2>3. /\ status' \in [Refunds -> {"none", "PENDING", "PROCESSING", "SUCCEEDED", "FAILED"}]
        /\ balance' \in Int /\ (purpose # "subscription" => balance' >= 0)
        /\ inTransit' \in [Refunds -> Int]
    BY <1>0, <1>6, <2>1, <2>2, ReserveEffect DEF TypeOK, Dispatch
  <2>q. QED
    BY <1>0, <1>6, <2>3 DEF TypeOK, Dispatch, Quiet
<1>7. ASSUME NEW r \in Refunds, LeaseLapses(r) PROVE TypeOK'
  BY <1>0, <1>7 DEF TypeOK, LeaseLapses
<1>8. ASSUME NEW r \in Refunds, ProviderDecides(r) PROVE TypeOK'
  BY <1>0, <1>8 DEF TypeOK, ProviderDecides
<1>9. ASSUME NEW c \in Callers, NEW r \in Refunds, Claim(c, r) PROVE TypeOK'
  BY <1>0, <1>9 DEF TypeOK, Claim, Fault
<1>10. ASSUME NEW c \in Callers, Find(c) \/ FindFails(c) \/ CreateFails(c) PROVE TypeOK'
  <2>1. talk[c].refund \in Refunds /\ talk \in Talks
    BY <1>0, <1>10 DEF TypeOK, Talks, Outcomes, Known, Talking, Find, FindFails, CreateFails
  <2>2. \/ talk' = [talk EXCEPT ![c].at = "creating"]
        \/ \E outcome \in Outcomes : Answer(c, outcome)
    BY <1>0, <1>10, <2>1 DEF TypeOK, Outcomes, Find, FindFails, CreateFails
  <2>3. talk' \in Talks
    <3>1. CASE talk' = [talk EXCEPT ![c].at = "creating"]
      BY <2>1, <3>1 DEF Talks
    <3>q. QED
      BY <2>1, <2>2, <3>1, AnswerEffect
  <2>4. /\ UNCHANGED <<purpose, rowVars, leased, decision, moneyVars, providerVars,
                       overruled, overtaken, decisions>>
        /\ misread' \subseteq Refunds /\ faults' \in 0..MaxFaults
    BY <1>0, <1>10, <2>1 DEF TypeOK, Find, FindFails, CreateFails, Fault
  <2>q. QED
    BY <1>0, <2>3, <2>4 DEF TypeOK, Talks, Outcomes
<1>11. ASSUME NEW c \in Callers, Create(c) \/ CreateUnheard(c) PROVE TypeOK'
  <2>1. talk[c].refund \in Refunds /\ talk \in Talks
    BY <1>0, <1>11 DEF TypeOK, Talks, Outcomes, Known, Talking, Create, CreateUnheard
  <2>2. /\ made' \in [Refunds -> Nat]
        /\ verdict' \in [Refunds -> {"none", "PENDING", "SUCCEEDED", "FAILED"}]
    BY <1>0, <1>11, <2>1 DEF TypeOK, Create, CreateUnheard, Make
  <2>3. \E outcome \in Outcomes : Answer(c, outcome)
    BY <1>11, <2>1, <2>2 DEF Create, CreateUnheard, Outcomes
  <2>4. talk' \in Talks
    BY <2>1, <2>3, AnswerEffect
  <2>5. /\ UNCHANGED <<purpose, rowVars, leased, decision, moneyVars, historyVars>>
        /\ faults' \in 0..MaxFaults
    BY <1>0, <1>11 DEF TypeOK, Create, CreateUnheard, Fault
  <2>q. QED
    BY <1>0, <2>2, <2>4, <2>5 DEF TypeOK, Talks, Outcomes
<1>12. ASSUME NEW c \in Callers, ApplyOutcome(c) PROVE TypeOK'
  <2>1. talk[c].refund \in Refunds
    BY <1>0, <1>12 DEF Known, Talking, ApplyOutcome
  <2>2. talk' \in [Callers ->
           [at : {"idle", "looking", "creating", "answered"},
            refund : Refunds \cup {Nothing},
            outcome : {"none", "PENDING", "SUCCEEDED", "FAILED", "REJECTED",
                       "UNKNOWN"}]]
    BY <1>0, <1>12 DEF TypeOK, ApplyOutcome, Idle
  <2>3. /\ status' \in [Refunds -> {"none", "PENDING", "PROCESSING", "SUCCEEDED", "FAILED"}]
        /\ balance' \in Int /\ (purpose # "subscription" => balance' >= 0)
        /\ inTransit' \in [Refunds -> Int] /\ clearing' \in [Refunds -> Int]
    BY <1>0, <1>12, <2>1 DEF TypeOK, ApplyOutcome, SettleInTx, FailInTx
  <2>q. QED
    BY <1>0, <1>12, <2>2, <2>3 DEF TypeOK, ApplyOutcome
<1>13. ASSUME NEW c \in Callers, Abandon(c) PROVE TypeOK'
  BY <1>0, <1>13 DEF TypeOK, Abandon, Fault, Idle
<1>q. QED
  BY <1>1, <1>2, <1>3, <1>4, <1>5, <1>6, <1>7, <1>8, <1>9, <1>10, <1>11, <1>12, <1>13
     DEF Stepping

(* Callers and decisions are about refunds that exist. *)
LEMMA KnownStep == IInv /\ Stepping => Known'
<1> SUFFICES ASSUME IInv, Stepping PROVE Known'
  OBVIOUS
<1>0. TypeOK /\ Known
  BY DEF IInv
<1> USE DEF rowVars, moneyVars, providerVars, historyVars
<1>1. CASE Spend
  BY <1>0, <1>1 DEF Known, Talking, Spend
<1>2. ASSUME NEW r \in Refunds, NEW a \in Amounts, ProcessRefund(r, a) PROVE Known'
  BY <1>0, <1>2 DEF TypeOK, Known, Talking, ProcessRefund, Reserve
<1>3. ASSUME NEW r \in Refunds, NEW a \in Amounts, CreateForReview(r, a) PROVE Known'
  BY <1>0, <1>3 DEF TypeOK, Known, Talking, CreateForReview
<1>4. ASSUME NEW d \in Admins, NEW r \in Refunds, NEW a \in 0..Captured,
             NEW kind \in (DOMAIN WorkflowAfter) \cup {"dispatch"}, Decide(d, r, kind, a)
      PROVE Known'
  BY <1>0, <1>4 DEF TypeOK, Known, Talking, Decide
<1>5. ASSUME NEW d \in Admins, WriteDecision(d) PROVE Known'
  <2>1. \A e \in Admins : decision'[e].kind # "none" =>
           decision[e].kind # "none" /\ decision'[e].refund = decision[e].refund
    BY <1>0, <1>5, Kinds DEF TypeOK, WriteDecision, Quiet
  <2>2. \A r \in Refunds : status[r] # "none" => status'[r] # "none"
    BY <1>0, <1>5 DEF TypeOK, WriteDecision
  <2>3. UNCHANGED talk
    BY <1>5 DEF WriteDecision
  <2>q. QED
    BY <1>0, <2>1, <2>2, <2>3 DEF Known, Talking
<1>6. ASSUME NEW d \in Admins, Dispatch(d) PROVE Known'
  <2>1. \A e \in Admins : decision'[e].kind # "none" =>
           decision[e].kind # "none" /\ decision'[e].refund = decision[e].refund
    BY <1>0, <1>6 DEF TypeOK, Dispatch, Quiet
  <2>2. \A r \in Refunds : status[r] # "none" => status'[r] # "none"
    BY <1>0, <1>6 DEF TypeOK, Dispatch, Reserve
  <2>3. UNCHANGED talk
    BY <1>6 DEF Dispatch
  <2>q. QED
    BY <1>0, <2>1, <2>2, <2>3 DEF Known, Talking
<1>7. ASSUME NEW r \in Refunds, LeaseLapses(r) \/ ProviderDecides(r) PROVE Known'
  BY <1>0, <1>7 DEF TypeOK, Known, Talking, LeaseLapses, ProviderDecides
<1>9. ASSUME NEW c \in Callers, NEW r \in Refunds, Claim(c, r) PROVE Known'
  BY <1>0, <1>9 DEF TypeOK, Known, Talking, Claim
<1>10. ASSUME NEW c \in Callers, \/ Find(c) \/ FindFails(c) \/ CreateFails(c)
                                 \/ Create(c) \/ CreateUnheard(c) PROVE Known'
  <2>1. /\ Talking(c) /\ talk \in Talks
        /\ \/ talk' = [talk EXCEPT ![c].at = "creating"]
           \/ \E outcome : talk' = [talk EXCEPT ![c].at = "answered", ![c].outcome = outcome]
    BY <1>0, <1>10 DEF TypeOK, Talks, Outcomes, Talking, Find, FindFails, CreateFails,
       Create, CreateUnheard, Answer
  <2>2. /\ talk'[c].at # "idle" /\ talk'[c].refund = talk[c].refund
        /\ \A b \in Callers \ {c} : talk'[b] = talk[b]
    BY <2>1 DEF Talks
  <2>3. UNCHANGED <<status, decision>>
    BY <1>10 DEF Find, FindFails, CreateFails, Create, CreateUnheard
  <2>q. QED
    BY <1>0, <2>1, <2>2, <2>3 DEF Known, Talking
<1>12. ASSUME NEW c \in Callers, ApplyOutcome(c) PROVE Known'
  <2>1. \A r \in Refunds : status[r] # "none" => status'[r] # "none"
    BY <1>0, <1>12 DEF TypeOK, ApplyOutcome, SettleInTx, FailInTx
  <2>2. talk' = [talk EXCEPT ![c] = Idle] /\ UNCHANGED decision
    BY <1>12 DEF ApplyOutcome
  <2>q. QED
    BY <1>0, <2>1, <2>2 DEF TypeOK, Known, Talking, Idle
<1>13. ASSUME NEW c \in Callers, Abandon(c) PROVE Known'
  BY <1>0, <1>13 DEF TypeOK, Known, Talking, Abandon, Idle
<1>q. QED
  BY <1>1, <1>2, <1>3, <1>4, <1>5, <1>6, <1>7, <1>9, <1>10, <1>12, <1>13 DEF Stepping

RowStep ==
    \/ Spend
    \/ \E r \in Refunds, a \in Amounts : ProcessRefund(r, a) \/ CreateForReview(r, a)
    \/ \E d \in Admins, r \in Refunds :
           \E kind \in (DOMAIN WorkflowAfter) \cup {"dispatch"}, a \in 0..Captured :
               Decide(d, r, kind, a)
    \/ \E d \in Admins : WriteDecision(d) \/ Dispatch(d)

\* How a step that is no conversation may change the status of r.
Advanced(r) ==
    \/ status'[r] = status[r]
    \/ status[r] = "none" /\ status'[r] \in {"PENDING", "PROCESSING"}
    \/ status[r] = "PENDING" /\ status'[r] \in {"PROCESSING", "FAILED"}
    \/ /\ status[r] \in {"PROCESSING", "SUCCEEDED"}
       /\ status'[r] = "FAILED" /\ r \in overruled'

(* What requests and reviews do to rows and ledger; they talk to nobody. *)
LEMMA RowEffect ==
  ASSUME IInv, RowStep
  PROVE  /\ UNCHANGED <<talk, made, verdict, overtaken, misread>>
         /\ overruled \subseteq overruled'
         /\ \A r \in Refunds : Advanced(r)
         /\ LedgerFitsStatus'
<1>0. TypeOK /\ Known /\ LedgerFitsStatus
  BY DEF IInv
<1> DEFINE Goal == /\ UNCHANGED <<talk, made, verdict, overtaken, misread>>
                   /\ overruled \subseteq overruled'
                   /\ \A r \in Refunds : Advanced(r)
                   /\ LedgerFitsStatus'
<1> USE DEF rowVars, moneyVars, providerVars, historyVars
<1>1. CASE Spend
  BY <1>0, <1>1 DEF Spend, Advanced, LedgerFitsStatus
<1>2. ASSUME NEW r \in Refunds, NEW a \in Amounts, ProcessRefund(r, a) PROVE Goal
  <2>0. a \in Int
    BY CapturedAssumption DEF Amounts
  <2>1. status[r] = "none"
    BY <1>2 DEF ProcessRefund
  <2>2. /\ status' = [status EXCEPT ![r] = "PROCESSING"]
        /\ inTransit' = [inTransit EXCEPT ![r] = @ + a]
        /\ amount' = [amount EXCEPT ![r] = a]
        /\ UNCHANGED <<clearing, overruled>>
    BY <1>2 DEF ProcessRefund, Reserve
  <2>3. LedgerFitsStatus'
    BY <1>0, <2>0, <2>1, <2>2 DEF TypeOK, LedgerFitsStatus
  <2>q. QED
    BY <1>0, <1>2, <2>1, <2>2, <2>3 DEF TypeOK, Advanced, ProcessRefund
<1>3. ASSUME NEW r \in Refunds, NEW a \in Amounts, CreateForReview(r, a) PROVE Goal
  BY <1>0, <1>3 DEF TypeOK, CreateForReview, Advanced, LedgerFitsStatus
<1>4. ASSUME NEW d \in Admins, NEW r \in Refunds, NEW a \in 0..Captured,
             NEW kind \in (DOMAIN WorkflowAfter) \cup {"dispatch"}, Decide(d, r, kind, a)
      PROVE Goal
  BY <1>0, <1>4 DEF TypeOK, Decide, Advanced, LedgerFitsStatus
<1>5. ASSUME NEW d \in Admins, WriteDecision(d) PROVE Goal
  <2>1. PICK r \in Refunds : r = decision[d].refund /\ status[r] # "none"
    BY <1>0, <1>5, Kinds DEF Known, WriteDecision
  <2>2. /\ \A q \in Refunds \ {r} : status'[q] = status[q] /\ amount'[q] = amount[q]
        /\ \/ status'[r] = status[r]
           \/ status'[r] = "FAILED"
        /\ status' \in [Refunds -> {"none", "PENDING", "PROCESSING", "SUCCEEDED", "FAILED"}]
        /\ overruled \subseteq overruled'
        /\ UNCHANGED <<inTransit, clearing, talk, made, verdict, overtaken, misread>>
    BY <1>0, <1>5, <2>1 DEF TypeOK, WriteDecision
  <2>3. \/ r \in overruled'
        \/ status[r] \in {"PENDING", "FAILED"}
        \/ status'[r] = status[r] /\ amount'[r] = amount[r]
    BY <1>0, <1>5, <2>1 DEF TypeOK, WriteDecision
  <2>4. \A q \in Refunds : Advanced(q)
    BY <1>0, <2>1, <2>2, <2>3 DEF TypeOK, Advanced
  <2>5. LedgerFitsStatus'
    BY <1>0, <2>1, <2>2, <2>3 DEF TypeOK, LedgerFitsStatus
  <2>q. QED
    BY <2>2, <2>4, <2>5
<1>6. ASSUME NEW d \in Admins, Dispatch(d) PROVE Goal
  <2>1. PICK r \in Refunds : r = decision[d].refund
    BY <1>0, <1>6 DEF Known, Dispatch
  <2>2. UNCHANGED <<amount, clearing, talk, made, verdict, overruled, overtaken, misread>>
    BY <1>6 DEF Dispatch
  <2>3. CASE UNCHANGED <<status, balance, inTransit>>
    BY <1>0, <2>2, <2>3 DEF LedgerFitsStatus, Advanced
  <2>4. CASE status[r] = "PENDING" /\ Reserve(r, amount[r])
    <3>1. /\ status' = [status EXCEPT ![r] = "PROCESSING"]
          /\ inTransit' = [inTransit EXCEPT ![r] = @ + amount[r]]
      BY <2>4 DEF Reserve
    <3>2. LedgerFitsStatus'
      BY <1>0, <2>2, <2>4, <3>1 DEF TypeOK, LedgerFitsStatus
    <3>3. \A q \in Refunds : Advanced(q)
      BY <1>0, <2>4, <3>1 DEF TypeOK, Advanced
    <3>q. QED
      BY <2>2, <3>2, <3>3
  <2>q. QED
    BY <1>6, <2>1, <2>3, <2>4 DEF Dispatch
<1>q. QED
  BY <1>1, <1>2, <1>3, <1>4, <1>5, <1>6 DEF RowStep

(* Such a step keeps what callers may conclude. *)
LEMMA RowStepsKeep ==
  ASSUME IInv, RowStep
  PROVE  /\ Alone' /\ Conversations' /\ Unasked' /\ LedgerFitsStatus'
         /\ RefundedOnce' /\ NeverReturnedAndPaid' /\ PaidMeansPaid'
<1>0. /\ TypeOK /\ Known /\ Alone /\ Conversations /\ Unasked
      /\ RefundedOnce /\ NeverReturnedAndPaid /\ PaidMeansPaid
  BY DEF IInv
<1>1. /\ UNCHANGED <<talk, made, verdict, overtaken, misread>>
      /\ overruled \subseteq overruled'
      /\ \A r \in Refunds : Advanced(r)
      /\ LedgerFitsStatus'
  BY RowEffect
<1>2. Alone' /\ RefundedOnce'
  BY <1>0, <1>1 DEF Alone, Talking, RefundedOnce
<1>3. Conversations'
  BY <1>0, <1>1 DEF Known, Talking, Conversations, Conversation, Advanced
<1>4. Unasked' /\ PaidMeansPaid'
  BY <1>0, <1>1 DEF Unasked, PaidMeansPaid, Advanced
<1>5. NeverReturnedAndPaid'
  BY <1>0, <1>1 DEF NeverReturnedAndPaid, Unasked, Advanced
<1>q. QED
  BY <1>1, <1>2, <1>3, <1>4, <1>5

\* Status and ledger are as they were.
StillRows == UNCHANGED <<status, amount, inTransit, clearing, overruled>>

(* Opening a conversation, or losing a lease. *)
LEMMA ClaimKeeps ==
  ASSUME IInv, NEW r \in Refunds, LeaseLapses(r) \/ \E c \in Callers : Claim(c, r)
  PROVE  /\ Alone' /\ Conversations' /\ Unasked' /\ LedgerFitsStatus'
         /\ RefundedOnce' /\ NeverReturnedAndPaid' /\ PaidMeansPaid'
<1>0. /\ TypeOK /\ Known /\ Alone /\ Conversations /\ Unasked /\ LedgerFitsStatus
      /\ RefundedOnce /\ NeverReturnedAndPaid /\ PaidMeansPaid
  BY DEF IInv
<1>1. /\ StillRows /\ UNCHANGED <<made, verdict, misread>>
      /\ overtaken \subseteq overtaken'
  BY DEF Claim, LeaseLapses, StillRows, rowVars, moneyVars, providerVars, historyVars
<1>2. Unasked' /\ LedgerFitsStatus' /\ RefundedOnce' /\ PaidMeansPaid'
  BY <1>0, <1>1 DEF StillRows, Unasked, LedgerFitsStatus, RefundedOnce, PaidMeansPaid
<1>3. NeverReturnedAndPaid'
  BY <1>0, <1>1 DEF StillRows, NeverReturnedAndPaid
<1>4. CASE LeaseLapses(r)
  <2>1. UNCHANGED <<talk, overtaken>>
    BY <1>4 DEF LeaseLapses, historyVars
  <2>q. QED
    BY <1>0, <1>1, <1>2, <1>3, <2>1 DEF StillRows, Alone, Talking, Conversations, Conversation
<1>5. ASSUME NEW c \in Callers, Claim(c, r) PROVE Alone' /\ Conversations'
  <2>1. /\ talk' = [talk EXCEPT ![c] = [at |-> "looking", refund |-> r, outcome |-> "none"]]
        /\ status[r] = "PROCESSING" /\ talk[c] = Idle
    BY <1>5 DEF Claim, Claimable
  <2>2. /\ talk'[c].at = "looking" /\ talk'[c].refund = r /\ ~Talking(c)
        /\ \A b \in Callers \ {c} : talk'[b] = talk[b]
    BY <1>0, <2>1 DEF TypeOK, Idle, Talking
  <2>3. \/ r \in overtaken'
        \/ \A b \in Callers : talk[b].refund # r
    BY <1>5 DEF Claim, TalkingAbout
  <2>4. Alone'
    BY <1>0, <1>1, <2>2, <2>3 DEF Alone, Talking
  <2>5. Conversations'
    BY <1>0, <1>1, <2>1, <2>2 DEF StillRows, Conversations, Conversation, Talking
  <2>q. QED
    BY <2>4, <2>5
<1>q. QED
  BY <1>2, <1>3, <1>4, <1>5

(* Asking and hearing the answer, or ending without one: no row changes.   *)
LEMMA TalkKeeps ==
  ASSUME IInv, NEW c \in Callers,
         \/ Find(c) \/ FindFails(c) \/ CreateFails(c) \/ Create(c) \/ CreateUnheard(c)
         \/ Abandon(c)
  PROVE  /\ Alone' /\ Conversations' /\ Unasked' /\ LedgerFitsStatus'
         /\ RefundedOnce' /\ NeverReturnedAndPaid' /\ PaidMeansPaid'
<1>0. /\ TypeOK /\ Known /\ Alone /\ Conversations /\ Unasked /\ LedgerFitsStatus
      /\ RefundedOnce /\ NeverReturnedAndPaid /\ PaidMeansPaid
  BY DEF IInv
<1> USE DEF rowVars, moneyVars, providerVars, historyVars
<1>1. PICK r \in Refunds : r = talk[c].refund
  BY <1>0 DEF Known, Talking, Find, FindFails, CreateFails, Create, CreateUnheard, Abandon, Idle
<1>2. /\ Talking(c) /\ talk \in Talks
      /\ StillRows /\ UNCHANGED overtaken
      /\ misread \subseteq misread'
      /\ \/ talk' = [talk EXCEPT ![c] = Idle]
         \/ talk' = [talk EXCEPT ![c].at = "creating"]
         \/ \E outcome : talk' = [talk EXCEPT ![c].at = "answered", ![c].outcome = outcome]
  BY <1>0 DEF TypeOK, Known, Talks, Outcomes, Talking, Find, FindFails, CreateFails, Create,
     CreateUnheard, Abandon, Answer, StillRows
<1>3. /\ talk'[c].at # "idle" => talk'[c].refund = r
      /\ \A b \in Callers \ {c} : talk'[b] = talk[b]
  BY <1>1, <1>2 DEF Talks, Idle
<1>4. Alone'
  BY <1>0, <1>1, <1>2, <1>3 DEF Alone, Talking
<1>5. LedgerFitsStatus'
  BY <1>0, <1>2 DEF StillRows, LedgerFitsStatus
<1>6. Conversation(c, r)
  BY <1>0, <1>1, <1>2 DEF Conversations
<1>7. CASE Create(c) \/ CreateUnheard(c)
  <2>1. /\ talk[c].at = "creating" /\ Make(r) /\ talk'[c].at = "answered"
        /\ talk'[c].outcome \in {verdict'[r], "UNKNOWN"}
    BY <1>1, <1>2, <1>7 DEF Talks, Create, CreateUnheard, Answer
  <2>2. /\ \A q \in Refunds \ {r} : verdict'[q] = verdict[q] /\ made'[q] = made[q]
        /\ made'[r] = made[r] + 1 /\ made[r] \in Nat
        /\ verdict[r] # "none" => verdict'[r] = verdict[r]
        /\ verdict'[r] \in {"PENDING", "SUCCEEDED", "FAILED"}
    BY <1>0, <2>1 DEF TypeOK, Make
  <2>3. r \in overtaken \/ verdict[r] = "none"
    BY <1>6, <2>1 DEF Conversation
  <2>4. RefundedOnce'
    BY <1>0, <1>2, <2>2, <2>3 DEF RefundedOnce, Unasked
  <2>5. status[r] \notin {"none", "PENDING"}
    BY <1>6 DEF Conversation
  <2>6. Unasked' /\ PaidMeansPaid'
    <3>1. verdict[r] = "SUCCEEDED" => verdict'[r] = "SUCCEEDED"
      BY <2>2
    <3>q. QED
      BY <1>0, <1>2, <2>2, <2>5, <3>1 DEF StillRows, Unasked, PaidMeansPaid
  <2>7. NeverReturnedAndPaid'
    <3>1. r \in overruled \cup overtaken \/ status[r] = "PROCESSING"
      BY <1>6 DEF Conversation
    <3>q. QED
      BY <1>0, <1>2, <2>2, <3>1 DEF StillRows, NeverReturnedAndPaid
  <2>8. Conversations'
    <3>1. ASSUME NEW b \in Callers \ {c}, Talking(b)' PROVE Conversation(b, talk[b].refund)'
      <4>1. Talking(b) /\ talk'[b] = talk[b] /\ Conversation(b, talk[b].refund)
        BY <1>0, <1>3, <3>1 DEF Conversations, Talking
      <4>2. CASE talk[b].refund # r
        <5>1. talk[b].refund \in Refunds \ {r}
          BY <1>0, <4>1, <4>2 DEF Known
        <5>q. QED
          BY <1>2, <2>2, <4>1, <5>1 DEF Conversation, StillRows
      <4>3. CASE talk[b].refund = r
        <5>1. r \in overtaken
          BY <1>0, <1>1, <1>2, <4>1, <4>3 DEF Alone
        <5>q. QED
          BY <1>2, <2>2, <4>1, <4>3, <5>1 DEF Conversation, StillRows
      <4>q. QED
        BY <4>2, <4>3
    <3>2. Conversation(c, r)'
      BY <1>2, <1>6, <2>1, <2>2 DEF Conversation, StillRows
    <3>q. QED
      BY <1>3, <3>1, <3>2 DEF Conversations, Talking
  <2>q. QED
    BY <1>4, <1>5, <2>4, <2>6, <2>7, <2>8
<1>8. CASE Find(c) \/ FindFails(c) \/ CreateFails(c) \/ Abandon(c)
  <2>1. UNCHANGED <<made, verdict>>
    BY <1>8 DEF Find, FindFails, CreateFails, Abandon
  <2>2. Unasked' /\ RefundedOnce' /\ PaidMeansPaid'
    BY <1>0, <1>2, <2>1 DEF StillRows, Unasked, RefundedOnce, PaidMeansPaid
  <2>3. NeverReturnedAndPaid'
    BY <1>0, <1>2, <2>1 DEF StillRows, NeverReturnedAndPaid
  <2>4. ASSUME Talking(c)' PROVE Conversation(c, r)'
    <3>1. CASE Find(c)
      <4>1. \/ talk'[c].at = "creating" /\ verdict[r] = "none"
            \/ talk'[c].at = "answered" /\ talk'[c].outcome = verdict[r]
        BY <1>1, <1>2, <3>1 DEF Talks, Find, Answer
      <4>2. verdict[r] \in {"none", "PENDING", "SUCCEEDED", "FAILED"}
        BY <1>0 DEF TypeOK
      <4>3. verdict[r] # "none" \/ talk'[c].at = "creating"
        BY <1>1, <1>2, <3>1 DEF Talks, Find, Answer
      <4>q. QED
        BY <1>2, <1>6, <2>1, <4>1, <4>2, <4>3 DEF StillRows, Conversation
    <3>2. CASE FindFails(c)
      <4>1. /\ talk'[c].at = "answered"
            /\ \/ talk'[c].outcome = "UNKNOWN"
               \/ talk'[c].outcome = "REJECTED" /\ r \in misread'
        <5>0. talk \in Talks
          BY <1>2
        <5>1. CASE Answer(c, "UNKNOWN")
          BY <5>0, <5>1, AnswerEffect DEF Outcomes
        <5>2. CASE Answer(c, "REJECTED") /\ misread' = misread \cup {talk[c].refund}
          BY <1>1, <5>0, <5>2, AnswerEffect DEF Outcomes
        <5>q. QED
          BY <3>2, <5>1, <5>2 DEF FindFails
      <4>q. QED
        BY <1>2, <1>6, <2>1, <4>1 DEF StillRows, Conversation
    <3>3. CASE CreateFails(c)
      <4>1. /\ talk[c].at = "creating" /\ talk'[c].at = "answered"
            /\ talk'[c].outcome \in {"UNKNOWN", "REJECTED"}
        BY <1>2, <3>3 DEF Talks, CreateFails, Answer
      <4>q. QED
        BY <1>2, <1>6, <2>1, <4>1 DEF StillRows, Conversation
    <3>4. CASE Abandon(c)
      BY <1>2, <2>4, <3>4 DEF Talks, Abandon, Talking, Idle
    <3>q. QED
      BY <1>8, <3>1, <3>2, <3>3, <3>4
  <2>5. ASSUME NEW b \in Callers \ {c}, Talking(b)' PROVE Conversation(b, talk[b].refund)'
    <3>1. Talking(b) /\ talk'[b] = talk[b] /\ Conversation(b, talk[b].refund)
      BY <1>0, <1>3, <2>5 DEF Conversations, Talking
    <3>q. QED
      BY <1>2, <2>1, <3>1 DEF StillRows, Conversation
  <2>6. Conversations'
    BY <1>3, <2>4, <2>5 DEF Conversations, Talking
  <2>q. QED
    BY <1>4, <1>5, <2>2, <2>3, <2>6
<1>q. QED
  BY <1>7, <1>8

(* The provider makes up its mind: only what was PENDING moves. *)
LEMMA ProviderKeeps ==
  ASSUME IInv, NEW r \in Refunds, ProviderDecides(r)
  PROVE  /\ Alone' /\ Conversations' /\ Unasked' /\ LedgerFitsStatus'
         /\ RefundedOnce' /\ NeverReturnedAndPaid' /\ PaidMeansPaid'
<1>0. /\ TypeOK /\ Known /\ Alone /\ Conversations /\ Unasked /\ LedgerFitsStatus
      /\ RefundedOnce /\ NeverReturnedAndPaid /\ PaidMeansPaid
  BY DEF IInv
<1>1. /\ verdict[r] = "PENDING" /\ verdict'[r] \in {"SUCCEEDED", "FAILED"}
      /\ \A q \in Refunds \ {r} : verdict'[q] = verdict[q]
      /\ StillRows /\ UNCHANGED <<talk, made, overtaken, misread>>
  BY <1>0 DEF TypeOK, ProviderDecides, StillRows, rowVars, moneyVars, historyVars
<1>2. Alone' /\ LedgerFitsStatus' /\ RefundedOnce'
  BY <1>0, <1>1 DEF StillRows, Alone, Talking, LedgerFitsStatus, RefundedOnce
<1>3. Unasked' /\ PaidMeansPaid'
  BY <1>0, <1>1 DEF StillRows, Unasked, PaidMeansPaid
<1>4. NeverReturnedAndPaid'
  BY <1>0, <1>1 DEF StillRows, NeverReturnedAndPaid
<1>5. ASSUME NEW c \in Callers, Talking(c) PROVE Conversation(c, talk[c].refund)'
  <2>1. Conversation(c, talk[c].refund) /\ talk[c].refund \in Refunds
    BY <1>0, <1>5 DEF Conversations, Known
  <2>q. QED
    BY <1>1, <2>1 DEF StillRows, Conversation
<1>q. QED
  BY <1>1, <1>2, <1>3, <1>4, <1>5 DEF Conversations, Talking

\* An answer settles r, undoes it, or changes nothing.
Resolved(r) ==
    /\ status[r] = "PROCESSING" /\ status'[r] \in {"SUCCEEDED", "FAILED"}
    /\ \A q \in Refunds \ {r} : status'[q] = status[q]

(* What applying an answer does to rows and ledger. *)
LEMMA ApplyEffect ==
  ASSUME IInv, NEW c \in Callers, ApplyOutcome(c)
  PROVE  \E r \in Refunds :
           /\ r = talk[c].refund /\ Talking(c) /\ talk[c].at = "answered"
           /\ talk' = [talk EXCEPT ![c] = Idle]
           /\ UNCHANGED <<amount, overruled, overtaken, misread, made, verdict>>
           /\ \/ StillRows
              \/ /\ Resolved(r)
                 /\ talk[c].outcome \notin {"UNKNOWN", "PENDING"}
                 /\ talk[c].outcome = "SUCCEEDED" <=> status'[r] = "SUCCEEDED"
           /\ LedgerFitsStatus'
<1>0. TypeOK /\ Known /\ LedgerFitsStatus
  BY DEF IInv
<1>1. PICK r \in Refunds : r = talk[c].refund
  BY <1>0 DEF Known, Talking, ApplyOutcome
<1>2. /\ Talking(c) /\ talk[c].at = "answered"
      /\ talk' = [talk EXCEPT ![c] = Idle]
      /\ UNCHANGED <<amount, overruled, overtaken, misread, made, verdict>>
  BY DEF ApplyOutcome, Talking, providerVars, historyVars
<1>3. CASE status[r] # "PROCESSING" \/ talk[c].outcome \in {"UNKNOWN", "PENDING"}
  <2>1. UNCHANGED <<status, balance, inTransit, clearing>>
    BY <1>1, <1>3, Zenon DEF ApplyOutcome, moneyVars
  <2>2. StillRows
    BY <1>2, <2>1 DEF StillRows
  <2>3. LedgerFitsStatus'
    BY <1>0, <2>2 DEF StillRows, LedgerFitsStatus
  <2>q. QED
    BY <1>1, <1>2, <2>2, <2>3
<1>4. CASE ~(status[r] # "PROCESSING" \/ talk[c].outcome \in {"UNKNOWN", "PENDING"})
  <2>1. IF talk[c].outcome = "SUCCEEDED" THEN SettleInTx(r) ELSE FailInTx(r)
    BY <1>1, <1>4 DEF ApplyOutcome
  <2>2. /\ Resolved(r)
        /\ talk[c].outcome = "SUCCEEDED" <=> status'[r] = "SUCCEEDED"
    BY <1>0, <1>4, <2>1 DEF TypeOK, SettleInTx, FailInTx, Resolved
  <2>3. LedgerFitsStatus'
    <3>1. \A q \in Refunds \ {r} : inTransit'[q] = inTransit[q] /\ clearing'[q] = clearing[q]
      BY <1>0, <2>1 DEF TypeOK, SettleInTx, FailInTx
    <3>2. /\ inTransit'[r] = inTransit[r] - amount[r]
          /\ clearing'[r] = IF status'[r] = "SUCCEEDED" THEN clearing[r] + amount[r]
                            ELSE clearing[r]
      BY <1>0, <2>1 DEF TypeOK, SettleInTx, FailInTx
    <3>3. amount[r] \in Int /\ inTransit[r] \in Int /\ clearing[r] \in Int
      BY <1>0, CapturedAssumption DEF TypeOK
    <3>4. ASSUME NEW q \in Refunds \ overruled
          PROVE  /\ inTransit'[q] = IF status'[q] = "PROCESSING" THEN amount[q] ELSE 0
                 /\ clearing'[q] = IF status'[q] = "SUCCEEDED" THEN amount[q] ELSE 0
      <4>1. CASE q = r
        BY <1>0, <2>2, <3>2, <3>3, <4>1 DEF LedgerFitsStatus, Resolved
      <4>2. CASE q # r
        BY <1>0, <2>2, <3>1, <4>2 DEF LedgerFitsStatus, Resolved
      <4>q. QED
        BY <4>1, <4>2
    <3>q. QED
      BY <1>2, <3>4 DEF LedgerFitsStatus
  <2>q. QED
    BY <1>1, <1>2, <1>4, <2>2, <2>3
<1>q. QED
  BY <1>3, <1>4

(* Applying an answer keeps what others may conclude. *)
LEMMA ApplyKeeps ==
  ASSUME IInv, NEW c \in Callers, ApplyOutcome(c)
  PROVE  /\ Alone' /\ Conversations' /\ Unasked' /\ LedgerFitsStatus'
         /\ RefundedOnce' /\ NeverReturnedAndPaid' /\ PaidMeansPaid'
<1>0. /\ TypeOK /\ Known /\ Alone /\ Conversations /\ Unasked
      /\ RefundedOnce /\ NeverReturnedAndPaid /\ PaidMeansPaid
  BY DEF IInv
<1>1. PICK r \in Refunds :
           /\ r = talk[c].refund /\ Talking(c) /\ talk[c].at = "answered"
           /\ talk' = [talk EXCEPT ![c] = Idle]
           /\ UNCHANGED <<amount, overruled, overtaken, misread, made, verdict>>
           /\ \/ StillRows
              \/ /\ Resolved(r)
                 /\ talk[c].outcome \notin {"UNKNOWN", "PENDING"}
                 /\ talk[c].outcome = "SUCCEEDED" <=> status'[r] = "SUCCEEDED"
           /\ LedgerFitsStatus'
  BY ApplyEffect
<1>2. ~Talking(c)' /\ \A b \in Callers \ {c} : talk'[b] = talk[b]
  BY <1>0, <1>1 DEF TypeOK, Talking, Idle
<1>3. Alone' /\ RefundedOnce'
  BY <1>0, <1>1, <1>2 DEF Alone, Talking, RefundedOnce
<1>4. Conversation(c, r)
  BY <1>0, <1>1 DEF Conversations
<1>5. Unasked' /\ PaidMeansPaid' /\ NeverReturnedAndPaid'
  <2>1. CASE StillRows
    BY <1>0, <1>1, <2>1 DEF StillRows, Unasked, PaidMeansPaid, NeverReturnedAndPaid
  <2>2. CASE ~StillRows
    BY <1>0, <1>1, <1>4, <2>2 DEF Resolved, Conversation, Unasked, PaidMeansPaid,
       NeverReturnedAndPaid
  <2>q. QED
    BY <2>1, <2>2
<1>6. ASSUME NEW b \in Callers \ {c}, Talking(b) PROVE Conversation(b, talk[b].refund)'
  <2>1. Conversation(b, talk[b].refund) /\ talk[b].refund \in Refunds
    BY <1>0, <1>6 DEF Conversations, Known
  <2>2. CASE StillRows
    BY <1>1, <1>2, <2>1, <2>2 DEF StillRows, Conversation
  <2>3. CASE Resolved(r)
    <3>1. talk[b].refund = r => r \in overtaken
      BY <1>0, <1>1, <1>6 DEF Alone
    <3>q. QED
      BY <1>1, <1>2, <2>1, <2>3, <3>1 DEF Resolved, Conversation
  <2>q. QED
    BY <1>1, <2>2, <2>3
<1>7. Conversations'
  BY <1>2, <1>6 DEF Conversations, Talking
<1>q. QED
  BY <1>1, <1>3, <1>5, <1>7

(* The invariant is inductive. *)
LEMMA StepKeeps == IInv /\ [Next]_vars => IInv'
<1> SUFFICES ASSUME IInv, [Next]_vars PROVE IInv'
  OBVIOUS
<1>1. CASE UNCHANGED vars
  BY <1>1 DEF vars, IInv, TypeOK, Known, Alone, Conversations, Conversation, Unasked, Talking,
     LedgerFitsStatus, RefundedOnce, NeverReturnedAndPaid, PaidMeansPaid
<1>2. CASE Next
  <2>0. Stepping
    BY <1>2, Steps
  <2>1. TypeOK' /\ Known'
    BY <2>0, TypeStep, KnownStep
  <2>2. /\ Alone' /\ Conversations' /\ Unasked' /\ LedgerFitsStatus'
        /\ RefundedOnce' /\ NeverReturnedAndPaid' /\ PaidMeansPaid'
    <3>1. CASE RowStep
      BY <3>1, RowStepsKeep
    <3>2. CASE \E r \in Refunds : LeaseLapses(r) \/ \E c \in Callers : Claim(c, r)
      BY <3>2, ClaimKeeps
    <3>3. CASE \E r \in Refunds : ProviderDecides(r)
      BY <3>3, ProviderKeeps
    <3>4. CASE \E c \in Callers : \/ Find(c) \/ FindFails(c) \/ CreateFails(c) \/ Create(c)
                                 \/ CreateUnheard(c) \/ Abandon(c)
      BY <3>4, TalkKeeps
    <3>5. CASE \E c \in Callers : ApplyOutcome(c)
      BY <3>5, ApplyKeeps
    <3>q. QED
      BY <2>0, <3>1, <3>2, <3>3, <3>4, <3>5, Zenon DEF Stepping, RowStep
  <2>q. QED
    BY <2>1, <2>2 DEF IInv
<1>q. QED
  BY <1>1, <1>2

(* The invariant holds in every reachable state. *)
THEOREM Invariance == Spec => []IInv
<1>1. Init => IInv
  BY InitEstablishes
<1>2. IInv /\ [Next]_vars => IInv'
  BY StepKeeps
<1>q. QED
  BY <1>1, <1>2, PTL DEF Spec

(* Rows, balances and conversations keep their types; refunds do not       *)
(* overdraw the balance they come out of.                                  *)
THEOREM TypeCorrect == Spec => []TypeOK
<1>1. IInv => TypeOK
  BY DEF IInv
<1>q. QED
  BY <1>1, Invariance, PTL

(* REFUND_IN_TRANSIT and GATEWAY_CLEARING hold under a refund what its     *)
(* status says, however often and late the provider's answers are applied. *)
THEOREM LedgerFollowsStatus == Spec => []LedgerFitsStatus
<1>1. IInv => LedgerFitsStatus
  BY DEF IInv
<1>q. QED
  BY <1>1, Invariance, PTL

(* Without an overtaken lease the provider creates one refund per row.     *)
THEOREM OneProviderRefund == Spec => []RefundedOnce
<1>1. IInv => RefundedOnce
  BY DEF IInv
<1>q. QED
  BY <1>1, Invariance, PTL

(* No timeout, lost reply or crash gives back money that the provider paid *)
(* out, and what is recorded as paid has been paid.                        *)
THEOREM RecordsFitProvider == Spec => []RecordFitsProvider
<1>1. IInv => RecordFitsProvider
  BY DEF IInv, RecordFitsProvider
<1>q. QED
  BY <1>1, Invariance, PTL

-----------------------------------------------------------------------------
(* The sum of what was promised to the provider.                           *)

\* Nothing new is promised, and no amount that is promised changes.
NothingPromised ==
    /\ Promised' \subseteq Promised
    /\ \A r \in Promised' : amount'[r] = amount[r]

\* Of r an amount within what is left is promised.
PromisedOnce(r) ==
    /\ r \notin Promised /\ Promised' = Promised \cup {r}
    /\ amount'[r] + Committed(r) <= Captured
    /\ \A q \in Refunds \ {r} : amount'[q] = amount[q]

(* A reservation promises one refund.                                      *)
LEMMA ReservePromises ==
  ASSUME TypeOK, NEW r \in Refunds, NEW a, Reserve(r, a), status[r] \in {"none", "PENDING"},
         amount' = [amount EXCEPT ![r] = a]
  PROVE  PromisedOnce(r)
<1>1. a + Committed(r) <= Captured /\ status' = [status EXCEPT ![r] = "PROCESSING"]
  BY DEF Reserve, Refundable
<1>2. r \notin Promised /\ Promised' = Promised \cup {r}
  BY <1>1 DEF TypeOK, Promised
<1>q. QED
  BY <1>1, <1>2 DEF TypeOK, PromisedOnce

(* What a step promises, unless a decision on a refund already reserved    *)
(* overrules it.                                                           *)
LEMMA StepPromises ==
  ASSUME IInv, Stepping, overruled' = {}
  PROVE  NothingPromised \/ \E r \in Refunds : PromisedOnce(r)
<1>0. TypeOK /\ Known
  BY DEF IInv
<1> USE DEF rowVars, moneyVars, providerVars, historyVars
<1>1. CASE UNCHANGED <<status, amount>>
  BY <1>1 DEF NothingPromised, Promised
<1>2. ASSUME NEW r \in Refunds, NEW a \in Amounts, ProcessRefund(r, a) PROVE PromisedOnce(r)
  BY <1>0, <1>2, ReservePromises DEF ProcessRefund
<1>3. ASSUME NEW r \in Refunds, NEW a \in Amounts, CreateForReview(r, a) PROVE NothingPromised
  BY <1>0, <1>3 DEF TypeOK, CreateForReview, NothingPromised, Promised
<1>4. ASSUME NEW d \in Admins, WriteDecision(d) PROVE NothingPromised
  <2>1. PICK r \in Refunds : r = decision[d].refund
    BY <1>0, <1>4, Kinds DEF Known, WriteDecision
  <2>2. /\ \A q \in Refunds \ {r} : status'[q] = status[q] /\ amount'[q] = amount[q]
        /\ status'[r] \in {status[r], "FAILED"}
        /\ r \in Promised => <<amount', status'>> = <<amount, status>>
    BY <1>0, <1>4, <2>1 DEF TypeOK, WriteDecision, Promised
  <2>q. QED
    BY <2>2 DEF NothingPromised, Promised
<1>5. ASSUME NEW d \in Admins, Dispatch(d)
      PROVE  NothingPromised \/ \E r \in Refunds : PromisedOnce(r)
  <2>1. PICK r \in Refunds : r = decision[d].refund
    BY <1>0, <1>5 DEF Known, Dispatch
  <2>2. CASE status[r] = "PENDING" /\ Reserve(r, amount[r])
    <3>1. amount' = [amount EXCEPT ![r] = amount[r]]
      BY <1>0, <1>5 DEF TypeOK, Dispatch
    <3>q. QED
      BY <1>0, <2>2, <3>1, ReservePromises
  <2>q. QED
    BY <1>1, <1>5, <2>1, <2>2 DEF Dispatch
<1>6. ASSUME NEW c \in Callers, ApplyOutcome(c) PROVE NothingPromised
  <2>1. PICK r \in Refunds : UNCHANGED amount /\ (StillRows \/ Resolved(r))
    BY <1>6, ApplyEffect
  <2>q. QED
    BY <2>1 DEF StillRows, Resolved, NothingPromised, Promised
<1>q. QED
  BY <1>1, <1>2, <1>3, <1>4, <1>5, <1>6 DEF Stepping, Spend, Decide, LeaseLapses,
     ProviderDecides, Claim, Find, FindFails, Create, CreateUnheard, CreateFails, Abandon

(* So the sum stays within the captured amount.                            *)
LEMMA SumStays ==
  ASSUME TypeOK, TypeOK', SumOver(Promised) <= Captured,
         NothingPromised \/ \E r \in Refunds : PromisedOnce(r)
  PROVE  SumOver(Promised)' <= Captured
<1>0. /\ IsFiniteSet(Promised) /\ IsFiniteSet(Promised')
      /\ \A r \in Refunds : amount[r] \in Nat /\ amount'[r] \in Nat
      /\ Promised \subseteq Refunds /\ Promised' \subseteq Refunds
  BY RefundsAssumption, CapturedAssumption, FS_Subset DEF TypeOK, Promised
<1>1. CASE NothingPromised
  <2>1. SumFunctionOnSet(amount', Promised') = SumFunctionOnSet(amount, Promised')
    BY <1>0, <1>1, SumOfEqual DEF NothingPromised
  <2>2. /\ SumFunctionOnSet(amount, Promised') \in Nat
        /\ SumFunctionOnSet(amount, Promised) \in Nat
        /\ SumFunctionOnSet(amount, Promised') <= SumFunctionOnSet(amount, Promised)
    BY <1>0, <1>1, SumOfPart DEF NothingPromised
  <2>q. QED
    BY <2>1, <2>2, CapturedAssumption DEF SumOver
<1>2. ASSUME NEW r \in Refunds, PromisedOnce(r) PROVE SumOver(Promised)' <= Captured
  <2> DEFINE Others == {q \in Refunds \ {r} : status[q] \in CommittedStatuses}
  <2>1. Promised \subseteq Others /\ IsFiniteSet(Others) /\ Others \subseteq Refunds
    <3>1. Promised \subseteq Others /\ Others \subseteq Refunds
      BY <1>2 DEF PromisedOnce, Promised, CommittedStatuses
    <3>q. QED
      BY <3>1, RefundsAssumption, FS_Subset
  <2>2. amount'[r] + SumFunctionOnSet(amount, Others) <= Captured
    BY <1>2 DEF PromisedOnce, Committed, SumOver
  <2> HIDE DEF Others
  <2>3. /\ SumFunctionOnSet(amount, Promised) \in Nat
        /\ SumFunctionOnSet(amount, Promised) <= SumFunctionOnSet(amount, Others)
    BY <1>0, <2>1, SumOfPart
  <2>4. SumFunctionOnSet(amount, Others) \in Nat
    BY <1>0, <2>1, SumOfPart
  <2>5. SumFunctionOnSet(amount', Promised) = SumFunctionOnSet(amount, Promised)
    BY <1>0, <1>2, SumOfEqual DEF PromisedOnce
  <2>6. SumFunctionOnSet(amount', Promised \cup {r})
            = SumFunctionOnSet(amount', Promised) + amount'[r]
    BY <1>0, <1>2, SumWithElement DEF PromisedOnce
  <2>7. SumFunctionOnSet(amount', Promised \cup {r}) <= Captured
    BY <1>0, <2>2, <2>3, <2>4, <2>5, <2>6, CapturedAssumption
  <2>q. QED
    BY <1>2, <2>7, Zenon DEF PromisedOnce, SumOver
<1>q. QED
  BY <1>1, <1>2

(* However requests and reviews of one payment interleave, what was        *)
(* promised to the provider never exceeds what the payment brought in.     *)
THEOREM NeverOverPromised == Spec => []NeverOverCaptured
<1>1. Init => NeverOverCaptured
  <2> SUFFICES ASSUME Init PROVE SumOver(Promised) <= Captured
    BY DEF NeverOverCaptured
  <2>1. Promised = {}
    BY DEF Init, Promised
  <2>2. SumOver(Promised) = 0
    BY <2>1, SumOfNone, Zenon DEF SumOver
  <2>q. QED
    BY <2>2, CapturedAssumption
<1>2. IInv /\ IInv' /\ NeverOverCaptured /\ [Next]_vars => NeverOverCaptured'
  <2> SUFFICES ASSUME IInv, IInv', NeverOverCaptured, [Next]_vars, overruled' = {}
               PROVE  SumOver(Promised)' <= Captured
    BY DEF NeverOverCaptured
  <2>1. CASE UNCHANGED vars
    <3>1. SumOver(Promised)' = SumOver(Promised) /\ overruled' = overruled
      BY <2>1, Zenon DEF vars, SumOver, Promised
    <3>q. QED
      BY <2>1, <3>1 DEF NeverOverCaptured
  <2>2. CASE Next
    <3>1. Stepping
      BY <2>2, Steps
    <3>2. overruled = {}
      <4>1. CASE RowStep
        BY <4>1, RowEffect
      <4>2. CASE UNCHANGED overruled
        BY <4>2
      <4>q. QED
        BY <3>1, <4>1, <4>2 DEF Stepping, RowStep, LeaseLapses, ProviderDecides, Claim, Find,
           FindFails, Create, CreateUnheard, CreateFails, ApplyOutcome, Abandon, historyVars
    <3>3. SumOver(Promised) <= Captured
      BY <3>2 DEF NeverOverCaptured
    <3>q. QED
      BY <3>1, <3>3, StepPromises, SumStays DEF IInv
  <2>q. QED
    BY <2>1, <2>2
<1>q. QED
  BY <1>1, <1>2, Invariance, PTL DEF Spec

-----------------------------------------------------------------------------
\* The standing of r changes, by one move of the promise, or not at all.
Moves(r) ==
    \/ standing'[r] = standing[r]
    \/ standing[r] = "none"      /\ standing'[r] \in {"asked", "set_aside"}
    \/ standing[r] = "asked"     /\ standing'[r] \in {"set_aside", "closed"}
    \/ standing[r] = "set_aside" /\ standing'[r] \in {"repaid", "closed", "overruled"}
    \/ standing[r] = "repaid"    /\ standing'[r] = "overruled"

(* Moving one refund, and no other, is a step of the promise.              *)
LEMMA OneMove ==
  ASSUME NEW r \in Refunds, Moves(r), \A q \in Refunds \ {r} : standing'[q] = standing[q]
  PROVE  [Promise!Next]_(Promise!vars)
<1>0. /\ standing = [q \in Refunds |-> standing[q]]
      /\ standing' = [q \in Refunds |-> standing'[q]]
  BY DEF standing
<1>1. standing' = [standing EXCEPT ![r] = standing'[r]]
  BY <1>0
<1>2. CASE standing'[r] = standing[r]
  BY <1>0, <1>2 DEF Promise!vars
<1>3. CASE standing'[r] # standing[r]
  <2>1. \/ standing[r] = "none" /\ standing'[r] = "asked"
        \/ standing[r] \in {"none", "asked"} /\ standing'[r] = "set_aside"
        \/ standing[r] = "set_aside" /\ standing'[r] = "repaid"
        \/ standing[r] \in {"asked", "set_aside"} /\ standing'[r] = "closed"
        \/ standing[r] \in {"set_aside", "repaid"} /\ standing'[r] = "overruled"
    BY <1>3 DEF Moves
  <2>q. QED
    BY <1>1, <2>1 DEF Promise!Next, Promise!Ask, Promise!SetAside, Promise!Repay,
       Promise!Close, Promise!Overrule, Promise!Move
<1>q. QED
  BY <1>2, <1>3

(* The row decides the standing.                                           *)
LEMMA StandingOf ==
  ASSUME TypeOK, NEW r \in Refunds
  PROVE  standing[r] = IF r \in overruled THEN "overruled"
                       ELSE IF status[r] = "none" THEN "none"
                       ELSE IF status[r] = "PENDING" THEN "asked"
                       ELSE IF status[r] = "PROCESSING" THEN "set_aside"
                       ELSE IF status[r] = "SUCCEEDED" THEN "repaid"
                       ELSE "closed"
<1>1. status[r] \in {"none", "PENDING", "PROCESSING", "SUCCEEDED", "FAILED"}
  BY DEF TypeOK
<1>q. QED
  BY <1>1 DEF standing

(* The same, after a step.                                                 *)
LEMMA StandingAfter ==
  ASSUME TypeOK', NEW r \in Refunds
  PROVE  standing'[r] = IF r \in overruled' THEN "overruled"
                        ELSE IF status'[r] = "none" THEN "none"
                        ELSE IF status'[r] = "PENDING" THEN "asked"
                        ELSE IF status'[r] = "PROCESSING" THEN "set_aside"
                        ELSE IF status'[r] = "SUCCEEDED" THEN "repaid"
                        ELSE "closed"
<1>1. status'[r] \in {"none", "PENDING", "PROCESSING", "SUCCEEDED", "FAILED"}
  BY DEF TypeOK
<1>q. QED
  BY <1>1 DEF standing

OnlyOne(r) ==
    /\ \A q \in Refunds \ {r} :
           status'[q] = status[q] /\ (q \in overruled' <=> q \in overruled)
    /\ r \in overruled' \ overruled => status[r] \in {"PROCESSING", "SUCCEEDED"}

(* A request or a decision is about one refund.                            *)
LEMMA RowStepsOne ==
  ASSUME TypeOK, Known, RowStep, Refunds # {}
  PROVE  \E r \in Refunds : OnlyOne(r)
<1> USE DEF rowVars, moneyVars, providerVars, historyVars
<1>1. CASE UNCHANGED <<status, overruled>>
  BY <1>1 DEF OnlyOne
<1>2. ASSUME NEW r \in Refunds, NEW a \in Amounts, ProcessRefund(r, a) \/ CreateForReview(r, a)
      PROVE  OnlyOne(r)
  BY <1>2 DEF TypeOK, ProcessRefund, CreateForReview, Reserve, OnlyOne
<1>3. ASSUME NEW d \in Admins, WriteDecision(d) PROVE \E r \in Refunds : OnlyOne(r)
  <2>1. decision[d].refund \in Refunds
    BY <1>3, Kinds DEF Known, WriteDecision
  <2>2. OnlyOne(decision[d].refund)
    BY <1>3, <2>1 DEF TypeOK, WriteDecision, OnlyOne
  <2>q. QED
    BY <2>1, <2>2
<1>4. ASSUME NEW d \in Admins, Dispatch(d) PROVE \E r \in Refunds : OnlyOne(r)
  <2>1. decision[d].refund \in Refunds
    BY <1>4 DEF Known, Dispatch
  <2>2. OnlyOne(decision[d].refund)
    BY <1>4, <2>1 DEF TypeOK, Dispatch, Reserve, OnlyOne
  <2>q. QED
    BY <2>1, <2>2
<1>q. QED
  BY <1>1, <1>2, <1>3, <1>4 DEF RowStep, Spend, Decide

(* The calls implement RefundPromise: a refund moves one way and ends      *)
(* once, whatever callers, administrators and the provider do.             *)
THEOREM ImplementsPromise == Spec => KeepsPromise
<1>1. Init => Promise!Init
  <2> SUFFICES ASSUME Init PROVE Promise!Init
    OBVIOUS
  <2>1. TypeOK /\ \A r \in Refunds : status[r] = "none" /\ r \notin overruled
    BY InitEstablishes DEF Init, IInv
  <2>2. \A r \in Refunds : standing[r] = "none"
    BY <2>1, StandingOf
  <2>q. QED
    BY <2>2 DEF Promise!Init, standing
<1>2. IInv /\ IInv' /\ [Next]_vars => [Promise!Next]_(Promise!vars)
  <2> SUFFICES ASSUME IInv, IInv', [Next]_vars PROVE [Promise!Next]_(Promise!vars)
    OBVIOUS
  <2>0. TypeOK /\ TypeOK'
    BY DEF IInv
  <2>1. CASE UNCHANGED <<status, overruled>>
    BY <2>1 DEF standing, Promise!vars
  <2>2. CASE RowStep
    <3>1. /\ overruled \subseteq overruled'
          /\ \A r \in Refunds : Advanced(r)
      BY <2>2, RowEffect
    <3>2. CASE Refunds = {}
      BY <3>2 DEF standing, Promise!vars
    <3>3. CASE Refunds # {}
      <4>1. PICK r \in Refunds : OnlyOne(r)
        BY <2>0, <2>2, <3>3, RowStepsOne DEF IInv
      <4>2. Advanced(r) /\ (r \in overruled' => r \in overruled \/ status[r] \in {"PROCESSING", "SUCCEEDED"})
        BY <3>1, <4>1 DEF OnlyOne
      <4>3. Moves(r)
        BY <2>0, <3>1, <4>2, StandingOf, StandingAfter DEF Advanced, Moves
      <4>4. \A q \in Refunds \ {r} : standing'[q] = standing[q]
        BY <2>0, <4>1, StandingOf, StandingAfter DEF OnlyOne
      <4>q. QED
        BY <4>3, <4>4, OneMove
    <3>q. QED
      BY <3>2, <3>3
  <2>3. ASSUME NEW c \in Callers, ApplyOutcome(c) PROVE [Promise!Next]_(Promise!vars)
    <3>1. PICK r \in Refunds : UNCHANGED overruled /\ (StillRows \/ Resolved(r))
      BY <2>3, ApplyEffect
    <3>2. CASE StillRows
      BY <2>1, <3>2 DEF StillRows
    <3>3. CASE Resolved(r)
      <4>1. Moves(r)
        BY <2>0, <3>1, <3>3, StandingOf, StandingAfter DEF Resolved, Moves
      <4>2. \A q \in Refunds \ {r} : standing'[q] = standing[q]
        BY <2>0, <3>1, <3>3, StandingOf, StandingAfter DEF Resolved
      <4>q. QED
        BY <4>1, <4>2, OneMove
    <3>q. QED
      BY <3>1, <3>2, <3>3
  <2>4. CASE UNCHANGED vars
    BY <2>1, <2>4 DEF vars
  <2>5. CASE Next
    <3>1. Stepping
      BY <2>5, Steps
    <3>2. \/ RowStep
          \/ \E c \in Callers : ApplyOutcome(c)
          \/ UNCHANGED <<status, overruled>>
      BY <3>1 DEF Stepping, RowStep, LeaseLapses, ProviderDecides, Claim, Find, FindFails,
         Create, CreateUnheard, CreateFails, Abandon, rowVars, historyVars
    <3>q. QED
      BY <2>1, <2>2, <2>3, <3>2
  <2>q. QED
    BY <2>4, <2>5
<1>q. QED
  BY <1>1, <1>2, Invariance, PTL DEF Spec, KeepsPromise, Promise!Spec

-----------------------------------------------------------------------------
(* Settlements and payouts.                                                *)

\* A payout row, once there, belongs to a settlement that exists.
Booked ==
    \A p \in Payouts :
        /\ payout[p].status = "none" => payout[p] = NoPayout
        /\ payout[p].status # "none" => payout[p].of \in Existing

\* A settlement that was not calculated holds no figures.
Empty == \A s \in Settlements : settlement[s].status = "none" => settlement[s] = Unsettled

\* Every call is about rows that exist.
CallsKnown ==
    \A c \in Sessions :
        /\ call[c].kind = "settle" => call[c].settlement \in Settlements
        /\ call[c].kind = "execute" =>
               /\ call[c].payout \in Payouts /\ call[c].settlement \in Existing
               /\ call[c].amount \in PayoutAmounts
        /\ call[c].kind \in {"confirm", "fail"} =>
               /\ call[c].payout \in Payouts
               /\ payout[call[c].payout].status # "none"
        /\ call[c].kind = "confirm" => call[c].settlement = payout[call[c].payout].of

\* The rows that c has locked.
Holds(c) == {row \in Rows : holder[row] = c}

\* c locks a payout before a settlement, and either before the wallet; it holds
\* what it passed, and wants the rest.
InOrder(c) ==
    LET p == call[c].payout
        s == call[c].settlement
        At(wants, holds) == call[c].wants = wants /\ Holds(c) = holds
    IN  /\ call[c].kind \in {"none", "settle"} => At(<<>>, {})
        /\ call[c].kind = "execute" =>
               \/ At(<<s, "wallet">>, {})
               \/ At(<<"wallet">>, {s})
               \/ At(<<>>, {s, "wallet"})
        /\ call[c].kind = "confirm" =>
               \/ At(<<p, s, "wallet">>, {})
               \/ At(<<s, "wallet">>, {p})
               \/ At(<<"wallet">>, {p, s})
               \/ At(<<>>, {p, s, "wallet"})
        /\ call[c].kind = "fail" =>
               \/ At(<<p, "wallet">>, {})
               \/ At(<<"wallet">>, {p})
               \/ At(<<>>, {p, "wallet"})

LocksInOrder == \A c \in Sessions : InOrder(c)

PayoutIInv ==
    /\ PayoutTypeOK
    /\ Booked
    /\ Empty
    /\ CallsKnown
    /\ LocksInOrder
    /\ MoneyAccountedFor
    /\ PaidIffCovered

-----------------------------------------------------------------------------
(* Types and locks.                                                        *)

(* What is asked for is a positive amount.                                 *)
LEMMA AmountsArePositive == \A a \in PayoutAmounts : a \in Nat \ {0}
BY PayoutBoundAssumption DEF PayoutAmounts

(* Making no call is a state of a call.                                    *)
LEMMA IdleIsACall == NoCall \in Calls
BY DEF NoCall, Calls

(* What is carried into a settlement is a number.                          *)
LEMMA CarriedIsInt ==
  ASSUME PayoutTypeOK
  PROVE  Carried \in Int
<1> DEFINE net == [s \in Settlements |-> settlement[s].net]
<1>1. \A s \in Settlements : net[s] \in Int
  BY DEF PayoutTypeOK, SettlementRows
<1>2. SumFunctionOnSet(net, Settlements) \in Int
  <2> HIDE DEF net
  <2>q. QED
    BY <1>1, FiniteAssumption, SumType
<1>3. DOMAIN net = Settlements
  OBVIOUS
<1>4. Carried = Least(0, SumFunctionOnSet(net, Settlements))
  BY <1>3, Zenon DEF Carried, SumFunction
<1> HIDE DEF net
<1>q. QED
  BY <1>2, <1>4 DEF Least

\* A call that has just begun.
Begun(c) ==
    /\ \/ /\ call[c].kind = "settle" /\ call[c].settlement \in Settlements
          /\ call[c].wants = <<>>
       \/ /\ call[c].kind = "execute" /\ call[c].payout \in Payouts
          /\ call[c].settlement \in Existing /\ call[c].amount \in PayoutAmounts
          /\ call[c].wants = <<call[c].settlement, "wallet">>
       \/ /\ call[c].kind = "confirm" /\ call[c].payout \in Payouts
          /\ payout[call[c].payout].status # "none"
          /\ call[c].settlement = payout[call[c].payout].of
          /\ call[c].wants = <<call[c].payout, call[c].settlement, "wallet">>
       \/ /\ call[c].kind = "fail" /\ call[c].payout \in Payouts
          /\ payout[call[c].payout].status # "none"
          /\ call[c].wants = <<call[c].payout, "wallet">>

\* c begins a call.
Beginning(c) ==
    \/ \E s \in Settlements : BeginSettle(c, s)
    \/ \E p \in Payouts : BeginConfirm(c, p)
    \/ \E p \in Payouts : BeginFail(c, p)
    \/ \E p \in Payouts, s \in Settlements, a \in PayoutAmounts : BeginExecute(c, p, s, a)

\* The steps.
PayoutStepping ==
    \/ RequestWithdrawal
    \/ \E s \in Settlements : ConfirmCash(s)
    \/ \E s \in Settlements, to \in Statuses : UpdateSettlementStatus(s, to)
    \/ \E c \in Sessions : Beginning(c)
    \/ \E c \in Sessions : Lock(c)
    \/ \E c \in Sessions : CreateSettlement(c)
    \/ \E c \in Sessions : ExecutePayout(c)
    \/ \E c \in Sessions : ConfirmPayout(c)
    \/ \E c \in Sessions : FailPayout(c)
    \/ \E c \in Sessions : RollBack(c)

(* They are all the steps there are.                                       *)
LEMMA PayoutSteps == PayoutNext => PayoutStepping
BY Zenon DEF PayoutNext, PayoutStepping, Beginning

(* What the calls that begin are.                                          *)
LEMMA BeginEffect ==
  ASSUME PayoutTypeOK, Booked, NEW c \in Sessions, Beginning(c)
  PROVE  /\ call[c] = NoCall
         /\ UNCHANGED <<periodVars, settlement, payout, walletVars, holder, moves>>
         /\ call' \in [Sessions -> Calls]
         /\ \A b \in Sessions \ {c} : call'[b] = call[b]
         /\ Begun(c)'
<1>1. call \in [Sessions -> Calls] /\ NoCall \in Calls /\ "wallet" \in Rows
  BY IdleIsACall DEF PayoutTypeOK, Rows
<1>2. ASSUME NEW s \in Settlements, BeginSettle(c, s)
      PROVE  call' \in [Sessions -> Calls] /\ Begun(c)'
  <2>1. earned[s] \in Int /\ cash[s] \in Int /\ recovered[s] \in Int
    BY PayoutBoundAssumption DEF PayoutTypeOK
  <2>2. /\ Carried \in Int
        /\ earned[s] - (cash[s] - recovered[s]) \in Int
    BY <2>1, CarriedIsInt
  <2>q. QED
    BY <1>1, <1>2, <2>2 DEF BeginSettle, NoCall, Calls, Begun
<1>3. ASSUME NEW p \in Payouts, BeginConfirm(c, p)
      PROVE  call' \in [Sessions -> Calls] /\ Begun(c)'
  <2>1. payout[p].of \in Settlements /\ payout[p].of \in Rows /\ p \in Rows
    BY <1>3 DEF BeginConfirm, Booked, Existing, Rows
  <2>2. <<p, payout[p].of, "wallet">> \in Seq(Rows)
    BY <1>1, <2>1
  <2>q. QED
    BY <1>1, <1>3, <2>1, <2>2 DEF BeginConfirm, NoCall, Calls, Begun
<1>4. ASSUME NEW p \in Payouts, BeginFail(c, p)
      PROVE  call' \in [Sessions -> Calls] /\ Begun(c)'
  <2>1. <<p, "wallet">> \in Seq(Rows)
    BY <1>1 DEF Rows
  <2>q. QED
    BY <1>1, <1>4, <2>1 DEF BeginFail, NoCall, Calls, Begun
<1>5. ASSUME NEW p \in Payouts, NEW s \in Settlements, NEW a \in PayoutAmounts,
             BeginExecute(c, p, s, a)
      PROVE  call' \in [Sessions -> Calls] /\ Begun(c)'
  <2>1. <<s, "wallet">> \in Seq(Rows)
    BY <1>1 DEF Rows
  <2>2. a \in Int /\ a \in PayoutAmounts
    BY PayoutBoundAssumption DEF PayoutAmounts
  <2>q. QED
    BY <1>1, <1>5, <2>1, <2>2 DEF BeginExecute, NoCall, Calls, Existing, Begun
<1>6. /\ call[c] = NoCall
      /\ UNCHANGED <<periodVars, settlement, payout, walletVars, holder, moves>>
      /\ \A b \in Sessions \ {c} : call'[b] = call[b]
  BY <1>1 DEF Beginning, BeginSettle, BeginConfirm, BeginFail, BeginExecute
<1>q. QED
  BY <1>2, <1>3, <1>4, <1>5, <1>6 DEF Beginning

(* What locking a row does.                                                *)
LEMMA LockEffect ==
  ASSUME PayoutTypeOK, NEW c \in Sessions, Lock(c)
  PROVE  /\ UNCHANGED <<periodVars, settlement, payout, walletVars, moves>>
         /\ call' \in [Sessions -> Calls]
         /\ \A b \in Sessions \ {c} : call'[b] = call[b]
         /\ call'[c].kind = call[c].kind /\ call'[c].payout = call[c].payout
         /\ call'[c].settlement = call[c].settlement /\ call'[c].amount = call[c].amount
         /\ call[c].wants # <<>> /\ call'[c].wants = Tail(call[c].wants)
         /\ holder[Head(call[c].wants)] = Absent
         /\ holder' = [holder EXCEPT ![Head(call[c].wants)] = c]
         /\ Head(call[c].wants) \in Rows
<1>1. call[c] \in Calls /\ call \in [Sessions -> Calls]
  BY DEF PayoutTypeOK, Calls
<1>2. call[c].wants \in Seq(Rows) /\ call[c].wants # <<>>
  BY <1>1 DEF Lock, Calls
<1>3. Tail(call[c].wants) \in Seq(Rows) /\ Head(call[c].wants) \in Rows
  BY <1>2
<1>q. QED
  BY <1>1, <1>2, <1>3 DEF Lock, Calls, Free

(* What leaving does.                                                      *)
LEMMA LeaveEffect ==
  ASSUME PayoutTypeOK, NEW c \in Sessions, Leave(c)
  PROVE  /\ call' \in [Sessions -> Calls]
         /\ call'[c] = NoCall
         /\ \A b \in Sessions \ {c} : call'[b] = call[b]
         /\ holder' \in [Rows -> Sessions \cup {Absent}]
         /\ \A row \in Rows : holder'[row] = IF holder[row] = c THEN Absent ELSE holder[row]
BY IdleIsACall DEF PayoutTypeOK, Leave, Calls

-----------------------------------------------------------------------------
(* Sums.                                                                   *)

Amount == [p \in Payouts |-> payout[p].amount]
Initiated == {p \in Payouts : payout[p].status = "INITIATED"}
Transferred == {p \in Payouts : payout[p].status = "COMPLETED"}
Credit == [s \in Settlements |-> Greatest(0, settlement[s].net) - recovered[s]]

\* The two sums of MoneyAccountedFor, by these names.
Accounted ==
    /\ locked = withdrawals + SumFunctionOnSet(Amount, Initiated)
    /\ walletBalance = SumFunctionOnSet(Credit, Settlements)
                 - SumFunctionOnSet(Amount, Transferred)

(* They are the same.                                                      *)
LEMMA MoneyByName == MoneyAccountedFor <=> Accounted
<1>1. DOMAIN Credit = Settlements
  BY DEF Credit
<1>2. SumFunction([s \in Settlements |-> Greatest(0, settlement[s].net) - recovered[s]])
         = SumFunctionOnSet(Credit, Settlements)
  BY <1>1, Zenon DEF SumFunction, Credit
<1>q. QED
  BY <1>2, Zenon DEF MoneyAccountedFor, Accounted, SumOf, Amount, Initiated, Transferred

(* Amounts of any payouts add up to a number.                              *)
LEMMA AmountsAddUp ==
  ASSUME PayoutTypeOK, NEW P \in SUBSET Payouts
  PROVE  /\ \A p \in Payouts : Amount[p] \in Nat
         /\ IsFiniteSet(P)
         /\ SumFunctionOnSet(Amount, P) \in Nat
<1>1. \A p \in Payouts : Amount[p] \in Nat
  BY DEF PayoutTypeOK, PayoutRows, Amount
<1>2. IsFiniteSet(P)
  BY FiniteAssumption, FS_Subset
<1>3. SumFunctionOnSet(Amount, P) \in Nat
  <2> SUFFICES ASSUME NEW f, \A p \in P : f[p] \in Nat
               PROVE  SumFunctionOnSet(f, P) \in Nat
    BY <1>1
  <2>q. QED
    BY <1>2, SumOfPart
<1>q. QED
  BY <1>1, <1>2, <1>3

(* The amount of a payout in progress is part of what is held.             *)
LEMMA HeldInWallet ==
  ASSUME PayoutTypeOK, MoneyAccountedFor, NEW p \in Initiated
  PROVE  payout[p].amount <= locked
<1>1. /\ p \in Payouts /\ payout[p].amount = Amount[p]
      /\ Initiated \in SUBSET Payouts /\ Initiated \ {p} \in SUBSET Payouts
  BY DEF Initiated, Amount
<1>2. /\ SumFunctionOnSet(Amount, Initiated \ {p}) \in Nat
      /\ IsFiniteSet(Initiated) /\ \A q \in Initiated : Amount[q] \in Int
  BY <1>1, AmountsAddUp
<1>3. SumFunctionOnSet(Amount, Initiated)
         = Amount[p] + SumFunctionOnSet(Amount, Initiated \ {p})
  BY <1>2, SumOfElement
<1>4. locked = withdrawals + SumFunctionOnSet(Amount, Initiated) /\ withdrawals \in Nat
  BY MoneyByName, PayoutBoundAssumption DEF PayoutTypeOK, Accounted
<1>5. Amount[p] \in Nat
  BY <1>1, AmountsAddUp
<1>q. QED
  BY <1>1, <1>2, <1>3, <1>4, <1>5

-----------------------------------------------------------------------------
(* Types.                                                                  *)

(* Every step keeps the types.                                             *)
LEMMA PayoutTypeStep == PayoutIInv /\ PayoutStepping => PayoutTypeOK'
<1> SUFFICES ASSUME PayoutIInv, PayoutStepping PROVE PayoutTypeOK'
  OBVIOUS
<1>0. PayoutTypeOK /\ Booked /\ CallsKnown /\ MoneyAccountedFor
  BY DEF PayoutIInv
<1> USE PayoutBoundAssumption
<1> USE DEF periodVars, walletVars, lockVars
<1>1. CASE RequestWithdrawal
  BY <1>0, <1>1 DEF PayoutTypeOK, RequestWithdrawal
<1>2. ASSUME NEW s \in Settlements, ConfirmCash(s) PROVE PayoutTypeOK'
  BY <1>0, <1>2 DEF PayoutTypeOK, ConfirmCash
<1>3. ASSUME NEW s \in Settlements, NEW to \in Statuses, UpdateSettlementStatus(s, to)
      PROVE PayoutTypeOK'
  BY <1>0, <1>3 DEF PayoutTypeOK, SettlementRows, UpdateSettlementStatus
<1>4. ASSUME NEW c \in Sessions, Beginning(c) PROVE PayoutTypeOK'
  <2>1. /\ UNCHANGED <<periodVars, settlement, payout, walletVars, holder, moves>>
        /\ call' \in [Sessions -> Calls]
    BY <1>0, <1>4, BeginEffect
  <2>q. QED
    BY <1>0, <2>1 DEF PayoutTypeOK
<1>5. ASSUME NEW c \in Sessions, Lock(c) PROVE PayoutTypeOK'
  <2>1. /\ UNCHANGED <<periodVars, settlement, payout, walletVars, moves>>
        /\ call' \in [Sessions -> Calls]
        /\ holder' = [holder EXCEPT ![Head(call[c].wants)] = c]
    BY <1>0, <1>5, LockEffect
  <2>q. QED
    BY <1>0, <2>1 DEF PayoutTypeOK
<1>6. ASSUME NEW c \in Sessions, CreateSettlement(c) PROVE PayoutTypeOK'
  <2>1. call[c].settlement \in Settlements /\ call[c].amount \in Int /\ call[c].adjustments \in Int
    BY <1>0, <1>6 DEF PayoutTypeOK, Calls, CallsKnown, CreateSettlement
  <2>2. call' \in [Sessions -> Calls]
    BY <1>0, <1>6, IdleIsACall DEF PayoutTypeOK, CreateSettlement
  <2>3. settlement' \in [Settlements -> SettlementRows]
    BY <1>0, <1>6, <2>1 DEF PayoutTypeOK, SettlementRows, CreateSettlement, Statuses
  <2>4. walletBalance' \in Int
    BY <1>0, <1>6, <2>1 DEF PayoutTypeOK, CreateSettlement, Greatest
  <2>q. QED
    BY <1>0, <1>6, <2>2, <2>3, <2>4 DEF PayoutTypeOK, CreateSettlement
<1>7. ASSUME NEW c \in Sessions, Leave(c), payout' \in [Payouts -> PayoutRows],
             settlement' \in [Settlements -> SettlementRows],
             walletBalance' \in Int, locked' \in Nat, UNCHANGED <<periodVars, withdrawals, moves>>
      PROVE PayoutTypeOK'
  BY <1>0, <1>7, LeaveEffect DEF PayoutTypeOK
<1>8. ASSUME NEW c \in Sessions, ExecutePayout(c) PROVE PayoutTypeOK'
  <2>1. /\ call[c].payout \in Payouts /\ call[c].settlement \in Settlements
        /\ call[c].amount \in Nat
    BY <1>0, <1>8, AmountsArePositive DEF CallsKnown, ExecutePayout, Ready, Existing
  <2>q. QED
    BY <1>0, <1>7, <1>8, <2>1 DEF PayoutTypeOK, PayoutRows, ExecutePayout
<1>9. ASSUME NEW c \in Sessions, ConfirmPayout(c) \/ FailPayout(c) PROVE PayoutTypeOK'
  <2>1. call[c].payout \in Payouts /\ payout[call[c].payout].amount \in Nat
    BY <1>0, <1>9 DEF PayoutTypeOK, PayoutRows, CallsKnown, ConfirmPayout, FailPayout, Ready
  <2>2. payout[call[c].payout].status = "INITIATED"
    BY <1>9 DEF ConfirmPayout, FailPayout
  <2>3. payout[call[c].payout].amount <= locked
    BY <1>0, <2>1, <2>2, HeldInWallet DEF Initiated
  <2>4. locked' = locked - payout[call[c].payout].amount /\ locked' \in Nat
    BY <1>0, <1>9, <2>1, <2>3 DEF PayoutTypeOK, ConfirmPayout, FailPayout
  <2>5. CASE ConfirmPayout(c)
    <3>1. call[c].settlement \in Settlements
      BY <1>0, <2>1, <2>2, <2>5 DEF Booked, CallsKnown, Existing, ConfirmPayout, Ready
    <3>2. payout' \in [Payouts -> PayoutRows]
      BY <1>0, <2>1, <2>5 DEF PayoutTypeOK, PayoutRows, ConfirmPayout
    <3>3. settlement' \in [Settlements -> SettlementRows]
      BY <1>0, <2>5, <3>1 DEF PayoutTypeOK, SettlementRows, ConfirmPayout
    <3>4. /\ Leave(c) /\ UNCHANGED <<periodVars, withdrawals, moves>>
          /\ walletBalance' \in Int
      BY <1>0, <2>1, <2>5 DEF PayoutTypeOK, ConfirmPayout
    <3>q. QED
      BY <1>7, <2>4, <3>2, <3>3, <3>4
  <2>6. CASE FailPayout(c)
    <3>1. payout' \in [Payouts -> PayoutRows]
      BY <1>0, <2>1, <2>6 DEF PayoutTypeOK, PayoutRows, FailPayout
    <3>2. /\ Leave(c) /\ UNCHANGED <<periodVars, settlement, walletBalance, withdrawals, moves>>
          /\ walletBalance \in Int
          /\ settlement \in [Settlements -> SettlementRows]
      BY <1>0, <2>6 DEF PayoutTypeOK, FailPayout
    <3>q. QED
      BY <1>7, <2>4, <3>1, <3>2
  <2>q. QED
    BY <1>9, <2>5, <2>6
<1>10. ASSUME NEW c \in Sessions, RollBack(c) PROVE PayoutTypeOK'
  <2>1. /\ Leave(c) /\ UNCHANGED <<periodVars, settlement, payout, walletVars, moves>>
        /\ payout \in [Payouts -> PayoutRows] /\ settlement \in [Settlements -> SettlementRows]
        /\ walletBalance \in Int /\ locked \in Nat
    BY <1>0, <1>10 DEF PayoutTypeOK, RollBack
  <2>q. QED
    BY <1>7, <2>1
<1>q. QED
  BY <1>1, <1>2, <1>3, <1>4, <1>5, <1>6, <1>8, <1>9, <1>10 DEF PayoutStepping

-----------------------------------------------------------------------------
(* Rows that calls are about.                                              *)

\* Settlements stay, and payouts stay with their settlement.
Staying ==
    /\ \A s \in Settlements : s \in Existing => s \in Existing'
    /\ \A p \in Payouts : payout[p].status # "none" =>
           /\ payout'[p].status # "none"
           /\ payout'[p].of = payout[p].of

\* What a step does to calls and locks.
CallStep ==
    \/ UNCHANGED <<call, holder>>
    \/ \E c \in Sessions :
           /\ \A b \in Sessions \ {c} : call'[b] = call[b]
           /\ \/ /\ call[c] = NoCall
                 /\ Begun(c)'
                 /\ UNCHANGED holder
              \/ /\ call'[c].kind = call[c].kind /\ call'[c].payout = call[c].payout
                 /\ call'[c].settlement = call[c].settlement
                 /\ call'[c].amount = call[c].amount
                 /\ call[c].wants # <<>> /\ call'[c].wants = Tail(call[c].wants)
                 /\ Head(call[c].wants) \in Rows
                 /\ holder[Head(call[c].wants)] = Absent
                 /\ holder' = [holder EXCEPT ![Head(call[c].wants)] = c]
              \/ /\ call'[c] = NoCall
                 /\ \A row \in Rows :
                        holder'[row] = IF holder[row] = c THEN Absent ELSE holder[row]

(* Rows stay, whatever the step.                                           *)
LEMMA RowsStay == PayoutIInv /\ PayoutStepping => Staying
<1> SUFFICES ASSUME PayoutIInv, PayoutStepping PROVE Staying
  OBVIOUS
<1>0. PayoutTypeOK /\ CallsKnown /\ Booked
  BY DEF PayoutIInv
<1>1. settlement \in [Settlements -> SettlementRows] /\ payout \in [Payouts -> PayoutRows]
  BY <1>0 DEF PayoutTypeOK
<1> USE DEF periodVars, walletVars, lockVars
<1>2. CASE UNCHANGED <<settlement, payout>>
  BY <1>2 DEF Staying, Existing
<1>3. ASSUME NEW s \in Settlements, NEW to \in Statuses, UpdateSettlementStatus(s, to)
      PROVE  Staying
  BY <1>1, <1>3 DEF Staying, Existing, UpdateSettlementStatus, Statuses, SettlementRows
<1>4. ASSUME NEW c \in Sessions, CreateSettlement(c) PROVE Staying
  BY <1>1, <1>4 DEF Staying, Existing, CreateSettlement, SettlementRows
<1>5. ASSUME NEW c \in Sessions, ExecutePayout(c) PROVE Staying
  BY <1>1, <1>5 DEF Staying, Existing, ExecutePayout, PayoutRows
<1>6. ASSUME NEW c \in Sessions, ConfirmPayout(c) PROVE Staying
  BY <1>1, <1>6 DEF Staying, Existing, ConfirmPayout, PayoutRows, SettlementRows
<1>7. ASSUME NEW c \in Sessions, FailPayout(c) PROVE Staying
  BY <1>1, <1>7 DEF Staying, Existing, FailPayout, PayoutRows
<1>8. CASE \/ RequestWithdrawal
           \/ \E s \in Settlements : ConfirmCash(s)
           \/ \E c \in Sessions : Beginning(c)
           \/ \E c \in Sessions : Lock(c)
           \/ \E c \in Sessions : RollBack(c)
  <2>1. UNCHANGED <<settlement, payout>>
    BY <1>8 DEF RequestWithdrawal, ConfirmCash, Beginning, BeginSettle, BeginConfirm,
                BeginFail, BeginExecute, Lock, RollBack
  <2>q. QED
    BY <1>2, <2>1
<1>q. QED
  BY <1>3, <1>4, <1>5, <1>6, <1>7, <1>8 DEF PayoutStepping

(* Payouts stay booked.                                                    *)
LEMMA BookedStep == PayoutIInv /\ PayoutStepping => Booked'
<1> SUFFICES ASSUME PayoutIInv, PayoutStepping PROVE Booked'
  OBVIOUS
<1>0. PayoutTypeOK /\ Booked /\ CallsKnown /\ Staying
  BY RowsStay DEF PayoutIInv
<1>1. payout \in [Payouts -> PayoutRows]
  BY <1>0 DEF PayoutTypeOK
<1> USE DEF periodVars, walletVars, lockVars
<1>2. ASSUME \A p \in Payouts : payout[p].status # "none" \/ payout'[p] = payout[p]
      PROVE  Booked'
  BY <1>0, <1>2 DEF Booked, Staying, Existing
<1>3. ASSUME NEW c \in Sessions, ExecutePayout(c) PROVE Booked'
  <2>1. call[c].payout \in Payouts /\ call[c].settlement \in Existing
    BY <1>0, <1>3 DEF CallsKnown, ExecutePayout, Ready
  <2>2. call[c].settlement \in Existing'
    BY <1>0, <2>1 DEF Staying, Existing
  <2>3. payout' = [payout EXCEPT ![call[c].payout] =
            [status |-> "INITIATED", of |-> call[c].settlement, amount |-> call[c].amount]]
    BY <1>3 DEF ExecutePayout
  <2>4. \A p \in Payouts : payout[p].status # "none" => payout[p].of \in Existing'
    BY <1>0 DEF Booked, Staying, Existing
  <2> SUFFICES ASSUME NEW p \in Payouts
               PROVE  /\ payout'[p].status = "none" => payout'[p] = NoPayout
                      /\ payout'[p].status # "none" => payout'[p].of \in Existing'
    BY Zenon DEF Booked
  <2>5. CASE p = call[c].payout
    BY <1>1, <2>1, <2>2, <2>3, <2>5
  <2>6. CASE p # call[c].payout
    BY <1>0, <1>1, <2>1, <2>3, <2>4, <2>6 DEF Booked
  <2>q. QED
    BY <2>5, <2>6
<1>4. ASSUME NEW c \in Sessions, ConfirmPayout(c) \/ FailPayout(c) PROVE Booked'
  <2>1. \A p \in Payouts : payout[p].status # "none" \/ payout'[p] = payout[p]
    BY <1>1, <1>4 DEF ConfirmPayout, FailPayout
  <2>q. QED
    BY <1>2, <2>1
<1>5. CASE UNCHANGED payout
  BY <1>2, <1>5
<1>q. QED
  BY <1>3, <1>4, <1>5
  DEF PayoutStepping, RequestWithdrawal, ConfirmCash, UpdateSettlementStatus, Beginning, BeginSettle,
      BeginConfirm, BeginFail, BeginExecute, Lock, CreateSettlement, RollBack

(* A settlement that was not calculated still holds no figures.            *)
LEMMA EmptyStep == PayoutIInv /\ PayoutStepping => Empty'
<1> SUFFICES ASSUME PayoutIInv, PayoutStepping PROVE Empty'
  OBVIOUS
<1>0. PayoutTypeOK /\ Empty /\ CallsKnown
  BY DEF PayoutIInv
<1>1. settlement \in [Settlements -> SettlementRows]
  BY <1>0 DEF PayoutTypeOK
<1> USE DEF periodVars, walletVars, lockVars
<1>2. ASSUME NEW s \in Settlements, NEW to \in Statuses, UpdateSettlementStatus(s, to)
      PROVE  Empty'
  BY <1>0, <1>1, <1>2 DEF Empty, UpdateSettlementStatus, Statuses, SettlementRows
<1>3. ASSUME NEW c \in Sessions, CreateSettlement(c) PROVE Empty'
  BY <1>0, <1>1, <1>3 DEF Empty, CreateSettlement, SettlementRows
<1>4. ASSUME NEW c \in Sessions, ConfirmPayout(c) PROVE Empty'
  <2>1. call[c].settlement \in Existing
    <3>1. /\ call[c].payout \in Payouts /\ payout[call[c].payout].status # "none"
          /\ call[c].settlement = payout[call[c].payout].of
      BY <1>0, <1>4 DEF CallsKnown, ConfirmPayout, Ready
    <3>q. QED
      BY <3>1 DEF PayoutIInv, Booked
  <2>2. \A s \in Settlements : settlement[s].status # "none" \/ settlement'[s] = settlement[s]
    BY <1>1, <1>4, <2>1 DEF ConfirmPayout, Existing
  <2>3. \A s \in Settlements : settlement[s].status # "none" => settlement'[s].status # "none"
    BY RowsStay DEF Staying, Existing
  <2>q. QED
    BY <1>0, <2>2, <2>3 DEF Empty
<1>5. CASE UNCHANGED settlement
  BY <1>0, <1>5 DEF Empty
<1>q. QED
  BY <1>2, <1>3, <1>4, <1>5
  DEF PayoutStepping, RequestWithdrawal, ConfirmCash, Beginning, BeginSettle, BeginConfirm,
      BeginFail, BeginExecute, Lock, ExecutePayout, FailPayout, RollBack

-----------------------------------------------------------------------------
(* Calls and locks.                                                        *)

(* Every step is one of the kinds of CallStep.                             *)
LEMMA CallsStep == PayoutIInv /\ PayoutStepping => CallStep
<1> SUFFICES ASSUME PayoutIInv, PayoutStepping PROVE CallStep
  OBVIOUS
<1>0. PayoutTypeOK /\ Booked /\ CallsKnown /\ LocksInOrder
  BY DEF PayoutIInv
<1> USE DEF periodVars, walletVars, lockVars
<1>1. CASE UNCHANGED <<call, holder>>
  BY <1>1 DEF CallStep
<1>2. ASSUME NEW c \in Sessions, Beginning(c) PROVE CallStep
  <2>1. /\ call[c] = NoCall /\ Begun(c)' /\ UNCHANGED holder
        /\ \A b \in Sessions \ {c} : call'[b] = call[b]
    BY <1>0, <1>2, BeginEffect
  <2>q. QED
    BY <2>1, Zenon DEF CallStep
<1>3. ASSUME NEW c \in Sessions, Lock(c) PROVE CallStep
  BY <1>0, <1>3, LockEffect DEF CallStep
<1>4. ASSUME NEW c \in Sessions, Leave(c) PROVE CallStep
  BY <1>0, <1>4, LeaveEffect DEF CallStep
<1>5. ASSUME NEW c \in Sessions, CreateSettlement(c) PROVE CallStep
  <2>1. Holds(c) = {}
    BY <1>0, <1>5 DEF LocksInOrder, InOrder, CreateSettlement
  <2>2. \A row \in Rows : holder'[row] = IF holder[row] = c THEN Absent ELSE holder[row]
    BY <1>5, <2>1 DEF Holds, CreateSettlement
  <2>3. call'[c] = NoCall /\ \A b \in Sessions \ {c} : call'[b] = call[b]
    BY <1>0, <1>5 DEF PayoutTypeOK, CreateSettlement
  <2>q. QED
    BY <2>2, <2>3 DEF CallStep
<1>q. QED
  BY <1>1, <1>2, <1>3, <1>4, <1>5
  DEF PayoutStepping, RequestWithdrawal, ConfirmCash, UpdateSettlementStatus,
      ExecutePayout, ConfirmPayout, FailPayout, RollBack

(* Calls are still about rows that exist.                                  *)
LEMMA CallsKnownStep == PayoutIInv /\ PayoutStepping => CallsKnown'
<1> SUFFICES ASSUME PayoutIInv, PayoutStepping PROVE CallsKnown'
  OBVIOUS
<1>0. CallsKnown /\ Staying /\ CallStep
  BY RowsStay, CallsStep DEF PayoutIInv
<1> DEFINE KnownCall(c) ==
      /\ call[c].kind = "settle" => call[c].settlement \in Settlements
      /\ call[c].kind = "execute" =>
             /\ call[c].payout \in Payouts /\ call[c].settlement \in Existing
             /\ call[c].amount \in PayoutAmounts
      /\ call[c].kind \in {"confirm", "fail"} =>
             /\ call[c].payout \in Payouts
             /\ payout[call[c].payout].status # "none"
      /\ call[c].kind = "confirm" => call[c].settlement = payout[call[c].payout].of
<1>1. \A c \in Sessions : KnownCall(c)
  BY <1>0, Zenon DEF CallsKnown
<1> SUFFICES ASSUME NEW b \in Sessions PROVE KnownCall(b)'
  BY Zenon DEF CallsKnown
<1>2. ASSUME call'[b].kind = call[b].kind, call'[b].payout = call[b].payout,
             call'[b].settlement = call[b].settlement, call'[b].amount = call[b].amount
      PROVE  KnownCall(b)'
  BY <1>0, <1>1, <1>2 DEF Staying, Existing
<1>3. CASE call'[b] = NoCall
  BY <1>3 DEF NoCall
<1>4. CASE Begun(b)'
  BY <1>4 DEF Begun
<1>q. QED
  BY <1>0, <1>2, <1>3, <1>4 DEF CallStep

(* Calls still lock in order.                                              *)
LEMMA LocksStep == PayoutIInv /\ PayoutStepping => LocksInOrder'
<1> SUFFICES ASSUME PayoutIInv, PayoutStepping PROVE LocksInOrder'
  OBVIOUS
<1>0. PayoutTypeOK /\ Booked /\ CallsKnown /\ LocksInOrder /\ CallStep /\ Staying
  BY CallsStep, RowsStay DEF PayoutIInv
<1>1. holder \in [Rows -> Sessions \cup {Absent}]
  BY <1>0 DEF PayoutTypeOK
<1>2. ASSUME NEW b \in Sessions, Holds(b)' = Holds(b), call'[b] = call[b]
      PROVE  InOrder(b)'
  BY <1>0, <1>2 DEF LocksInOrder, InOrder
<1>3. CASE UNCHANGED <<call, holder>>
  BY <1>2, <1>3 DEF Holds, LocksInOrder
<1>4. ASSUME NEW c \in Sessions, \A b \in Sessions \ {c} : call'[b] = call[b],
             \A b \in Sessions \ {c} : Holds(b)' = Holds(b), InOrder(c)'
      PROVE  LocksInOrder'
  BY <1>2, <1>4 DEF LocksInOrder
<1>5. ASSUME NEW c \in Sessions, \A b \in Sessions \ {c} : call'[b] = call[b],
             call[c] = NoCall, Begun(c)', UNCHANGED holder
      PROVE  LocksInOrder'
  <2>1. Holds(c) = {} /\ \A b \in Sessions : Holds(b)' = Holds(b)
    BY <1>0, <1>5 DEF LocksInOrder, InOrder, NoCall, Holds
  <2>2. InOrder(c)'
    BY <1>5, <2>1 DEF InOrder, Begun
  <2>q. QED
    BY <1>4, <1>5, <2>1, <2>2
<1>6. ASSUME NEW c \in Sessions, \A b \in Sessions \ {c} : call'[b] = call[b],
             call'[c].kind = call[c].kind, call'[c].payout = call[c].payout,
             call'[c].settlement = call[c].settlement,
             call[c].wants # <<>>, call'[c].wants = Tail(call[c].wants),
             Head(call[c].wants) \in Rows, holder[Head(call[c].wants)] = Absent,
             holder' = [holder EXCEPT ![Head(call[c].wants)] = c]
      PROVE  LocksInOrder'
  <2>1. /\ Holds(c)' = Holds(c) \cup {Head(call[c].wants)}
        /\ \A b \in Sessions \ {c} : Holds(b)' = Holds(b)
    BY <1>1, <1>6, AbsentAssumption DEF Holds
  <2>2. InOrder(c)'
    <3> DEFINE wants == call[c].wants
               p == call[c].payout
               s == call[c].settlement
    <3>1. \A x, y, z : /\ Head(<<x>>) = x /\ Tail(<<x>>) = <<>>
                       /\ Head(<<x, y>>) = x /\ Tail(<<x, y>>) = <<y>>
                       /\ Head(<<x, y, z>>) = x /\ Tail(<<x, y, z>>) = <<y, z>>
      OBVIOUS
    <3>2. InOrder(c)
      BY <1>0 DEF LocksInOrder
    <3>3. /\ call[c].kind \in {"none", "settle", "execute", "confirm", "fail"}
          /\ call[c].kind \notin {"none", "settle"}
      BY <1>0, <1>6, <3>2 DEF PayoutTypeOK, Calls, InOrder
    <3>n. /\ call'[c].kind = call[c].kind /\ call'[c].payout = p /\ call'[c].settlement = s
      BY <1>6
    <3> HIDE DEF p, s
    <3>4. CASE call[c].kind = "execute"
      <4>1. CASE wants = <<s, "wallet">> /\ Holds(c) = {}
        <5>1. call'[c].wants = <<"wallet">> /\ Holds(c)' = {s}
          BY <1>6, <2>1, <3>1, <4>1
        <5>q. QED
          BY <3>n, <3>4, <5>1 DEF InOrder, p, s
      <4>2. CASE wants = <<"wallet">> /\ Holds(c) = {s}
        <5>1. call'[c].wants = <<>> /\ Holds(c)' = {s, "wallet"}
          BY <1>6, <2>1, <3>1, <4>2
        <5>q. QED
          BY <3>n, <3>4, <5>1 DEF InOrder, p, s
      <4>q. QED
        BY <1>6, <3>2, <3>4, <4>1, <4>2 DEF InOrder, p, s
    <3>5. CASE call[c].kind = "confirm"
      <4>1. CASE wants = <<p, s, "wallet">> /\ Holds(c) = {}
        <5>1. call'[c].wants = <<s, "wallet">> /\ Holds(c)' = {p}
          BY <1>6, <2>1, <3>1, <4>1
        <5>q. QED
          BY <3>n, <3>5, <5>1 DEF InOrder, p, s
      <4>2. CASE wants = <<s, "wallet">> /\ Holds(c) = {p}
        <5>1. call'[c].wants = <<"wallet">> /\ Holds(c)' = {p, s}
          BY <1>6, <2>1, <3>1, <4>2
        <5>q. QED
          BY <3>n, <3>5, <5>1 DEF InOrder, p, s
      <4>3. CASE wants = <<"wallet">> /\ Holds(c) = {p, s}
        <5>1. call'[c].wants = <<>> /\ Holds(c)' = {p, s, "wallet"}
          BY <1>6, <2>1, <3>1, <4>3
        <5>q. QED
          BY <3>n, <3>5, <5>1 DEF InOrder, p, s
      <4>q. QED
        BY <1>6, <3>2, <3>5, <4>1, <4>2, <4>3 DEF InOrder, p, s
    <3>6. CASE call[c].kind = "fail"
      <4>1. CASE wants = <<p, "wallet">> /\ Holds(c) = {}
        <5>1. call'[c].wants = <<"wallet">> /\ Holds(c)' = {p}
          BY <1>6, <2>1, <3>1, <4>1
        <5>q. QED
          BY <3>n, <3>6, <5>1 DEF InOrder, p, s
      <4>2. CASE wants = <<"wallet">> /\ Holds(c) = {p}
        <5>1. call'[c].wants = <<>> /\ Holds(c)' = {p, "wallet"}
          BY <1>6, <2>1, <3>1, <4>2
        <5>q. QED
          BY <3>n, <3>6, <5>1 DEF InOrder, p, s
      <4>q. QED
        BY <1>6, <3>2, <3>6, <4>1, <4>2 DEF InOrder, p, s
    <3>q. QED
      BY <3>3, <3>4, <3>5, <3>6
  <2>q. QED
    BY <1>4, <1>6, <2>1, <2>2
<1>7. ASSUME NEW c \in Sessions, \A b \in Sessions \ {c} : call'[b] = call[b],
             call'[c] = NoCall,
             \A row \in Rows : holder'[row] = IF holder[row] = c THEN Absent ELSE holder[row]
      PROVE  LocksInOrder'
  <2>1. Holds(c)' = {} /\ \A b \in Sessions \ {c} : Holds(b)' = Holds(b)
    BY <1>1, <1>7, AbsentAssumption DEF Holds
  <2>2. InOrder(c)'
    BY <1>7, <2>1 DEF InOrder, NoCall
  <2>q. QED
    BY <1>4, <1>7, <2>1, <2>2
<1>q. QED
  BY <1>0, <1>3, <1>5, <1>6, <1>7 DEF CallStep

-----------------------------------------------------------------------------
(* The money.                                                              *)

(* What settlements brought is a number.                                   *)
LEMMA CreditAddsUp ==
  ASSUME PayoutTypeOK
  PROVE  /\ \A s \in Settlements : Credit[s] \in Int
         /\ SumFunctionOnSet(Credit, Settlements) \in Int
<1>1. \A s \in Settlements : Credit[s] \in Int
  BY DEF PayoutTypeOK, SettlementRows, Credit, Greatest
<1>q. QED
  BY <1>1, FiniteAssumption, SumType

(* They are the same after a step too.                                     *)
LEMMA MoneyByNameNext == MoneyAccountedFor' <=> Accounted'
BY MoneyByName, PTL

(* A payout that ends leaves those in progress, with its amount.           *)
LEMMA AfterEnd ==
  ASSUME PayoutTypeOK, NEW p \in Initiated, NEW end \in {"COMPLETED", "FAILED"},
         payout' = [payout EXCEPT ![p].status = end]
  PROVE  /\ Amount' = Amount
         /\ SumFunctionOnSet(Amount, Initiated)' =
                SumFunctionOnSet(Amount, Initiated) - payout[p].amount
         /\ SumFunctionOnSet(Amount, Transferred)' =
                SumFunctionOnSet(Amount, Transferred)
                + (IF end = "COMPLETED" THEN payout[p].amount ELSE 0)
<1>0. payout \in [Payouts -> PayoutRows] /\ p \in Payouts /\ payout[p].status = "INITIATED"
  BY DEF PayoutTypeOK, Initiated
<1>1. /\ Amount' = Amount /\ Amount[p] = payout[p].amount
      /\ Initiated \in SUBSET Payouts /\ Transferred \in SUBSET Payouts
      /\ p \notin Transferred
  BY <1>0 DEF Amount, Initiated, Transferred
<1>2. /\ \A q \in Payouts : Amount[q] \in Int
      /\ IsFiniteSet(Initiated) /\ IsFiniteSet(Transferred)
      /\ SumFunctionOnSet(Amount, Initiated) \in Int
      /\ SumFunctionOnSet(Amount, Initiated \ {p}) \in Int
      /\ SumFunctionOnSet(Amount, Transferred) \in Int
  BY <1>1, AmountsAddUp
<1>3. Initiated' = Initiated \ {p}
  BY <1>0 DEF Initiated
<1>4. Transferred' = IF end = "COMPLETED" THEN Transferred \cup {p} ELSE Transferred
  BY <1>0 DEF Transferred
<1>5. SumFunctionOnSet(Amount, Initiated)
         = Amount[p] + SumFunctionOnSet(Amount, Initiated \ {p})
  BY <1>1, <1>2, SumOfElement
<1>6. SumFunctionOnSet(Amount, Transferred \cup {p})
         = SumFunctionOnSet(Amount, Transferred) + Amount[p]
  BY <1>1, <1>2, SumWithElement
<1>7. SumFunctionOnSet(Amount, Initiated)' = SumFunctionOnSet(Amount, Initiated \ {p})
  BY <1>1, <1>3, Zenon
<1>8. CASE end = "COMPLETED"
  <2>1. Transferred' = Transferred \cup {p}
    BY <1>4, <1>8
  <2>2. SumFunctionOnSet(Amount, Transferred)' = SumFunctionOnSet(Amount, Transferred \cup {p})
    BY <1>1, <2>1, Zenon
  <2>q. QED
    BY <1>0, <1>1, <1>2, <1>5, <1>6, <1>7, <1>8, <2>2
<1>9. CASE end # "COMPLETED"
  <2>1. Transferred' = Transferred
    BY <1>4, <1>9
  <2>2. SumFunctionOnSet(Amount, Transferred)' = SumFunctionOnSet(Amount, Transferred)
    BY <1>1, <2>1, Zenon
  <2>q. QED
    BY <1>0, <1>1, <1>2, <1>5, <1>7, <1>9, <2>2
<1>q. QED
  BY <1>8, <1>9

(* A payout that is made joins those in progress, with its amount.         *)
LEMMA AfterExecute ==
  ASSUME PayoutTypeOK, NEW p \in Payouts, payout[p].status = "none",
         NEW s \in Settlements, NEW a \in Nat,
         payout' = [payout EXCEPT ![p] = [status |-> "INITIATED", of |-> s, amount |-> a]]
  PROVE  /\ SumFunctionOnSet(Amount, Initiated)' = SumFunctionOnSet(Amount, Initiated) + a
         /\ \A P \in SUBSET (Payouts \ {p}) :
               SumFunctionOnSet(Amount', P) = SumFunctionOnSet(Amount, P)
         /\ Transferred' = Transferred /\ p \notin Transferred
<1>0. payout \in [Payouts -> PayoutRows]
  BY DEF PayoutTypeOK
<1>1. /\ \A q \in Payouts \ {p} : Amount'[q] = Amount[q]
      /\ Amount'[p] = a
  BY <1>0 DEF Amount
<1>2. Initiated' = Initiated \cup {p} /\ p \notin Initiated /\ Initiated \in SUBSET (Payouts \ {p})
  BY <1>0 DEF Initiated
<1>3. Transferred' = Transferred /\ p \notin Transferred
  BY <1>0 DEF Transferred
<1>4. \A q \in Payouts : Amount[q] \in Int
  BY AmountsAddUp
<1>5. ASSUME NEW P \in SUBSET (Payouts \ {p})
      PROVE  SumFunctionOnSet(Amount', P) = SumFunctionOnSet(Amount, P)
  <2>1. IsFiniteSet(P)
    BY FiniteAssumption, FS_Subset
  <2>q. QED
    BY <1>1, <1>4, <2>1, SumOfEqual
<1>6. SumFunctionOnSet(Amount', Initiated \cup {p}) = SumFunctionOnSet(Amount', Initiated) + a
  <2> DEFINE g == Amount'
  <2>1. IsFiniteSet(Initiated) /\ \A q \in Initiated \cup {p} : g[q] \in Int
    BY <1>1, <1>2, <1>4, FiniteAssumption, FS_Subset
  <2>2. g[p] = a
    BY <1>1
  <2> HIDE DEF g
  <2>3. SumFunctionOnSet(g, Initiated \cup {p}) = SumFunctionOnSet(g, Initiated) + g[p]
    BY <1>2, <2>1, SumWithElement
  <2>4. SumFunctionOnSet(g, Initiated \cup {p}) = SumFunctionOnSet(g, Initiated) + a
    BY <2>2, <2>3, Zenon
  <2>q. QED
    BY <2>4, Zenon DEF g
<1>7. SumFunctionOnSet(Amount, Initiated)' = SumFunctionOnSet(Amount', Initiated \cup {p})
  BY <1>2, Zenon
<1>8. SumFunctionOnSet(Amount', Initiated) = SumFunctionOnSet(Amount, Initiated)
  BY <1>2, <1>5
<1>9. SumFunctionOnSet(Amount, Initiated)' = SumFunctionOnSet(Amount, Initiated) + a
  BY <1>6, <1>7, <1>8, Zenon
<1>q. QED
  BY <1>3, <1>5, <1>9, Zenon

(* Settlements that keep their figures brought the same.                   *)
LEMMA CreditStays ==
  ASSUME PayoutTypeOK, recovered' = recovered,
         \A s \in Settlements : settlement'[s].net = settlement[s].net
  PROVE  Credit' = Credit
BY DEF Credit

(* One settlement that changes moves the sum by its difference.            *)
LEMMA CreditChanges ==
  ASSUME PayoutTypeOK, PayoutTypeOK', NEW s \in Settlements,
         \A t \in Settlements \ {s} : /\ recovered'[t] = recovered[t]
                                      /\ settlement'[t].net = settlement[t].net
  PROVE  SumFunctionOnSet(Credit, Settlements)' =
             SumFunctionOnSet(Credit, Settlements) + (Credit'[s] - Credit[s])
<1> DEFINE g == Credit'
<1>1. \A t \in Settlements \ {s} : g[t] = Credit[t]
  BY DEF Credit
<1>2. \A t \in Settlements : Credit[t] \in Int
  BY CreditAddsUp
<1>3. \A t \in Settlements : g[t] \in Int
  BY DEF PayoutTypeOK, SettlementRows, Credit, Greatest
<1> HIDE DEF g
<1>4. SumFunctionOnSet(g, Settlements) =
          SumFunctionOnSet(Credit, Settlements) + (IF s \in Settlements THEN g[s] - Credit[s] ELSE 0)
  BY <1>1, <1>2, <1>3, FiniteAssumption, SumOfChanged
<1>5. SumFunctionOnSet(g, Settlements) =
          SumFunctionOnSet(Credit, Settlements) + (g[s] - Credit[s])
  BY <1>4
<1>q. QED
  BY <1>5, Zenon DEF g

(* The money stays accounted for.                                          *)
LEMMA MoneyStep == PayoutIInv /\ PayoutTypeOK' /\ PayoutStepping => MoneyAccountedFor'
<1> SUFFICES ASSUME PayoutIInv, PayoutTypeOK', PayoutStepping PROVE MoneyAccountedFor'
  OBVIOUS
<1> DEFINE held == SumFunctionOnSet(Amount, Initiated)
           transferred == SumFunctionOnSet(Amount, Transferred)
           brought == SumFunctionOnSet(Credit, Settlements)
<1>0. PayoutTypeOK /\ Booked /\ Empty /\ CallsKnown
  BY DEF PayoutIInv
<1>1. /\ settlement \in [Settlements -> SettlementRows]
      /\ recovered \in [Settlements -> 0..1]
      /\ walletBalance \in Int /\ locked \in Nat /\ withdrawals \in Nat
  BY <1>0, PayoutBoundAssumption DEF PayoutTypeOK
<1>2. held \in Int /\ transferred \in Int /\ brought \in Int
  <2>1. Initiated \in SUBSET Payouts /\ Transferred \in SUBSET Payouts
    BY DEF Initiated, Transferred
  <2>q. QED
    BY <1>0, <2>1, AmountsAddUp, CreditAddsUp
<1>3. locked = withdrawals + held /\ walletBalance = brought - transferred
  BY MoneyByName DEF PayoutIInv, Accounted
<1>4. SUFFICES locked' = withdrawals' + held' /\ walletBalance' = brought' - transferred'
  BY MoneyByNameNext DEF Accounted
<1> USE DEF periodVars, walletVars, lockVars
<1>5. ASSUME payout' = payout PROVE held' = held /\ transferred' = transferred
  BY <1>5 DEF Amount, Initiated, Transferred
<1>6. ASSUME Credit' = Credit PROVE brought' = brought
  BY <1>6
<1>7. ASSUME UNCHANGED <<recovered, settlement>> PROVE brought' = brought
  BY <1>7 DEF Credit
<1> HIDE DEF held, transferred, brought
<1>8. CASE UNCHANGED <<periodVars, settlement, payout, walletVars>>
  BY <1>3, <1>5, <1>7, <1>8
<1>9. CASE RequestWithdrawal
  BY <1>1, <1>2, <1>3, <1>5, <1>7, <1>9 DEF RequestWithdrawal
<1>10. ASSUME NEW s \in Settlements, ConfirmCash(s)
       PROVE  locked' = withdrawals' + held' /\ walletBalance' = brought' - transferred'
  <2>1. recovered' = [recovered EXCEPT ![s] = @ + 1] /\ UNCHANGED <<settlement, payout, locked, withdrawals>>
        /\ walletBalance' = walletBalance - 1
    BY <1>10 DEF ConfirmCash
  <2>2. brought' = brought + (Credit'[s] - Credit[s])
    BY <1>0, <1>1, <2>1, CreditChanges DEF brought
  <2>3. Credit'[s] - Credit[s] = -1
    <3>1. Greatest(0, settlement[s].net) \in Int /\ recovered[s] \in Int
      BY <1>1 DEF SettlementRows, Greatest
    <3>2. /\ Credit[s] = Greatest(0, settlement[s].net) - recovered[s]
          /\ Credit'[s] = Greatest(0, settlement[s].net) - (recovered[s] + 1)
      BY <1>1, <2>1 DEF Credit
    <3>q. QED
      BY <3>1, <3>2
  <2>q. QED
    BY <1>1, <1>2, <1>3, <1>5, <2>1, <2>2, <2>3
<1>11. ASSUME NEW s \in Settlements, NEW to \in Statuses, UpdateSettlementStatus(s, to)
       PROVE  locked' = withdrawals' + held' /\ walletBalance' = brought' - transferred'
  <2>1. /\ \A t \in Settlements : settlement'[t].net = settlement[t].net
        /\ UNCHANGED <<recovered, payout, walletVars>>
    BY <1>1, <1>11 DEF UpdateSettlementStatus, SettlementRows
  <2>2. Credit' = Credit
    BY <1>0, <2>1, CreditStays
  <2>q. QED
    BY <1>3, <1>5, <1>6, <2>1, <2>2
<1>12. ASSUME NEW c \in Sessions, CreateSettlement(c)
       PROVE  locked' = withdrawals' + held' /\ walletBalance' = brought' - transferred'
  <2> DEFINE s == call[c].settlement
             net == call[c].amount + call[c].adjustments
  <2>1. s \in Settlements /\ net \in Int
    BY <1>0, <1>12 DEF PayoutTypeOK, Calls, CallsKnown, CreateSettlement
  <2>2. settlement[s] = Unsettled
    BY <1>0, <1>12, <2>1 DEF Empty, CreateSettlement
  <2>3. /\ settlement' = [settlement EXCEPT ![s] =
               [status |-> "PENDING", net |-> net, adjustments |-> call[c].adjustments]]
        /\ walletBalance' = walletBalance + Greatest(0, net)
        /\ UNCHANGED <<recovered, payout, locked, withdrawals>>
    BY <1>12 DEF CreateSettlement
  <2> HIDE DEF s, net
  <2>4. \A t \in Settlements \ {s} : recovered'[t] = recovered[t] /\ settlement'[t].net = settlement[t].net
    BY <1>1, <2>1, <2>3
  <2>5. brought' = brought + (Credit'[s] - Credit[s])
    BY <1>0, <2>1, <2>4, CreditChanges DEF brought
  <2>6. Credit'[s] - Credit[s] = Greatest(0, net)
    <3>1. /\ Credit[s] = Greatest(0, 0) - recovered[s]
          /\ Credit'[s] = Greatest(0, net) - recovered[s]
      BY <1>1, <2>1, <2>2, <2>3 DEF Credit, Unsettled
    <3>2. Greatest(0, net) \in Int /\ recovered[s] \in Int /\ Greatest(0, 0) = 0
      BY <1>1, <2>1 DEF Greatest
    <3>q. QED
      BY <3>1, <3>2
  <2>7. Greatest(0, net) \in Int
    BY <2>1 DEF Greatest
  <2>q. QED
    BY <1>1, <1>2, <1>3, <1>5, <2>3, <2>5, <2>6, <2>7
<1>13. ASSUME NEW c \in Sessions, ExecutePayout(c)
       PROVE  locked' = withdrawals' + held' /\ walletBalance' = brought' - transferred'
  <2> DEFINE p == call[c].payout
             s == call[c].settlement
             a == call[c].amount
  <2>1. /\ p \in Payouts /\ s \in Settlements /\ a \in Nat /\ payout[p].status = "none"
        /\ payout' = [payout EXCEPT ![p] = [status |-> "INITIATED", of |-> s, amount |-> a]]
        /\ locked' = locked + a /\ UNCHANGED <<recovered, settlement, walletBalance, withdrawals>>
    BY <1>0, <1>13, AmountsArePositive DEF CallsKnown, ExecutePayout, Ready, Existing
  <2> HIDE DEF p, s, a
  <2>2. held' = held + a
    BY <1>0, <2>1, AfterExecute DEF held
  <2>3. Transferred' = Transferred /\ Transferred \in SUBSET (Payouts \ {p})
    <3>1. Transferred \in SUBSET Payouts
      BY DEF Transferred
    <3>q. QED
      BY <1>0, <2>1, <3>1, AfterExecute
  <2>4. transferred' = transferred
    <3>1. SumFunctionOnSet(Amount', Transferred) = SumFunctionOnSet(Amount, Transferred)
      BY <1>0, <2>1, <2>3, AfterExecute
    <3>q. QED
      BY <2>3, <3>1, Zenon DEF transferred
  <2>q. QED
    BY <1>1, <1>2, <1>3, <1>7, <2>1, <2>2, <2>4
<1>14. ASSUME NEW c \in Sessions, ConfirmPayout(c)
       PROVE  locked' = withdrawals' + held' /\ walletBalance' = brought' - transferred'
  <2> DEFINE p == call[c].payout
  <2>1. /\ p \in Initiated /\ payout[p].amount \in Nat
        /\ payout' = [payout EXCEPT ![p].status = "COMPLETED"]
        /\ locked' = locked - payout[p].amount /\ walletBalance' = walletBalance - payout[p].amount
        /\ UNCHANGED <<recovered, withdrawals>>
    BY <1>0, <1>14 DEF PayoutTypeOK, PayoutRows, CallsKnown, ConfirmPayout, Ready, Initiated
  <2>2. \A t \in Settlements : settlement'[t].net = settlement[t].net
    BY <1>1, <1>14 DEF ConfirmPayout, SettlementRows
  <2> HIDE DEF p
  <2>3. held' = held - payout[p].amount /\ transferred' = transferred + payout[p].amount
    BY <1>0, <2>1, AfterEnd DEF held, transferred
  <2>4. brought' = brought
    BY <1>0, <1>6, <2>1, <2>2, CreditStays
  <2>q. QED
    BY <1>1, <1>2, <1>3, <2>1, <2>3, <2>4
<1>15. ASSUME NEW c \in Sessions, FailPayout(c)
       PROVE  locked' = withdrawals' + held' /\ walletBalance' = brought' - transferred'
  <2> DEFINE p == call[c].payout
  <2>1. /\ p \in Initiated /\ payout[p].amount \in Nat
        /\ payout' = [payout EXCEPT ![p].status = "FAILED"]
        /\ locked' = locked - payout[p].amount
        /\ UNCHANGED <<recovered, settlement, walletBalance, withdrawals>>
    BY <1>0, <1>15 DEF PayoutTypeOK, PayoutRows, CallsKnown, FailPayout, Ready, Initiated
  <2> HIDE DEF p
  <2>2. held' = held - payout[p].amount /\ transferred' = transferred
    <3>1. transferred' = transferred + 0
      BY <1>0, <2>1, AfterEnd DEF transferred
    <3>2. held' = held - payout[p].amount
      BY <1>0, <2>1, AfterEnd DEF held
    <3>q. QED
      BY <1>2, <3>1, <3>2
  <2>q. QED
    BY <1>1, <1>2, <1>3, <1>7, <2>1, <2>2
<1>q. QED
  BY <1>0, <1>8, <1>9, <1>10, <1>11, <1>12, <1>13, <1>14, <1>15, BeginEffect
  DEF PayoutStepping, Lock, RollBack

-----------------------------------------------------------------------------
(* PAID and covered.                                                       *)

\* What completed transfers paid of a settlement.
PaidOf(s) == SumFunctionOnSet(Amount, Completed(s))

PaidFor(s) ==
    settlement[s].status = "PAID" <=>
        Completed(s) # {} /\ PaidOf(s) >= settlement[s].net

(* PaidIffCovered by these names.                                          *)
LEMMA PaidByName == PaidIffCovered <=> \A s \in Settlements : PaidFor(s)
BY Zenon DEF PaidIffCovered, PaidFor, PaidOf, SumOf, Amount

(* The same after a step.                                                  *)
LEMMA PaidByNameNext == PaidIffCovered' <=> \A s \in Settlements : PaidFor(s)'
BY Zenon DEF PaidIffCovered, PaidFor, PaidOf, SumOf, Amount

(* A settlement stays PAID exactly when it is covered.                     *)
LEMMA PaidStep == PayoutIInv /\ PayoutTypeOK' /\ PayoutStepping => PaidIffCovered'
<1> SUFFICES ASSUME PayoutIInv, PayoutTypeOK', PayoutStepping PROVE PaidIffCovered'
  OBVIOUS
<1>0. /\ PayoutTypeOK /\ Booked /\ Empty /\ CallsKnown
      /\ settlement \in [Settlements -> SettlementRows]
      /\ payout \in [Payouts -> PayoutRows]
  BY DEF PayoutIInv, PayoutTypeOK
<1>1. \A s \in Settlements : PaidFor(s)
  BY PaidByName DEF PayoutIInv
<1>2. SUFFICES ASSUME NEW t \in Settlements PROVE PaidFor(t)'
  BY PaidByNameNext
<1> USE DEF periodVars, walletVars, lockVars
<1>3. /\ Completed(t) \in SUBSET Payouts /\ PaidOf(t) \in Nat
  <2>1. Completed(t) \in SUBSET Payouts
    BY DEF Completed
  <2>q. QED
    BY <1>0, <2>1, AmountsAddUp DEF PaidOf
<1>4. ASSUME payout' = payout
      PROVE  Completed(t)' = Completed(t) /\ PaidOf(t)' = PaidOf(t)
  BY <1>4 DEF Completed, PaidOf, Amount
<1>5. CASE UNCHANGED <<settlement, payout>>
  BY <1>1, <1>4, <1>5 DEF PaidFor
<1>6. ASSUME NEW s \in Settlements, NEW to \in Statuses, UpdateSettlementStatus(s, to)
      PROVE  PaidFor(t)'
  <2>1. /\ settlement'[t].net = settlement[t].net
        /\ settlement'[t].status = "PAID" <=> settlement[t].status = "PAID"
    BY <1>0, <1>6 DEF UpdateSettlementStatus, Statuses, SettlementRows
  <2>2. payout' = payout
    BY <1>6 DEF UpdateSettlementStatus
  <2>q. QED
    BY <1>1, <1>4, <2>1, <2>2 DEF PaidFor
<1>7. ASSUME NEW c \in Sessions, CreateSettlement(c) PROVE PaidFor(t)'
  <2> DEFINE s == call[c].settlement
  <2>1. s \in Settlements /\ settlement[s].status = "none" /\ payout' = payout
    BY <1>0, <1>7 DEF CallsKnown, CreateSettlement
  <2>2. Completed(s) = {}
    BY <1>0, <2>1 DEF Completed, Booked, Existing
  <2>3. settlement'[s].status # "PAID" /\ \A r \in Settlements \ {s} : settlement'[r] = settlement[r]
    BY <1>0, <1>7, <2>1 DEF CreateSettlement
  <2> HIDE DEF s
  <2>q. QED
    BY <1>1, <1>4, <2>1, <2>2, <2>3 DEF PaidFor
<1>8. ASSUME NEW c \in Sessions, ExecutePayout(c) PROVE PaidFor(t)'
  <2> DEFINE p == call[c].payout
             s == call[c].settlement
             a == call[c].amount
  <2>1. /\ p \in Payouts /\ s \in Settlements /\ a \in Nat /\ payout[p].status = "none"
        /\ payout' = [payout EXCEPT ![p] = [status |-> "INITIATED", of |-> s, amount |-> a]]
        /\ UNCHANGED settlement
    BY <1>0, <1>8, AmountsArePositive DEF CallsKnown, ExecutePayout, Ready, Existing
  <2> HIDE DEF p, s, a
  <2>2. Completed(t)' = Completed(t) /\ Completed(t) \in SUBSET (Payouts \ {p})
    BY <1>0, <2>1 DEF Completed
  <2>3. SumFunctionOnSet(Amount', Completed(t)) = SumFunctionOnSet(Amount, Completed(t))
    BY <1>0, <2>1, <2>2, AfterExecute
  <2>4. PaidOf(t)' = PaidOf(t)
    BY <2>2, <2>3, Zenon DEF PaidOf
  <2>q. QED
    BY <1>1, <2>1, <2>2, <2>4 DEF PaidFor
<1>9. ASSUME NEW c \in Sessions, ConfirmPayout(c) PROVE PaidFor(t)'
  <2> DEFINE p == call[c].payout
             s == call[c].settlement
             net == settlement[s].net
  <2>1. /\ p \in Payouts /\ p \in Initiated /\ payout[p].amount \in Nat
        /\ payout' = [payout EXCEPT ![p].status = "COMPLETED"]
        /\ s = payout[p].of /\ s \in Settlements
    BY <1>0, <1>9 DEF PayoutRows, CallsKnown, Booked, Existing, ConfirmPayout, Ready, Initiated
  <2>2. settlement' = [settlement EXCEPT ![s].status = IF Covered(s, p) THEN "PAID" ELSE @]
    BY <1>9 DEF ConfirmPayout
  <2>3. Covered(s, p) <=> SumFunctionOnSet(Amount, Completed(s) \cup {p}) >= net
    BY Zenon DEF Covered, SumOf, Amount
  <2> HIDE DEF p, s
  <2>4. Amount' = Amount
    BY <1>0, <2>1, AfterEnd
  <2>5. settlement'[t].net = settlement[t].net
    BY <1>0, <2>2 DEF SettlementRows
  <2>6. CASE t # s
    <3>1. Completed(t)' = Completed(t)
      BY <1>0, <2>1, <2>6 DEF Completed, Initiated
    <3>2. PaidOf(t)' = PaidOf(t)
      BY <2>4, <3>1, Zenon DEF PaidOf
    <3>3. settlement'[t] = settlement[t]
      BY <1>0, <2>2, <2>6
    <3>q. QED
      BY <1>1, <3>1, <3>2, <3>3 DEF PaidFor
  <2>7. CASE t = s
    <3>1. Completed(t)' = Completed(t) \cup {p} /\ p \notin Completed(t)
      BY <1>0, <2>1, <2>7 DEF Completed, Initiated
    <3>2. SumFunctionOnSet(Amount, Completed(t) \cup {p}) = PaidOf(t) + Amount[p]
      <4>1. IsFiniteSet(Completed(t)) /\ \A q \in Payouts : Amount[q] \in Int
        BY <1>0, <1>3, AmountsAddUp
      <4>q. QED
        BY <1>3, <2>1, <3>1, <4>1, SumWithElement DEF PaidOf
    <3>3. PaidOf(t)' = PaidOf(t) + Amount[p]
      <4>1. PaidOf(t)' = SumFunctionOnSet(Amount, Completed(t) \cup {p})
        BY <2>4, <3>1, Zenon DEF PaidOf
      <4>q. QED
        BY <3>2, <4>1
    <3>4. Amount[p] \in Nat /\ settlement[t].net \in Int
      BY <1>0, <2>1 DEF Amount, SettlementRows
    <3>5. Covered(s, p) <=> PaidOf(t) + Amount[p] >= settlement[t].net
      BY <2>3, <2>7, <3>2
    <3>6. settlement'[t].status = IF Covered(s, p) THEN "PAID" ELSE settlement[t].status
      BY <1>0, <2>1, <2>2, <2>7 DEF SettlementRows
    <3>7. settlement[t].status = "PAID" => PaidOf(t) >= settlement[t].net
      BY <1>1 DEF PaidFor
    <3>8. settlement'[t].status = "PAID" <=> PaidOf(t) + Amount[p] >= settlement[t].net
      BY <1>3, <3>4, <3>5, <3>6, <3>7
    <3>q. QED
      BY <2>5, <3>1, <3>3, <3>8 DEF PaidFor
  <2>q. QED
    BY <2>6, <2>7
<1>10. ASSUME NEW c \in Sessions, FailPayout(c) PROVE PaidFor(t)'
  <2> DEFINE p == call[c].payout
  <2>1. /\ p \in Initiated /\ payout' = [payout EXCEPT ![p].status = "FAILED"]
        /\ UNCHANGED settlement
    BY <1>0, <1>10 DEF CallsKnown, FailPayout, Ready, Initiated
  <2> HIDE DEF p
  <2>2. Completed(t)' = Completed(t)
    BY <1>0, <2>1 DEF Completed, Initiated
  <2>3. Amount' = Amount
    BY <1>0, <2>1, AfterEnd
  <2>4. PaidOf(t)' = PaidOf(t)
    BY <2>2, <2>3, Zenon DEF PaidOf
  <2>q. QED
    BY <1>1, <2>1, <2>2, <2>4 DEF PaidFor
<1>q. QED
  BY <1>0, <1>5, <1>6, <1>7, <1>8, <1>9, <1>10, BeginEffect
  DEF PayoutStepping, RequestWithdrawal, ConfirmCash, Lock, RollBack

-----------------------------------------------------------------------------
(* The theorems.                                                           *)

(* The invariant holds at first.                                           *)
LEMMA PayoutInitEstablishes == PayoutInit => PayoutIInv
<1> SUFFICES ASSUME PayoutInit PROVE PayoutIInv
  OBVIOUS
<1>1. PayoutTypeOK
  <2>1. Unsettled \in SettlementRows /\ NoPayout \in PayoutRows
    BY DEF Unsettled, NoPayout, SettlementRows, PayoutRows
  <2>q. QED
    BY <2>1, IdleIsACall, PayoutBoundAssumption DEF PayoutInit, PayoutTypeOK
<1>2. Booked /\ Empty /\ CallsKnown
  BY DEF PayoutInit, Booked, Empty, CallsKnown, NoPayout, Unsettled, NoCall
<1>3. LocksInOrder
  BY AbsentAssumption DEF PayoutInit, LocksInOrder, InOrder, Holds, NoCall
<1>4. MoneyAccountedFor
  <2>1. Initiated = {} /\ Transferred = {}
    BY DEF PayoutInit, Initiated, Transferred, NoPayout
  <2>2. SumFunctionOnSet(Amount, Initiated) = 0 /\ SumFunctionOnSet(Amount, Transferred) = 0
    BY <2>1, SumOfNone, Zenon
  <2>3. \A s \in Settlements : Credit[s] = 0
    BY DEF PayoutInit, Credit, Greatest, Unsettled
  <2>4. SumFunctionOnSet(Credit, Settlements) = 0
    BY <2>3, FiniteAssumption, SumOfZeros
  <2>q. QED
    BY <2>2, <2>4, MoneyByName DEF PayoutInit, Accounted
<1>5. PaidIffCovered
  BY DEF PayoutInit, PaidIffCovered, Completed, NoPayout, Unsettled
<1>q. QED
  BY <1>1, <1>2, <1>3, <1>4, <1>5 DEF PayoutIInv

(* Every step keeps it.                                                    *)
LEMMA NextPreserves == PayoutIInv /\ [PayoutNext]_payoutVars => PayoutIInv'
<1> SUFFICES ASSUME PayoutIInv, [PayoutNext]_payoutVars PROVE PayoutIInv'
  OBVIOUS
<1>1. CASE PayoutNext
  <2>1. PayoutStepping /\ PayoutTypeOK'
    BY <1>1, PayoutSteps, PayoutTypeStep
  <2>q. QED
    BY <2>1, BookedStep, EmptyStep, CallsKnownStep, LocksStep, MoneyStep, PaidStep DEF PayoutIInv
<1>2. CASE UNCHANGED payoutVars
  <2> USE <1>2 DEF PayoutIInv, payoutVars
  <2>1. PayoutTypeOK'
    BY DEF PayoutTypeOK
  <2>2. Booked' /\ Empty' /\ CallsKnown'
    BY DEF Booked, Empty, CallsKnown, Existing
  <2>3. LocksInOrder'
    BY DEF LocksInOrder, InOrder, Holds
  <2>4. MoneyAccountedFor'
    BY DEF MoneyAccountedFor, SumOf
  <2>5. PaidIffCovered'
    BY DEF PaidIffCovered, Completed, SumOf
  <2>q. QED
    BY <2>1, <2>2, <2>3, <2>4, <2>5
<1>q. QED
  BY <1>1, <1>2

(* The invariant holds throughout.                                         *)
LEMMA PayoutInvariance == PayoutSpec => []PayoutIInv
BY PayoutInitEstablishes, NextPreserves, PTL DEF PayoutSpec

(* Every variable keeps its type: in particular, lockedBalance, of which   *)
(* every confirmation and failure subtracts, never falls below zero.       *)
THEOREM PayoutTypeCorrect == PayoutSpec => []PayoutTypeOK
<1>1. PayoutIInv => PayoutTypeOK
  BY DEF PayoutIInv
<1>q. QED
  BY <1>1, PayoutInvariance, PTL

(* The wallet holds what settlements brought, less what was transferred    *)
(* and what cash confirmations took, and lockedBalance is what payouts in  *)
(* progress and withdrawal requests are for, whatever calls overlap and    *)
(* die, for any finite number of settlements and payouts.                  *)
THEOREM MoneyIsAccountedFor == PayoutSpec => []MoneyAccountedFor
<1>1. PayoutIInv => MoneyAccountedFor
  BY DEF PayoutIInv
<1>q. QED
  BY <1>1, PayoutInvariance, PTL

(* markSettlementPaidIfCovered, called by every confirmation, makes a      *)
(* settlement PAID exactly when completed transfers cover it, and the      *)
(* workflow of its batch does not undo it.                                 *)
THEOREM PaidWhenCovered == PayoutSpec => []PaidIffCovered
<1>1. PayoutIInv => PaidIffCovered
  BY DEF PayoutIInv
<1>q. QED
  BY <1>1, PayoutInvariance, PTL

(* Whoever holds a row waits, if at all, for a later kind of row: payouts, *)
(* then settlements, then the wallet.                                      *)
LEMMA Ahead ==
  ASSUME PayoutIInv, NEW c \in Sessions, NEW row \in Holds(c), call[c].wants # <<>>
  PROVE  \/ Head(call[c].wants) = "wallet" /\ row # "wallet"
         \/ Head(call[c].wants) \in Settlements /\ row \in Payouts
<1> DEFINE p == call[c].payout
           s == call[c].settlement
<1>0. PayoutTypeOK /\ Booked /\ CallsKnown /\ InOrder(c)
  BY DEF PayoutIInv, LocksInOrder
<1>1. call[c].kind \in {"none", "settle", "execute", "confirm", "fail"}
  BY <1>0 DEF PayoutTypeOK, Calls
<1>2. \A x, y : Head(<<x>>) = x /\ Head(<<x, y>>) = x
  OBVIOUS
<1>3. CASE call[c].kind = "execute"
  <2>1. s \in Settlements /\ s # "wallet"
    BY <1>0, <1>3, RowsAssumption DEF CallsKnown, Existing
  <2>q. QED
    BY <1>0, <1>2, <1>3, <2>1 DEF InOrder
<1>4. CASE call[c].kind = "confirm"
  <2>1. p \in Payouts /\ s \in Settlements /\ p # "wallet" /\ s # "wallet"
    BY <1>0, <1>4, RowsAssumption DEF CallsKnown, Booked, Existing
  <2>q. QED
    BY <1>0, <1>2, <1>4, <2>1 DEF InOrder
<1>5. CASE call[c].kind = "fail"
  <2>1. p \in Payouts /\ p # "wallet"
    BY <1>0, <1>5, RowsAssumption DEF CallsKnown
  <2>q. QED
    BY <1>0, <1>2, <1>5, <2>1 DEF InOrder
<1>6. CASE call[c].kind \in {"none", "settle"}
  BY <1>0, <1>6 DEF InOrder
<1>q. QED
  BY <1>1, <1>3, <1>4, <1>5, <1>6

(* The order in which every call locks its rows keeps calls, however many, *)
(* from waiting for each other in a circle.                                *)
THEOREM NobodyDeadlocks == PayoutSpec => []NoDeadlock
<1>1. PayoutIInv => NoDeadlock
  <2> SUFFICES ASSUME PayoutIInv, NEW S \in SUBSET Sessions, NEW c \in S,
                      \A b \in S : Waits(b, S)
               PROVE  FALSE
    BY DEF NoDeadlock
  <2> DEFINE Wanted(b) == Head(call[b].wants)
  <2>1. /\ \A b \in S : Wanted(b) \in Rows /\ call[b].wants # <<>>
        /\ \A b \in S : holder[Wanted(b)] \in S
    BY DEF PayoutIInv, PayoutTypeOK, Calls, Waits
  <2>2. ASSUME NEW b \in S
        PROVE  \E d \in S : \/ Wanted(d) = "wallet" /\ Wanted(b) # "wallet"
                            \/ Wanted(d) \in Settlements /\ Wanted(b) \in Payouts
    <3>1. PICK d \in S : Wanted(b) \in Holds(d)
      BY <2>1, <2>2 DEF Holds
    <3>q. QED
      BY <2>1, <3>1, Ahead
  <2>3. PICK b \in S : Wanted(b) = "wallet"
    <3>1. PICK d \in S : Wanted(d) = "wallet" \/ Wanted(d) \in Settlements
      BY <2>2
    <3>q. QED
      BY <2>2, <3>1, RowsAssumption
  <2>q. QED
    BY <2>2, <2>3, RowsAssumption
<1>q. QED
  BY <1>1, PayoutInvariance, PTL

-----------------------------------------------------------------------------
(* The calls implement PayoutPromise.                                      *)

(* The stage of a payout, case by case.                                    *)
LEMMA StageOf ==
  ASSUME PayoutTypeOK, NEW p \in Payouts
  PROVE  /\ Stage[p] \in [at : {"none", "held", "paid", "dropped"},
                          of : Settlements \cup {Absent}, amount : Nat]
         /\ Stage[p].of = payout[p].of /\ Stage[p].amount = payout[p].amount
         /\ Stage[p].at = "none" <=> payout[p].status = "none"
         /\ Stage[p].at = "held" <=> payout[p].status = "INITIATED"
         /\ Stage[p].at = "paid" <=> payout[p].status = "COMPLETED"
         /\ Stage[p].at = "dropped" <=> payout[p].status = "FAILED"
BY DEF PayoutTypeOK, PayoutRows, Stage

(* A sum is a sum there too.                                               *)
LEMMA SameSum ==
  ASSUME NEW f, NEW P
  PROVE  Account!SumFunctionOnSet(f, P) = SumFunctionOnSet(f, P)
BY DEF Account!SumFunctionOnSet, SumFunctionOnSet, Account!FoldFunctionOnSet, FoldFunctionOnSet,
       Account!MapThenFoldSet, MapThenFoldSet

(* The sums of PayoutPromise are those of the rows.                        *)
LEMMA PromisedSums ==
  ASSUME PayoutTypeOK, Booked
  PROVE  /\ \A P : Account!Sum(P) = SumOf(P)
         /\ Account!Held = Initiated
         /\ \A s \in Settlements : Account!Against(s) = CommittedPayouts(s)
<1>1. [p \in Payouts |-> Stage[p].amount] = [p \in Payouts |-> payout[p].amount]
  BY StageOf
<1>2. ASSUME NEW P PROVE Account!Sum(P) = SumOf(P)
  <2> DEFINE f == [p \in Payouts |-> Stage[p].amount]
             g == [p \in Payouts |-> payout[p].amount]
  <2>1. Account!Sum(P) = SumFunctionOnSet(f, P)
    BY SameSum DEF Account!Sum
  <2>2. SumOf(P) = SumFunctionOnSet(g, P)
    BY DEF SumOf
  <2>3. f = g
    BY <1>1
  <2> HIDE DEF f, g
  <2>q. QED
    BY <2>1, <2>2, <2>3, Zenon
<1>3. Account!Held = Initiated
  BY StageOf DEF Account!Held, Initiated
<1>4. ASSUME NEW s \in Settlements PROVE Account!Against(s) = CommittedPayouts(s)
  <2>1. \A p \in Payouts : /\ payout[p].status = "none" => payout[p].of # s
                          /\ payout[p].status \in {"none", "INITIATED", "COMPLETED", "FAILED"}
    BY <1>4, AbsentAssumption DEF PayoutTypeOK, PayoutRows, Booked, NoPayout
  <2>q. QED
    BY <2>1, StageOf DEF Account!Against, CommittedPayouts
<1>q. QED
  BY <1>2, <1>3, <1>4

(* What is free is what the wallet does not hold.                          *)
LEMMA FreeIsUnlocked ==
  ASSUME PayoutIInv
  PROVE  /\ Account!Free = walletBalance - locked /\ walletBalance - locked \in Int
         /\ \A s \in Settlements : SumOf(CommittedPayouts(s)) \in Int
<1>1. PayoutTypeOK /\ Booked /\ Initiated \in SUBSET Payouts
  BY DEF PayoutIInv, Initiated
<1>2. Account!Sum(Account!Held) = SumFunctionOnSet(Amount, Initiated)
  <2>1. Account!Sum(Account!Held) = SumOf(Account!Held) /\ Account!Held = Initiated
    BY <1>1, PromisedSums
  <2>q. QED
    BY <2>1, Zenon DEF SumOf, Amount
<1>3. locked = withdrawals + SumFunctionOnSet(Amount, Initiated)
  BY MoneyByName DEF PayoutIInv, Accounted
<1>4. walletBalance \in Int /\ withdrawals \in Int /\ SumFunctionOnSet(Amount, Initiated) \in Int
  BY <1>1, AmountsAddUp, PayoutBoundAssumption DEF PayoutTypeOK
<1>5. Account!Free = walletBalance - withdrawals - SumFunctionOnSet(Amount, Initiated)
  BY <1>2, Zenon DEF Account!Free
<1>6. ASSUME NEW s \in Settlements PROVE SumOf(CommittedPayouts(s)) \in Int
  <2>1. CommittedPayouts(s) \in SUBSET Payouts
    BY DEF CommittedPayouts
  <2>2. SumOf(CommittedPayouts(s)) = SumFunctionOnSet(Amount, CommittedPayouts(s))
    BY Zenon DEF SumOf, Amount
  <2>q. QED
    BY <1>1, <2>1, <2>2, AmountsAddUp
<1>q. QED
  BY <1>3, <1>4, <1>5, <1>6

(* Each step is a step of PayoutPromise or none.                           *)
LEMMA StepKeepsPromise == PayoutIInv /\ PayoutIInv' /\ PayoutStepping => [Account!Next]_(Account!vars)
<1> SUFFICES ASSUME PayoutIInv, PayoutIInv', PayoutStepping PROVE [Account!Next]_(Account!vars)
  OBVIOUS
<1>0. /\ PayoutTypeOK /\ Booked /\ CallsKnown /\ Empty
      /\ settlement \in [Settlements -> SettlementRows]
      /\ payout \in [Payouts -> PayoutRows]
      /\ walletBalance \in Int /\ locked \in Nat /\ withdrawals \in Nat
  BY PayoutBoundAssumption DEF PayoutIInv, PayoutTypeOK
<1> USE DEF periodVars, walletVars, lockVars
<1>1. ASSUME payout' = payout PROVE Stage' = Stage
  BY <1>1 DEF Stage
<1>2. ASSUME UNCHANGED settlement PROVE Due' = Due
  BY <1>2 DEF Due, Existing
<1>3. ASSUME Existing' = Existing,
             \A s \in Settlements : settlement'[s].net = settlement[s].net
      PROVE  Due' = Due
  <2>1. \A s \in Existing : settlement'[s].net = settlement[s].net
    BY <1>3 DEF Existing
  <2>q. QED
    BY <1>3, <2>1, Zenon DEF Due
<1>4. CASE UNCHANGED <<settlement, payout, walletBalance, withdrawals>>
  BY <1>1, <1>2, <1>4 DEF Account!vars
<1>5. CASE RequestWithdrawal
  <2>1. Account!Withdraw
    <3>1. Stage' = Stage /\ Due' = Due
      BY <1>1, <1>2, <1>5 DEF RequestWithdrawal
    <3>2. Account!Free > 0
      BY <1>5, FreeIsUnlocked DEF RequestWithdrawal
    <3>q. QED
      BY <1>5, <3>1, <3>2 DEF RequestWithdrawal, Account!Withdraw
  <2>q. QED
    BY <2>1 DEF Account!Next
<1>6. ASSUME NEW s \in Settlements, ConfirmCash(s) PROVE Account!Next
  <2>1. Stage' = Stage /\ Due' = Due
    BY <1>1, <1>2, <1>6 DEF ConfirmCash
  <2>q. QED
    BY <1>6, <2>1 DEF ConfirmCash, Account!TakeShare, Account!Next
<1>7. ASSUME NEW s \in Settlements, NEW to \in Statuses, UpdateSettlementStatus(s, to)
      PROVE  UNCHANGED Account!vars
  <2>1. /\ Existing' = Existing
        /\ \A t \in Settlements : settlement'[t].net = settlement[t].net
    BY <1>0, <1>7 DEF UpdateSettlementStatus, Statuses, SettlementRows, Existing
  <2>2. UNCHANGED <<payout, walletBalance, withdrawals>>
    BY <1>7 DEF UpdateSettlementStatus
  <2>q. QED
    BY <1>1, <1>3, <2>1, <2>2 DEF Account!vars
<1>8. ASSUME NEW c \in Sessions, CreateSettlement(c) PROVE Account!Next
  <2> DEFINE s == call[c].settlement
             net == call[c].amount + call[c].adjustments
  <2>1. /\ s \in Settlements /\ net \in Int /\ settlement[s].status = "none"
        /\ settlement' = [settlement EXCEPT ![s] =
               [status |-> "PENDING", net |-> net, adjustments |-> call[c].adjustments]]
        /\ walletBalance' = walletBalance + Greatest(0, net)
        /\ UNCHANGED <<payout, withdrawals>>
    BY <1>0, <1>8 DEF PayoutTypeOK, Calls, CallsKnown, CreateSettlement
  <2> HIDE DEF s, net
  <2>2. s \notin Existing /\ Existing' = Existing \cup {s}
    BY <1>0, <2>1 DEF Existing
  <2>3. /\ DOMAIN Due = Existing /\ s \notin DOMAIN Due
        /\ Due' \in [DOMAIN Due \cup {s} -> Int]
        /\ \A t \in DOMAIN Due : Due'[t] = Due[t]
        /\ Due'[s] = net
    BY <1>0, <2>1, <2>2 DEF Due, Existing, SettlementRows
  <2>4. walletBalance' = walletBalance + (IF Due'[s] > 0 THEN Due'[s] ELSE 0)
    BY <1>0, <2>1, <2>3 DEF Greatest
  <2>5. Account!Settle(s)
    BY <1>1, <2>1, <2>3, <2>4 DEF Account!Settle
  <2>q. QED
    BY <2>1, <2>5 DEF Account!Next
<1>9. ASSUME NEW c \in Sessions, ExecutePayout(c) PROVE Account!Next
  <2> DEFINE p == call[c].payout
             s == call[c].settlement
             a == call[c].amount
  <2>1. /\ p \in Payouts /\ s \in Settlements /\ s \in Existing /\ a \in PayoutAmounts
        /\ payout[p].status = "none"
        /\ payout' = [payout EXCEPT ![p] = [status |-> "INITIATED", of |-> s, amount |-> a]]
        /\ a <= settlement[s].net - SumOf(CommittedPayouts(s)) /\ a <= walletBalance - locked
        /\ UNCHANGED <<settlement, walletBalance, withdrawals>>
    BY <1>0, <1>9 DEF CallsKnown, ExecutePayout, Ready, Existing
  <2> HIDE DEF p, s, a
  <2>2. a \in Nat
    BY <2>1, AmountsArePositive
  <2>3. Stage[p] = Account!None
    BY <1>0, <2>1 DEF Stage, Booked, NoPayout, Account!None
  <2>4. Stage' = [Stage EXCEPT ![p] = [at |-> "held", of |-> s, amount |-> a]]
    BY <1>0, <2>1 DEF Stage
  <2>5. s \in DOMAIN Due /\ Due[s] = settlement[s].net /\ Due' = Due
    BY <1>2, <2>1 DEF Due
  <2>6. a <= Account!Free
    BY <2>1, FreeIsUnlocked
  <2>7. a + Account!Sum(Account!Against(s)) <= Due[s]
    <3>1. Account!Sum(Account!Against(s)) = SumOf(CommittedPayouts(s))
      BY <1>0, <2>1, PromisedSums
    <3>2. SumOf(CommittedPayouts(s)) \in Int /\ settlement[s].net \in Int
      BY <1>0, <2>1, FreeIsUnlocked DEF SettlementRows
    <3>q. QED
      BY <2>1, <2>2, <2>5, <3>1, <3>2
  <2>8. Account!Hold(p, s, a)
    BY <2>1, <2>3, <2>4, <2>5, <2>6, <2>7 DEF Account!Hold
  <2>q. QED
    BY <2>1, <2>8 DEF Account!Next, PayoutAmounts
<1>10. ASSUME NEW c \in Sessions, ConfirmPayout(c) PROVE Account!Next
  <2> DEFINE p == call[c].payout
             s == call[c].settlement
  <2>1. /\ p \in Payouts /\ payout[p].status = "INITIATED"
        /\ payout' = [payout EXCEPT ![p].status = "COMPLETED"]
        /\ payout[p].amount <= walletBalance /\ walletBalance' = walletBalance - payout[p].amount
        /\ UNCHANGED withdrawals
        /\ s \in Existing
    BY <1>0, <1>10 DEF CallsKnown, Booked, ConfirmPayout, Ready
  <2>2. /\ Existing' = Existing
        /\ \A t \in Settlements : settlement'[t].net = settlement[t].net
    BY <1>0, <1>10, <2>1 DEF ConfirmPayout, SettlementRows, Existing
  <2> HIDE DEF p, s
  <2>3. Due' = Due
    BY <1>3, <2>2
  <2>4. Stage' = [Stage EXCEPT ![p].at = "paid"]
    BY <1>0, <2>1 DEF Stage, PayoutRows
  <2>5. Stage[p].at = "held" /\ Stage[p].amount = payout[p].amount
    BY <1>0, <2>1, StageOf
  <2>6. Account!Pay(p)
    BY <2>1, <2>3, <2>4, <2>5 DEF Account!Pay
  <2>q. QED
    BY <2>1, <2>6 DEF Account!Next
<1>11. ASSUME NEW c \in Sessions, FailPayout(c) PROVE Account!Next
  <2> DEFINE p == call[c].payout
  <2>1. /\ p \in Payouts /\ payout[p].status = "INITIATED"
        /\ payout' = [payout EXCEPT ![p].status = "FAILED"]
        /\ UNCHANGED <<settlement, walletBalance, withdrawals>>
    BY <1>0, <1>11 DEF CallsKnown, FailPayout, Ready
  <2> HIDE DEF p
  <2>2. Stage' = [Stage EXCEPT ![p].at = "dropped"]
    BY <1>0, <2>1 DEF Stage, PayoutRows
  <2>3. Stage[p].at = "held"
    BY <1>0, <2>1, StageOf
  <2>4. Account!Drop(p)
    BY <1>2, <2>1, <2>2, <2>3 DEF Account!Drop
  <2>q. QED
    BY <2>1, <2>4 DEF Account!Next
<1>q. QED
  BY <1>0, <1>4, <1>5, <1>6, <1>7, <1>8, <1>9, <1>10, <1>11, BeginEffect
  DEF PayoutStepping, Lock, RollBack

(* executePayout, confirmPayout and failPayout, each a transaction that    *)
(* locks row by row among others, act as if each were one step: a payout   *)
(* takes its amount out of what its settlement owes and the wallet covers, *)
(* and is paid or dropped once.                                            *)
THEOREM ImplementsPayoutPromise == PayoutSpec => KeepsPayoutPromise
<1>1. PayoutInit => Account!Init
  <2> SUFFICES ASSUME PayoutInit PROVE Account!Init
    OBVIOUS
  <2>1. Existing = {}
    BY DEF PayoutInit, Existing, Unsettled
  <2>2. Due = [s \in {} |-> 0]
    BY <2>1 DEF Due
  <2>3. Stage = [p \in Payouts |-> Account!None]
    BY DEF PayoutInit, Stage, NoPayout, Account!None
  <2>q. QED
    BY <2>2, <2>3 DEF PayoutInit, Account!Init
<1>2. PayoutIInv /\ PayoutIInv' /\ [PayoutNext]_payoutVars => [Account!Next]_(Account!vars)
  <2>1. ASSUME UNCHANGED payoutVars PROVE UNCHANGED Account!vars
    BY <2>1 DEF payoutVars, Account!vars, Due, Stage, Existing
  <2>q. QED
    BY <2>1, PayoutSteps, StepKeepsPromise
<1>q. QED
  BY <1>1, <1>2, PayoutInvariance, PTL DEF PayoutSpec, KeepsPayoutPromise, Account!Spec

=============================================================================
