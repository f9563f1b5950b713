-------------------------- MODULE CoinLedgerProofs --------------------------
(***************************************************************************)
(* Idempotency of the coin ledger, the balance of wallet and ledger and    *)
(* the daily limits, for every set of requests, keys and users.  The sums  *)
(* of ledger rows need induction; it is done with sets: whatever set of    *)
(* subsets holds a set when it holds all those with one element less,      *)
(* holds them all.                                                         *)
(***************************************************************************)
EXTENDS CoinLedger, FiniteSetTheorems, TLAPS

(* OneRowPerKey is not inductive: it says nothing of how a booked request
   is seen by the next one.  What it needs is that booking leaves a row, and
   that the unique index holds on the rows.                                  *)
KeyInv ==
  /\ pc \in [Requests -> {"new", "started", "ready", "booked", "truncated", "refused"}]
  /\ ledger \subseteq Requests
  /\ \A r \in Requests : pc[r] = "booked" => r \in ledger
  /\ \A r, s \in ledger : KeyOf[r] = KeyOf[s] => r = s

(* Every step of the economy keeps the index unique and the rows in place. *)
LEMMA KeyInvStep == KeyInv /\ [Next]_vars => KeyInv'
<1> SUFFICES ASSUME KeyInv, [Next]_vars PROVE KeyInv'
  OBVIOUS
<1> USE DEF KeyInv, tables
<1>1. ASSUME NEW r \in Requests, Start(r) PROVE KeyInv'
  BY <1>1 DEF Start
<1>2. ASSUME NEW r \in Requests, GrantPasses(r) \/ SpendPasses(r) PROVE KeyInv'
  BY <1>2 DEF GrantPasses, SpendPasses, Pass
<1>3. ASSUME NEW r \in Requests, GrantTruncated(r) PROVE KeyInv'
  BY <1>3 DEF GrantTruncated
<1>4. ASSUME NEW r \in Requests, SpendRefused(r) \/ RequestThrows(r) PROVE KeyInv'
  BY <1>4 DEF SpendRefused, RequestThrows, Refuse
<1>5. ASSUME NEW r \in Requests, ApplyDelta(r) \/ ApplySpend(r) PROVE KeyInv'
  <2>1. /\ ~KeyIsTaken(r)
        /\ ledger' = ledger \cup {r}
        /\ pc' = [pc EXCEPT ![r] = "booked"]
    BY <1>5 DEF ApplyDelta, ApplySpend
  <2>2. \A s, t \in ledger' : KeyOf[s] = KeyOf[t] => s = t
    BY <2>1 DEF KeyIsTaken
  <2> QED BY <2>1, <2>2
<1>6. ASSUME NEW r \in Requests, SuppressionExpires(r) PROVE KeyInv'
  BY <1>6 DEF SuppressionExpires
<1>7. ASSUME NEW b \in Badges, RevokeBadge(b) PROVE KeyInv'
  BY <1>7 DEF RevokeBadge
<1>8. CASE Midnight
  BY <1>8 DEF Midnight
<1>9. CASE UNCHANGED vars
  BY <1>9 DEF vars
<1> QED
  BY <1>1, <1>2, <1>3, <1>4, <1>5, <1>6, <1>7, <1>8, <1>9 DEF Next, RequestStep

(* An idempotency key takes effect at most once, however its requests are
   retried, redelivered and interleaved: the unique index and the CROSS JOIN
   with the inserted row suffice, no guard before the transaction is needed. *)
THEOREM KeyTakesEffectOnce == Spec => []OneRowPerKey
<1>1. Init => KeyInv
  BY DEF Init, KeyInv
<1>2. KeyInv => OneRowPerKey
  BY DEF KeyInv, OneRowPerKey
<1> QED
  BY <1>1, <1>2, KeyInvStep, PTL DEF Spec
-----------------------------------------------------------------------------
(* Sums over finite sets.                                                   *)

(* The sum that MapThenSumSet computes, of the values of a function. *)
First(s) == CHOOSE x \in s : TRUE
Iterates(g, f, S) ==
  g = [s \in SUBSET S |-> IF s = {} THEN 0 ELSE f[First(s)] + g[s \ {First(s)}]]
SumOver(f, S) == (CHOOSE g : Iterates(g, f, S))[S]

(* To show something of every subset of a finite set, show it of a set of whose
   subsets with one element less it holds: there is no smallest exception.    *)
LEMMA SubsetInduction ==
  ASSUME NEW S, IsFiniteSet(S), NEW B,
         \A T \in SUBSET S : (\A x \in T : T \ {x} \in B) => T \in B
  PROVE  SUBSET S \subseteq B
<1> SUFFICES ASSUME (SUBSET S) \ B # {} PROVE FALSE
  OBVIOUS
<1>1. (SUBSET S) \ B \subseteq FiniteSubsetsOf(S)
  BY FS_Subset DEF FiniteSubsetsOf
<1>2. PICK T \in (SUBSET S) \ B : \A U \in (SUBSET S) \ B : ~ (<<U, T>> \in StrictSubsetOrdering(S))
  BY <1>1, FS_StrictSubsetOrderingWellFounded, WFMin
<1>3. ASSUME NEW x \in T PROVE T \ {x} \in B
  <2>1. <<T \ {x}, T>> \in StrictSubsetOrdering(S)
    BY DEF StrictSubsetOrdering
  <2> QED
    BY <1>2, <2>1
<1> QED
  BY <1>2, <1>3

LEMMA OneLess ==
  ASSUME NEW T, IsFiniteSet(T), NEW x \in T
  PROVE  /\ Cardinality(T) \in Nat /\ Cardinality(T \ {x}) \in Nat
         /\ Cardinality(T \ {x}) = Cardinality(T) - 1
<1>1. Cardinality(T) \in Nat /\ Cardinality(T \ {x}) = Cardinality(T) - 1
  BY FS_CardinalityType, FS_RemoveElement
<1>2. Cardinality(T \ {x}) \in Nat
  BY FS_RemoveElement, FS_CardinalityType
<1> QED
  BY <1>1, <1>2

LEMMA FirstIn == \A s : s # {} => First(s) \in s
  BY DEF First

(* The recursion has a solution: one is found for the subsets with no more
   elements than T, for larger and larger T.                                 *)
UpToSize(S, T) == {s \in SUBSET S : Cardinality(s) <= Cardinality(T)}
Partial(g, f, D) ==
  g = [s \in D |-> IF s = {} THEN 0 ELSE f[First(s)] + g[s \ {First(s)}]]

LEMMA SumExists ==
  ASSUME NEW S, IsFiniteSet(S), NEW f
  PROVE  \E g : Iterates(g, f, S)
<1>f. \A T \in SUBSET S : IsFiniteSet(T) /\ Cardinality(T) \in Nat /\ Cardinality(T) <= Cardinality(S)
  BY FS_Subset, FS_CardinalityType
<1> DEFINE B == {T \in SUBSET S : \E g : Partial(g, f, UpToSize(S, T))}
<1>1. ASSUME NEW T \in SUBSET S, \A x \in T : T \ {x} \in B PROVE T \in B
  <2>1. CASE T = {}
    <3>1. \A s \in UpToSize(S, T) : s = {}
      BY <1>f, <2>1, FS_EmptySet DEF UpToSize
    <3>2. Partial([s \in UpToSize(S, T) |-> 0], f, UpToSize(S, T))
      BY <3>1 DEF Partial
    <3> QED
      BY <3>2
  <2>2. CASE T # {}
    <3>1. PICK x \in T : \E g : Partial(g, f, UpToSize(S, T \ {x}))
      BY <1>1, <2>2
    <3>2. PICK g : Partial(g, f, UpToSize(S, T \ {x}))
      BY <3>1
    <3> DEFINE k == [s \in UpToSize(S, T) |-> IF s = {} THEN 0 ELSE f[First(s)] + g[s \ {First(s)}]]
    <3>3. Cardinality(T) \in Nat /\ Cardinality(T \ {x}) = Cardinality(T) - 1
      BY <1>f, OneLess
    <3>4. \A s \in UpToSize(S, T \ {x}) : s \in UpToSize(S, T) /\ k[s] = g[s]
      <4>1. \A s \in UpToSize(S, T \ {x}) : s \in UpToSize(S, T)
        BY <1>f, <3>3 DEF UpToSize
      <4> QED
        BY <3>2, <4>1 DEF Partial
    <3>5. ASSUME NEW s \in UpToSize(S, T), s # {} PROVE s \ {First(s)} \in UpToSize(S, T \ {x})
      <4>1. First(s) \in s /\ s \in SUBSET S /\ Cardinality(s) <= Cardinality(T)
        BY <3>5, FirstIn DEF UpToSize
      <4>2. Cardinality(s \ {First(s)}) = Cardinality(s) - 1 /\ Cardinality(s) \in Nat
        BY <1>f, <4>1, OneLess
      <4> QED
        BY <3>3, <4>1, <4>2 DEF UpToSize
    <3>6. Partial(k, f, UpToSize(S, T))
      <4>1. \A s \in UpToSize(S, T) : s # {} => k[s \ {First(s)}] = g[s \ {First(s)}]
        BY <3>4, <3>5
      <4> QED
        BY <4>1 DEF Partial
    <3> QED
      BY <3>6
  <2> QED
    BY <2>1, <2>2
<1> HIDE DEF B
<1>2. S \in B
  BY <1>1, SubsetInduction
<1>3. UpToSize(S, S) = SUBSET S
  BY <1>f DEF UpToSize
<1> QED
  BY <1>2, <1>3 DEF B, Partial, Iterates

LEMMA IterStep ==
  ASSUME NEW S, NEW f, NEW g, Iterates(g, f, S), NEW T \in SUBSET S
  PROVE  g[T] = IF T = {} THEN 0 ELSE f[First(T)] + g[T \ {First(T)}]
  BY DEF Iterates

LEMMA IterType ==
  ASSUME NEW S, IsFiniteSet(S), NEW f, \A x \in S : f[x] \in Int, NEW g, Iterates(g, f, S)
  PROVE  \A T \in SUBSET S : g[T] \in Int
<1> DEFINE B == {T \in SUBSET S : g[T] \in Int}
<1>1. ASSUME NEW T \in SUBSET S, \A x \in T : T \ {x} \in B PROVE T \in B
  <2>1. CASE T = {}
    BY <2>1, IterStep
  <2>2. CASE T # {}
    <3>1. First(T) \in T /\ g[T \ {First(T)}] \in Int
      BY <1>1, <2>2, FirstIn
    <3>2. g[T] = f[First(T)] + g[T \ {First(T)}]
      BY <2>2, IterStep
    <3> QED
      BY <3>1, <3>2
  <2> QED
    BY <2>1, <2>2
<1> HIDE DEF B
<1>2. SUBSET S \subseteq B
  BY <1>1, SubsetInduction
<1> QED
  BY <1>2 DEF B

(* The order in which the elements are taken does not matter. *)
LEMMA IterAny ==
  ASSUME NEW S, IsFiniteSet(S), NEW f, \A x \in S : f[x] \in Int, NEW g, Iterates(g, f, S)
  PROVE  \A T \in SUBSET S : \A x \in T : g[T] = f[x] + g[T \ {x}]
<1> DEFINE B == {T \in SUBSET S : \A x \in T : g[T] = f[x] + g[T \ {x}]}
<1>1. ASSUME NEW T \in SUBSET S, \A x \in T : T \ {x} \in B PROVE T \in B
  <2>1. ASSUME NEW x \in T PROVE g[T] = f[x] + g[T \ {x}]
    <3>1. PICK y \in T : g[T] = f[y] + g[T \ {y}]
      <4>1. T # {} /\ First(T) \in T
        BY FirstIn
      <4> QED
        BY <4>1 DEF Iterates
    <3>2. CASE x = y
      BY <3>1, <3>2
    <3>3. CASE x # y
      <4>1. g[T \ {y}] = f[x] + g[(T \ {y}) \ {x}]
        BY <1>1, <3>1, <3>3
      <4>2. g[T \ {x}] = f[y] + g[(T \ {x}) \ {y}]
        BY <1>1, <3>1, <3>3
      <4>3. (T \ {y}) \ {x} = (T \ {x}) \ {y}
        OBVIOUS
      <4>4. g[(T \ {y}) \ {x}] \in Int /\ f[x] \in Int /\ f[y] \in Int
        BY <3>1, IterType
      <4>5. g[T] = f[y] + (f[x] + g[(T \ {y}) \ {x}])
        BY <3>1, <4>1
      <4>6. g[T \ {x}] = f[y] + g[(T \ {y}) \ {x}]
        BY <4>2, <4>3
      <4> QED
        BY <4>4, <4>5, <4>6
    <3> QED
      BY <3>2, <3>3
  <2> QED
    BY <2>1
<1> HIDE DEF B
<1>2. SUBSET S \subseteq B
  BY <1>1, SubsetInduction
<1> QED
  BY <1>2 DEF B

(* Nor does what else is in the set, or what else the function says. *)
LEMMA IterAgree ==
  ASSUME NEW S, IsFiniteSet(S), NEW f, NEW g, Iterates(g, f, S),
         NEW R, NEW e, NEW h, Iterates(h, e, R),
         NEW U, U \subseteq S, U \subseteq R, \A x \in U : f[x] = e[x]
  PROVE  g[U] = h[U]
<1> DEFINE B == {T \in SUBSET U : g[T] = h[T]}
<1>1. ASSUME NEW T \in SUBSET U, \A x \in T : T \ {x} \in B PROVE T \in B
  <2>1. T \in SUBSET S /\ T \in SUBSET R
    OBVIOUS
  <2>2. CASE T = {}
    BY <2>1, <2>2 DEF Iterates
  <2>3. CASE T # {}
    <3>1. First(T) \in T /\ g[T \ {First(T)}] = h[T \ {First(T)}] /\ f[First(T)] = e[First(T)]
      BY <1>1, <2>3, FirstIn
    <3>2. g[T] = f[First(T)] + g[T \ {First(T)}]
      BY <2>1, <2>3 DEF Iterates
    <3>3. h[T] = e[First(T)] + h[T \ {First(T)}]
      BY <2>1, <2>3 DEF Iterates
    <3> QED
      BY <3>1, <3>2, <3>3
  <2> QED
    BY <2>2, <2>3
<1>2. IsFiniteSet(U)
  BY FS_Subset
<1> HIDE DEF B
<1>3. SUBSET U \subseteq B
  BY <1>1, <1>2, SubsetInduction
<1> QED
  BY <1>3 DEF B
(* What is known of a sum over a finite set. *)
LEMMA SumIter ==
  ASSUME NEW S, IsFiniteSet(S), NEW f
  PROVE  \E g : Iterates(g, f, S) /\ SumOver(f, S) = g[S]
  BY SumExists DEF SumOver

LEMMA SumType ==
  ASSUME NEW S, IsFiniteSet(S), NEW f, \A x \in S : f[x] \in Int
  PROVE  SumOver(f, S) \in Int
  BY SumIter, IterType

LEMMA SumEmpty == \A f : SumOver(f, {}) = 0
<1> TAKE f
<1>1. PICK g : Iterates(g, f, {}) /\ SumOver(f, {}) = g[{}]
  BY SumIter, FS_EmptySet
<1> QED
  BY <1>1, IterStep

LEMMA SumAgree ==
  ASSUME NEW S, IsFiniteSet(S), NEW f, NEW e, \A x \in S : f[x] = e[x]
  PROVE  SumOver(f, S) = SumOver(e, S)
<1>1. PICK g : Iterates(g, f, S) /\ SumOver(f, S) = g[S]
  BY SumIter
<1>2. PICK h : Iterates(h, e, S) /\ SumOver(e, S) = h[S]
  BY SumIter
<1> QED
  BY <1>1, <1>2, IterAgree

LEMMA SumAdd ==
  ASSUME NEW S, IsFiniteSet(S), NEW x, x \notin S, NEW f, \A y \in S \cup {x} : f[y] \in Int
  PROVE  SumOver(f, S \cup {x}) = SumOver(f, S) + f[x]
<1>1. IsFiniteSet(S \cup {x})
  BY FS_AddElement
<1>2. PICK g : Iterates(g, f, S \cup {x}) /\ SumOver(f, S \cup {x}) = g[S \cup {x}]
  BY <1>1, SumIter
<1>3. PICK h : Iterates(h, f, S) /\ SumOver(f, S) = h[S]
  BY SumIter
<1>4. g[S] = h[S]
  BY <1>1, <1>2, <1>3, IterAgree
<1>5. g[S \cup {x}] = f[x] + g[(S \cup {x}) \ {x}]
  BY <1>1, <1>2, IterAny
<1>6. (S \cup {x}) \ {x} = S
  OBVIOUS
<1>7. SumOver(f, S) \in Int /\ f[x] \in Int
  BY SumType
<1>8. SumOver(f, S \cup {x}) = f[x] + SumOver(f, S)
  BY <1>2, <1>3, <1>4, <1>5, <1>6, Zenon
<1> QED
  BY <1>7, <1>8

(* A part of a sum of numbers that are not negative is at most the sum. *)
LEMMA SumGrows ==
  ASSUME NEW S, IsFiniteSet(S), NEW f, \A x \in S : f[x] \in Nat, NEW U \in SUBSET S
  PROVE  0 <= SumOver(f, U) /\ SumOver(f, U) <= SumOver(f, S)
<1>i. \A T \in SUBSET S : IsFiniteSet(T)
  BY FS_Subset
<1>s. \A T \in SUBSET S : SumOver(f, T) \in Int
  <2>1. \A T \in SUBSET S : \A x \in T : f[x] \in Int
    OBVIOUS
  <2> QED
    BY <1>i, <2>1, SumType, Zenon
<1>1. ASSUME NEW T \in SUBSET S, NEW x \in T PROVE SumOver(f, T) = SumOver(f, T \ {x}) + f[x]
  <2>1. T = (T \ {x}) \cup {x}
    OBVIOUS
  <2>2. IsFiniteSet(T \ {x}) /\ \A y \in (T \ {x}) \cup {x} : f[y] \in Int
    BY <1>i
  <2> QED
    BY <2>1, <2>2, SumAdd
<1> DEFINE B == {T \in SUBSET S : 0 <= SumOver(f, T) /\ (U \subseteq T => SumOver(f, U) <= SumOver(f, T))}
<1>2. ASSUME NEW T \in SUBSET S, \A x \in T : T \ {x} \in B PROVE T \in B
  <2>1. CASE T = {}
    BY <1>s, <2>1, SumEmpty
  <2>2. CASE T # {}
    <3>1. ASSUME NEW x \in T PROVE 0 <= SumOver(f, T \ {x}) /\ SumOver(f, T \ {x}) <= SumOver(f, T)
      BY <1>1, <1>2, <1>s, <3>1
    <3>2. 0 <= SumOver(f, T)
      <4>1. PICK x \in T : TRUE
        BY <2>2
      <4>2. SumOver(f, T \ {x}) \in Int /\ SumOver(f, T) \in Int
        BY <1>s
      <4> QED
        BY <3>1, <4>2
    <3>3. CASE U = T
      BY <1>s, <3>2, <3>3
    <3>4. CASE ~(U \subseteq T)
      BY <3>2, <3>4
    <3>5. CASE U \subseteq T /\ U # T
      <4>1. PICK x \in T : x \notin U
        BY <3>5
      <4>2. SumOver(f, U) <= SumOver(f, T \ {x})
        BY <1>2, <3>5, <4>1
      <4>3. SumOver(f, T \ {x}) \in Int /\ SumOver(f, U) \in Int /\ SumOver(f, T) \in Int
        BY <1>s
      <4> QED
        BY <3>1, <3>2, <4>1, <4>2, <4>3
    <3> QED
      BY <3>3, <3>4, <3>5
  <2> QED
    BY <2>1, <2>2
<1> HIDE DEF B
<1>3. SUBSET S \subseteq B
  BY <1>2, SubsetInduction
<1> QED
  BY <1>3 DEF B

(* What the queries add up. *)
LEMMA TotalIsSum == \A S : Total(S) = SumOver(amount, S)
  BY DEF Total, SumOver, Iterates, First, MapThenSumSet, MapThenFoldSet
-----------------------------------------------------------------------------
(* Wallets and rows.                                                        *)

(* The sign of a request's delta, once it is computed. *)
SignedAmount(r) ==
  /\ KindOf[r] \in Grants => amount[r] \in Nat
  /\ KindOf[r] \in Spends => amount[r] = -AmountOf[r]

(* A row is written by a request that is then booked, and is not touched
   again.                                                                   *)
BookInv ==
  /\ IsFiniteSet(ledger) /\ suppressed \subseteq ledger
  /\ \A r \in ledger : pc[r] = "booked"
  /\ \A r \in Requests : pc[r] \in {"ready", "booked"} => SignedAmount(r)
  /\ \A r \in Requests : pc[r] # "new" => day[r] \in 1 .. today

LEMMA RequestTypes ==
  ASSUME NEW r \in Requests
  PROVE  /\ KindOf[r] \in Kinds /\ UserOf[r] \in Users /\ AmountOf[r] \in Nat \ {0}
         /\ KindOf[r] \in Grants <=> KindOf[r] \notin Spends
  BY CoinAssumption DEF Kinds, Grants, Spends

(* The sum of a set of rows is a number. *)
LEMMA TotalType ==
  ASSUME TypeOK, BookInv, NEW S, S \subseteq ledger
  PROVE  IsFiniteSet(S) /\ SumOver(amount, S) \in Int
<1>1. IsFiniteSet(S)
  BY FS_Subset DEF BookInv
<1>2. \A x \in S : amount[x] \in Int
  BY DEF TypeOK
<1> QED
  BY <1>1, <1>2, SumType

(* computeAppliedDelta never takes coins, and leaves the cap in place. *)
LEMMA DeltaType ==
  ASSUME TypeOK, BookInv, NEW r \in Requests
  PROVE  /\ ComputeAppliedDelta(r) \in Nat
         /\ KindOf[r] = "quiz" /\ ComputeAppliedDelta(r) # 0
              => GetDailyEarnCapSum(UserOf[r], day[r]) + ComputeAppliedDelta(r) <= EarnCap
<1> DEFINE earned == GetDailyEarnCapSum(UserOf[r], day[r])
<1>1. earned \in Int
  BY TotalType, TotalIsSum DEF GetDailyEarnCapSum, RowsSince
<1>2. EarnCap \in Nat /\ AmountOf[r] \in Nat
  BY CoinAssumption
<1>3. ComputeAppliedDelta(r) =
        IF KindOf[r] = "quiz"
          THEN LeastOf(AmountOf[r], IF earned < EarnCap THEN EarnCap - earned ELSE 0)
          ELSE AmountOf[r]
  BY DEF ComputeAppliedDelta
<1> HIDE DEF earned
<1>4. /\ ComputeAppliedDelta(r) \in Nat
      /\ KindOf[r] = "quiz" /\ ComputeAppliedDelta(r) # 0 => earned + ComputeAppliedDelta(r) <= EarnCap
  BY <1>1, <1>2, <1>3 DEF LeastOf
<1> QED
  BY <1>4 DEF earned

LEMMA BookStep == TypeOK /\ BookInv /\ [Next]_vars => TypeOK' /\ BookInv'
<1> SUFFICES ASSUME TypeOK, BookInv, [Next]_vars PROVE TypeOK' /\ BookInv'
  OBVIOUS
<1> USE CoinAssumption DEF tables
<1>1. ASSUME NEW r \in Requests, Start(r) PROVE TypeOK' /\ BookInv'
  BY <1>1 DEF Start, TypeOK, BookInv, SignedAmount
<1>2. ASSUME NEW r \in Requests, NEW d \in Int, Pass(r, d), pc[r] = "started",
             KindOf[r] \in Grants => d \in Nat, KindOf[r] \in Spends => d = -AmountOf[r]
      PROVE TypeOK' /\ BookInv'
  <2>1. Rivals(r) \subseteq Requests
    BY DEF Rivals
  <2>2. TypeOK'
    BY <1>2, <2>1 DEF Pass, TypeOK
  <2>3. \A s \in Requests : pc'[s] \in {"ready", "booked"} => SignedAmount(s)'
    BY <1>2 DEF Pass, TypeOK, BookInv, SignedAmount
  <2> QED
    BY <1>2, <2>2, <2>3 DEF Pass, TypeOK, BookInv
<1>3. ASSUME NEW r \in Requests, GrantPasses(r) PROVE TypeOK' /\ BookInv'
  <2>1. ComputeAppliedDelta(r) \in Nat /\ KindOf[r] \notin Spends
    BY <1>3, DeltaType, RequestTypes DEF GrantPasses
  <2> QED
    BY <1>2, <1>3, <2>1 DEF GrantPasses
<1>4. ASSUME NEW r \in Requests, SpendPasses(r) PROVE TypeOK' /\ BookInv'
  <2>1. -AmountOf[r] \in Int /\ KindOf[r] \notin Grants
    BY <1>4, RequestTypes DEF SpendPasses
  <2> QED
    BY <1>2, <1>4, <2>1 DEF SpendPasses
<1>5. ASSUME NEW r \in Requests, GrantTruncated(r) \/ SpendRefused(r) \/ RequestThrows(r)
      PROVE TypeOK' /\ BookInv'
  BY <1>5 DEF GrantTruncated, SpendRefused, RequestThrows, Refuse, TypeOK, BookInv, SignedAmount
<1>6. ASSUME NEW r \in Requests, ApplyDelta(r) PROVE TypeOK' /\ BookInv'
  <2>1. amount[r] \in Nat /\ UserOf[r] \in Users /\ wallet[UserOf[r]] \in 0 .. WalletMax
    BY <1>6, RequestTypes DEF ApplyDelta, BookInv, SignedAmount, TypeOK
  <2>2. Credited(UserOf[r], amount[r]) \in 0 .. WalletMax
    BY <2>1 DEF Credited, LeastOf
  <2>3. wallet' \in [Users -> 0 .. WalletMax] /\ clipped' \subseteq Users
    BY <1>6, <2>1, <2>2 DEF ApplyDelta, TypeOK
  <2>4. IsFiniteSet(ledger')
    BY <1>6, FS_AddElement DEF ApplyDelta, BookInv
  <2> QED
    BY <1>6, <2>3, <2>4 DEF ApplyDelta, TypeOK, BookInv, SignedAmount
<1>7. ASSUME NEW r \in Requests, ApplySpend(r) PROVE TypeOK' /\ BookInv'
  <2>1. AmountOf[r] \in Nat /\ UserOf[r] \in Users /\ wallet[UserOf[r]] \in 0 .. WalletMax
    BY <1>7, RequestTypes DEF TypeOK
  <2>2. wallet' \in [Users -> 0 .. WalletMax]
    BY <1>7, <2>1 DEF ApplySpend, TypeOK
  <2>3. IsFiniteSet(ledger')
    BY <1>7, FS_AddElement DEF ApplySpend, BookInv
  <2>4. slots' \subseteq Requests /\ suppressed' \subseteq Requests /\ suppressed' \subseteq ledger'
    BY <1>7 DEF ApplySpend, TypeOK, BookInv
  <2> QED
    BY <1>7, <2>2, <2>3, <2>4 DEF ApplySpend, TypeOK, BookInv, SignedAmount
<1>8. ASSUME NEW r \in Requests, SuppressionExpires(r) PROVE TypeOK' /\ BookInv'
  BY <1>8 DEF SuppressionExpires, TypeOK, BookInv, SignedAmount
<1>9. ASSUME NEW b \in Badges, RevokeBadge(b) PROVE TypeOK' /\ BookInv'
  BY <1>9 DEF RevokeBadge, TypeOK, BookInv, SignedAmount
<1>10. CASE Midnight
  BY <1>10 DEF Midnight, TypeOK, BookInv, SignedAmount
<1>11. CASE UNCHANGED vars
  BY <1>11 DEF vars, TypeOK, BookInv, SignedAmount
<1> QED
  BY <1>1, <1>3, <1>4, <1>5, <1>6, <1>7, <1>8, <1>9, <1>10, <1>11 DEF Next, RequestStep

LEMMA BookStart == Init => TypeOK /\ BookInv
  BY CoinAssumption, FS_EmptySet DEF Init, TypeOK, BookInv

(* The variables keep their types: a balance stays between zero and the
   ceiling whatever is credited, truncated or debited.                      *)
THEOREM CoinTypeCorrect == Spec => []TypeOK
  BY BookStart, BookStep, PTL DEF Spec

(* What a step does to the rows: it leaves them, or books one request more. *)
Books(r) ==
  /\ pc[r] = "ready" /\ r \notin ledger /\ ledger' = ledger \cup {r}
  /\ UNCHANGED <<amount, day, overlapped>>

LEMMA RowsStay ==
  TypeOK /\ BookInv /\ [Next]_vars =>
    /\ \A r \in ledger : amount'[r] = amount[r] /\ day'[r] = day[r]
    /\ overlapped \subseteq overlapped'
    /\ \/ UNCHANGED <<wallet, ledger, clipped>>
       \/ \E r \in Requests : Books(r) /\ (ApplyDelta(r) \/ ApplySpend(r))
<1> SUFFICES ASSUME TypeOK, BookInv, [Next]_vars
             PROVE  /\ \A r \in ledger : amount'[r] = amount[r] /\ day'[r] = day[r]
                    /\ overlapped \subseteq overlapped'
                    /\ \/ UNCHANGED <<wallet, ledger, clipped>>
                       \/ \E r \in Requests : Books(r) /\ (ApplyDelta(r) \/ ApplySpend(r))
  OBVIOUS
<1> USE DEF tables
<1>t. /\ amount \in [Requests -> Int] /\ day \in [Requests -> 0 .. MaxDay]
      /\ ledger \subseteq Requests /\ \A r \in ledger : pc[r] = "booked"
  BY DEF TypeOK, BookInv
<1>1. ASSUME NEW r \in Requests,
             Start(r) \/ GrantPasses(r) \/ GrantTruncated(r) \/ SpendPasses(r) \/ SpendRefused(r)
               \/ RequestThrows(r) \/ SuppressionExpires(r)
      PROVE  /\ \A s \in ledger : amount'[s] = amount[s] /\ day'[s] = day[s]
             /\ UNCHANGED <<wallet, ledger, clipped>> /\ overlapped \subseteq overlapped'
  BY <1>1, <1>t DEF Start, GrantPasses, GrantTruncated, SpendPasses, SpendRefused, RequestThrows,
                    SuppressionExpires, Refuse, Pass
<1>2. ASSUME NEW r \in Requests, ApplyDelta(r) \/ ApplySpend(r)
      PROVE  Books(r)
  BY <1>2, <1>t DEF ApplyDelta, ApplySpend, Books
<1>3. ASSUME (\E b \in Badges : RevokeBadge(b)) \/ Midnight \/ UNCHANGED vars
      PROVE  UNCHANGED <<wallet, ledger, clipped, amount, day, overlapped>>
  BY <1>3 DEF RevokeBadge, Midnight, vars
<1>4. CASE \E r \in Requests : ApplyDelta(r) \/ ApplySpend(r)
  BY <1>2, <1>4 DEF Books
<1>5. CASE ~\E r \in Requests : ApplyDelta(r) \/ ApplySpend(r)
  BY <1>1, <1>3, <1>5 DEF Next, RequestStep
<1> QED
  BY <1>4, <1>5

(* The sum of some rows after a step. *)
LEMMA SumStays ==
  ASSUME TypeOK, BookInv, [Next]_vars, NEW S, S \subseteq ledger
  PROVE  SumOver(amount', S) = SumOver(amount, S)
<1>1. IsFiniteSet(S) /\ \A x \in S : amount[x] = amount'[x]
  BY TotalType, RowsStay
<1> QED
  BY <1>1, SumAgree

LEMMA SumBooks ==
  ASSUME TypeOK, BookInv, NEW r \in Requests, Books(r), NEW S, S \subseteq ledger
  PROVE  SumOver(amount', S \cup {r}) = SumOver(amount, S) + amount[r]
<1>1. IsFiniteSet(S) /\ r \notin S /\ \A x \in S \cup {r} : amount[x] \in Int
  BY TotalType DEF Books, TypeOK
<1>2. SumOver(amount, S \cup {r}) = SumOver(amount, S) + amount[r]
  BY <1>1, SumAdd
<1> QED
  BY <1>2 DEF Books

(* WalletMatchesLedger, of the sums. *)
WalletInv ==
  \A u \in Users :
    /\ wallet[u] <= SumOver(amount, UserRows(u))
    /\ u \notin clipped => wallet[u] = SumOver(amount, UserRows(u))

LEMMA WalletStep == TypeOK /\ BookInv /\ WalletInv /\ [Next]_vars => WalletInv'
<1> SUFFICES ASSUME TypeOK, BookInv, WalletInv, [Next]_vars, NEW u \in Users
             PROVE  /\ wallet'[u] <= SumOver(amount', UserRows(u)')
                    /\ u \notin clipped' => wallet'[u] = SumOver(amount', UserRows(u)')
  BY DEF WalletInv
<1>1. UserRows(u) \subseteq ledger
  BY DEF UserRows
<1>2. /\ wallet[u] \in Int /\ SumOver(amount, UserRows(u)) \in Int
      /\ wallet[u] <= SumOver(amount, UserRows(u))
      /\ u \notin clipped => wallet[u] = SumOver(amount, UserRows(u))
  BY <1>1, TotalType DEF WalletInv, TypeOK
<1>3. ASSUME wallet'[u] = wallet[u], clipped \subseteq clipped', UserRows(u)' = UserRows(u)
      PROVE  /\ wallet'[u] <= SumOver(amount', UserRows(u)')
             /\ u \notin clipped' => wallet'[u] = SumOver(amount', UserRows(u)')
  BY <1>1, <1>2, <1>3, SumStays
<1>4. CASE UNCHANGED <<wallet, ledger, clipped>>
  <2>1. UserRows(u)' = UserRows(u)
    BY <1>4 DEF UserRows
  <2> QED
    BY <1>3, <1>4, <2>1
<1>5. ASSUME NEW r \in Requests, Books(r), ApplyDelta(r) \/ ApplySpend(r)
      PROVE  /\ wallet'[u] <= SumOver(amount', UserRows(u)')
             /\ u \notin clipped' => wallet'[u] = SumOver(amount', UserRows(u)')
  <2>1. CASE UserOf[r] # u
    <3>1. UserRows(u)' = UserRows(u)
      BY <1>5, <2>1 DEF UserRows, Books
    <3>2. wallet'[u] = wallet[u] /\ clipped \subseteq clipped'
      BY <1>5, <2>1 DEF ApplyDelta, ApplySpend, TypeOK
    <3> QED
      BY <1>3, <3>1, <3>2
  <2>2. CASE UserOf[r] = u
    <3>1. UserRows(u)' = UserRows(u) \cup {r}
      BY <1>5, <2>2 DEF UserRows, Books
    <3>2. SumOver(amount', UserRows(u)') = SumOver(amount, UserRows(u)) + amount[r]
      BY <1>1, <1>5, <3>1, SumBooks
    <3>3. amount[r] \in Int /\ WalletMax \in Nat /\ AmountOf[r] \in Nat
      BY CoinAssumption DEF TypeOK
    <3>4. CASE ApplyDelta(r)
      <4>1. /\ wallet'[u] = IF WalletMax < wallet[u] + amount[r] THEN WalletMax ELSE wallet[u] + amount[r]
            /\ clipped' = IF wallet[u] + amount[r] > WalletMax THEN clipped \cup {u} ELSE clipped
        BY <2>2, <3>4 DEF ApplyDelta, TypeOK, Credited, LeastOf
      <4> QED
        BY <1>2, <3>2, <3>3, <4>1
    <3>5. CASE ApplySpend(r)
      <4>1. amount[r] = -AmountOf[r] /\ clipped' = clipped
        BY <3>5 DEF ApplySpend, BookInv, SignedAmount
      <4>2. wallet'[u] = wallet[u] - AmountOf[r]
        BY <1>2, <2>2, <3>3, <3>5 DEF ApplySpend, DebitMatches, TypeOK
      <4> QED
        BY <1>2, <3>2, <3>3, <4>1, <4>2
    <3> QED
      BY <1>5, <3>4, <3>5
  <2> QED
    BY <2>1, <2>2
<1> QED
  BY <1>4, <1>5, RowsStay

(* A balance is the sum of its ledger rows, and only the ceiling pushes it
   below: whatever number of requests are retried, refused, rolled back and
   interleaved.                                                             *)
THEOREM BalanceIsTheSumOfItsRows == Spec => []WalletMatchesLedger
<1>1. Init => WalletInv
  <2> SUFFICES ASSUME Init, NEW u \in Users PROVE wallet[u] = 0 /\ UserRows(u) = {}
    BY SumEmpty DEF WalletInv
  <2> QED
    BY DEF Init, UserRows
<1>2. WalletInv => WalletMatchesLedger
  BY TotalIsSum DEF WalletInv, WalletMatchesLedger
<1> QED
  BY <1>1, <1>2, BookStart, BookStep, WalletStep, PTL DEF Spec
-----------------------------------------------------------------------------
(* Limits.                                                                  *)

DayRows(u, kind, d) == {r \in ledger : UserOf[r] = u /\ KindOf[r] = kind /\ day[r] = d}

AreRivals(r, s) == r # s /\ KindOf[r] = KindOf[s] /\ UserOf[r] = UserOf[s] /\ KindOf[r] \in Limited

(* Two limited requests of a user that have both passed their guard overlap. *)
RivalInv ==
  \A r, s \in Requests : pc[r] = "ready" /\ pc[s] = "ready" /\ AreRivals(r, s) => r \in overlapped

(* A request that overlaps no other still has the room its guard found. *)
EarnInv ==
  /\ \A r \in Requests : pc[r] = "ready" /\ KindOf[r] = "quiz" /\ r \notin overlapped =>
       SumOver(amount, DayRows(UserOf[r], "quiz", day[r])) + amount[r] <= EarnCap
  /\ \A u, d : \/ SumOver(amount, DayRows(u, "quiz", d)) <= EarnCap
               \/ DayRows(u, "quiz", d) \cap overlapped # {}

TipInv ==
  /\ \A r \in Requests : pc[r] = "ready" /\ KindOf[r] = "tip" /\ r \notin overlapped =>
       Cardinality(DayRows(UserOf[r], "tip", day[r])) + 1 <= TipCap
  /\ \A u, d : \/ Cardinality(DayRows(u, "tip", d)) <= TipCap
               \/ DayRows(u, "tip", d) \cap overlapped # {}

SameSuppression(r, s) == UserOf[r] = UserOf[s] /\ TargetOf[r] = TargetOf[s]

SuppressInv ==
  /\ \A s \in suppressed : KindOf[s] = "suppress"
  /\ \A r \in Requests : pc[r] = "ready" /\ KindOf[r] = "suppress" =>
       \A s \in suppressed : SameSuppression(r, s) => {r, s} \subseteq overlapped
  /\ \A r, s \in suppressed : SameSuppression(r, s) => r = s \/ {r, s} \subseteq overlapped

(* The three things a step can be: a guard is passed, a row is booked, or the
   limits have nothing to do with it.                                       *)
Passes(r) ==
  /\ pc[r] = "started" /\ (GrantPasses(r) \/ SpendPasses(r))
  /\ pc' = [pc EXCEPT ![r] = "ready"]
  /\ \A s \in Requests : s # r => amount'[s] = amount[s]
  /\ overlapped' = IF KindOf[r] \in Limited /\ Rivals(r) # {}
                     THEN overlapped \cup {r} \cup Rivals(r) ELSE overlapped
  /\ UNCHANGED <<ledger, suppressed, day>>

BooksFinally(r) ==
  /\ Books(r) /\ pc' = [pc EXCEPT ![r] = "booked"]
  /\ suppressed' = IF KindOf[r] = "suppress" THEN suppressed \cup {r} ELSE suppressed

Aside ==
  /\ \A s \in Requests : pc'[s] = "ready" => pc[s] = "ready" /\ amount'[s] = amount[s] /\ day'[s] = day[s]
  /\ ledger' = ledger /\ overlapped' = overlapped /\ suppressed' \subseteq suppressed

LEMMA LimitSteps ==
  TypeOK /\ BookInv /\ [Next]_vars =>
    Aside \/ \E r \in Requests : Passes(r) \/ BooksFinally(r)
<1> SUFFICES ASSUME TypeOK, BookInv, [Next]_vars
             PROVE  Aside \/ \E r \in Requests : Passes(r) \/ BooksFinally(r)
  OBVIOUS
<1> USE DEF tables
<1>t. /\ amount \in [Requests -> Int] /\ day \in [Requests -> 0 .. MaxDay]
      /\ pc \in [Requests -> {"new", "started", "ready", "booked", "truncated", "refused"}]
      /\ ledger \subseteq Requests /\ \A r \in ledger : pc[r] = "booked"
  BY DEF TypeOK, BookInv
<1>1. ASSUME NEW r \in Requests, GrantPasses(r) \/ SpendPasses(r) PROVE Passes(r)
  <2>1. pc[r] = "started" /\ \E d : Pass(r, d)
    BY <1>1 DEF GrantPasses, SpendPasses
  <2> QED
    BY <1>1, <1>t, <2>1 DEF Passes, Pass
<1>2. ASSUME NEW r \in Requests, ApplyDelta(r) \/ ApplySpend(r) PROVE BooksFinally(r)
  <2>1. Books(r)
    BY <1>2, <1>t DEF ApplyDelta, ApplySpend, Books
  <2>2. ApplyDelta(r) => KindOf[r] # "suppress"
    BY DEF ApplyDelta, Grants
  <2> QED
    BY <1>2, <2>1, <2>2 DEF ApplyDelta, ApplySpend, BooksFinally
<1>3. ASSUME NEW r \in Requests, Start(r) \/ GrantTruncated(r) \/ SpendRefused(r) \/ RequestThrows(r)
                                 \/ SuppressionExpires(r)
      PROVE  Aside
  BY <1>3, <1>t DEF Start, GrantTruncated, SpendRefused, RequestThrows, Refuse, SuppressionExpires, Aside
<1>4. ASSUME (\E b \in Badges : RevokeBadge(b)) \/ Midnight \/ UNCHANGED vars PROVE Aside
  BY <1>4 DEF RevokeBadge, Midnight, vars, Aside
<1> QED
  BY <1>1, <1>2, <1>3, <1>4 DEF Next, RequestStep

LEMMA RivalStep == TypeOK /\ BookInv /\ RivalInv /\ [Next]_vars => RivalInv'
<1> SUFFICES ASSUME TypeOK, BookInv, RivalInv, [Next]_vars PROVE RivalInv'
  OBVIOUS
<1>t. pc \in [Requests -> {"new", "started", "ready", "booked", "truncated", "refused"}]
  BY DEF TypeOK
<1>1. CASE Aside
  BY <1>1 DEF Aside, RivalInv
<1>2. ASSUME NEW r \in Requests, BooksFinally(r) PROVE RivalInv'
  BY <1>2, <1>t DEF BooksFinally, Books, RivalInv
<1>3. ASSUME NEW r \in Requests, Passes(r) PROVE RivalInv'
  <2>1. overlapped \subseteq overlapped' /\ pc' = [pc EXCEPT ![r] = "ready"]
    BY <1>3 DEF Passes
  <2>2. \A s \in Requests : s # r => pc'[s] = pc[s]
    BY <1>t, <2>1
  <2>3. ASSUME NEW s \in Requests, pc[s] = "ready", AreRivals(r, s)
        PROVE  r \in overlapped' /\ s \in overlapped'
    <3>1. s \in Rivals(r) /\ KindOf[r] \in Limited
      BY <2>3 DEF Rivals, AreRivals
    <3> QED
      BY <1>3, <3>1 DEF Passes
  <2>4. \A s \in Requests : AreRivals(s, r) => AreRivals(r, s) /\ s # r
    BY DEF AreRivals
  <2> QED
    BY <2>1, <2>2, <2>3, <2>4 DEF RivalInv, AreRivals
<1> QED
  BY <1>1, <1>2, <1>3, LimitSteps

(* The rows of a day after a step. *)
LEMMA DayStays ==
  ASSUME TypeOK, BookInv, [Next]_vars, ledger' = ledger, NEW u, NEW kind, NEW d
  PROVE  DayRows(u, kind, d)' = DayRows(u, kind, d)
  BY RowsStay DEF DayRows

LEMMA DayBooks ==
  ASSUME TypeOK, BookInv, NEW r \in Requests, Books(r), NEW u, NEW kind, NEW d
  PROVE  DayRows(u, kind, d)' = IF UserOf[r] = u /\ KindOf[r] = kind /\ day[r] = d
                                  THEN DayRows(u, kind, d) \cup {r} ELSE DayRows(u, kind, d)
  BY DEF DayRows, Books

LEMMA DayTypes ==
  ASSUME TypeOK, BookInv, NEW u, NEW kind, NEW d
  PROVE  /\ DayRows(u, kind, d) \subseteq ledger /\ IsFiniteSet(DayRows(u, kind, d))
         /\ SumOver(amount, DayRows(u, kind, d)) \in Int /\ Cardinality(DayRows(u, kind, d)) \in Nat
<1>1. DayRows(u, kind, d) \subseteq ledger
  BY DEF DayRows
<1> QED
  BY <1>1, TotalType, FS_CardinalityType

(* The guards look at later days too, which only makes them stricter. *)
LEMMA SinceCoversDay ==
  ASSUME TypeOK, BookInv, NEW r \in Requests
  PROVE  /\ SumOver(amount, DayRows(UserOf[r], "quiz", day[r])) <= GetDailyEarnCapSum(UserOf[r], day[r])
         /\ Cardinality(DayRows(UserOf[r], "tip", day[r])) <= GetDailyTipCount(UserOf[r], day[r])
         /\ GetDailyTipCount(UserOf[r], day[r]) \in Nat /\ GetDailyEarnCapSum(UserOf[r], day[r]) \in Int
<1>1. \A kind : /\ DayRows(UserOf[r], kind, day[r]) \subseteq RowsSince(UserOf[r], kind, day[r])
                /\ RowsSince(UserOf[r], kind, day[r]) \subseteq ledger
  BY DEF DayRows, RowsSince, TypeOK
<1>2. \A kind : IsFiniteSet(RowsSince(UserOf[r], kind, day[r]))
  BY <1>1, TotalType
<1>3. \A x \in RowsSince(UserOf[r], "quiz", day[r]) : amount[x] \in Nat
  BY DEF RowsSince, TypeOK, BookInv, SignedAmount, Grants
<1>4. SumOver(amount, DayRows(UserOf[r], "quiz", day[r]))
        <= SumOver(amount, RowsSince(UserOf[r], "quiz", day[r]))
  BY <1>1, <1>2, <1>3, SumGrows
<1>5. Cardinality(DayRows(UserOf[r], "tip", day[r])) <= Cardinality(RowsSince(UserOf[r], "tip", day[r]))
  BY <1>1, <1>2, FS_Subset
<1> QED
  BY <1>1, <1>2, <1>4, <1>5, TotalType, TotalIsSum, FS_CardinalityType DEF GetDailyEarnCapSum, GetDailyTipCount

LEMMA EarnStep == TypeOK /\ BookInv /\ RivalInv /\ EarnInv /\ [Next]_vars => EarnInv'
<1> SUFFICES ASSUME TypeOK, BookInv, RivalInv, EarnInv, [Next]_vars PROVE EarnInv'
  OBVIOUS
<1> DEFINE Earned(u, d) == SumOver(amount, DayRows(u, "quiz", d))
<1>t. /\ pc \in [Requests -> {"new", "started", "ready", "booked", "truncated", "refused"}]
      /\ amount \in [Requests -> Int] /\ EarnCap \in Nat
  BY CoinAssumption DEF TypeOK
<1>1. ASSUME ledger' = ledger, NEW u, NEW d
      PROVE  /\ SumOver(amount', DayRows(u, "quiz", d)') = Earned(u, d)
             /\ DayRows(u, "quiz", d)' = DayRows(u, "quiz", d)
  BY <1>1, DayStays, DayTypes, SumStays
<1>2. ASSUME ledger' = ledger, NEW u, NEW d
      PROVE  \/ SumOver(amount', DayRows(u, "quiz", d)') <= EarnCap
             \/ DayRows(u, "quiz", d)' \cap overlapped' # {}
  <2>1. overlapped \subseteq overlapped'
    BY RowsStay
  <2>2. Earned(u, d) <= EarnCap \/ DayRows(u, "quiz", d) \cap overlapped # {}
    BY DEF EarnInv
  <2> QED
    BY <1>1, <1>2, <2>1, <2>2
<1>3. CASE Aside
  <2>1. ASSUME NEW r \in Requests, pc'[r] = "ready", KindOf[r] = "quiz", r \notin overlapped'
        PROVE  SumOver(amount', DayRows(UserOf[r], "quiz", day[r])') + amount'[r] <= EarnCap /\ day'[r] = day[r]
    <3>1. pc[r] = "ready" /\ amount'[r] = amount[r] /\ day'[r] = day[r] /\ r \notin overlapped /\ ledger' = ledger
      BY <1>3, <2>1 DEF Aside
    <3>2. Earned(UserOf[r], day[r]) + amount[r] <= EarnCap
      BY <2>1, <3>1 DEF EarnInv
    <3> QED
      BY <1>1, <3>1, <3>2
  <2> QED
    BY <1>2, <1>3, <2>1 DEF Aside, EarnInv
<1>4. ASSUME NEW r \in Requests, Passes(r) PROVE EarnInv'
  <2>1. /\ ledger' = ledger /\ day' = day /\ overlapped \subseteq overlapped'
        /\ \A s \in Requests : s # r => pc'[s] = pc[s] /\ amount'[s] = amount[s]
    BY <1>4, <1>t DEF Passes
  <2>2. ASSUME NEW s \in Requests, pc'[s] = "ready", KindOf[s] = "quiz", s \notin overlapped'
        PROVE  Earned(UserOf[s], day[s]) + amount'[s] <= EarnCap
    <3>1. CASE s # r
      BY <2>1, <2>2, <3>1 DEF EarnInv
    <3>2. CASE s = r
      <4>1. GrantPasses(r)
        BY <1>4, <2>2, <3>2 DEF Passes, SpendPasses, Spends
      <4>2. amount'[r] = ComputeAppliedDelta(r) /\ ComputeAppliedDelta(r) # 0
        BY <1>t, <4>1 DEF GrantPasses, Pass
      <4>3. GetDailyEarnCapSum(UserOf[r], day[r]) + ComputeAppliedDelta(r) <= EarnCap
            /\ ComputeAppliedDelta(r) \in Nat
        BY <2>2, <3>2, <4>2, DeltaType
      <4>4. Earned(UserOf[r], day[r]) \in Int
        BY DayTypes
      <4> QED
        BY <1>t, <3>2, <4>2, <4>3, <4>4, SinceCoversDay
    <3> QED
      BY <3>1, <3>2
  <2>3. \A s \in Requests : pc'[s] = "ready" /\ KindOf[s] = "quiz" /\ s \notin overlapped' =>
          SumOver(amount', DayRows(UserOf[s], "quiz", day[s])') + amount'[s] <= EarnCap
    BY <1>1, <2>1, <2>2
  <2> QED
    BY <1>2, <2>1, <2>3 DEF EarnInv
<1>5. ASSUME NEW r \in Requests, BooksFinally(r) PROVE EarnInv'
  <2>1. /\ Books(r) /\ UNCHANGED <<amount, day, overlapped>> /\ pc[r] = "ready" /\ pc'[r] = "booked"
        /\ \A s \in Requests : s # r => pc'[s] = pc[s]
    BY <1>5, <1>t DEF BooksFinally, Books
  <2>2. ASSUME NEW s \in Requests, pc'[s] = "ready", KindOf[s] = "quiz", s \notin overlapped'
        PROVE  SumOver(amount', DayRows(UserOf[s], "quiz", day[s])') + amount'[s] <= EarnCap
    <3>1. s # r /\ pc[s] = "ready" /\ s \notin overlapped
      BY <2>1, <2>2
    <3>2. ~(KindOf[r] = "quiz" /\ UserOf[r] = UserOf[s])
      BY <2>1, <2>2, <3>1 DEF RivalInv, AreRivals, Limited
    <3>3. DayRows(UserOf[s], "quiz", day[s])' = DayRows(UserOf[s], "quiz", day[s])
      BY <2>1, <3>2 DEF DayRows, Books
    <3> QED
      BY <2>1, <2>2, <3>1, <3>3 DEF EarnInv
  <2>3. ASSUME NEW u, NEW d
        PROVE  \/ SumOver(amount', DayRows(u, "quiz", d)') <= EarnCap
               \/ DayRows(u, "quiz", d)' \cap overlapped' # {}
    <3>1. CASE ~(UserOf[r] = u /\ KindOf[r] = "quiz" /\ day[r] = d)
      <4>1. DayRows(u, "quiz", d)' = DayRows(u, "quiz", d)
        BY <2>1, <3>1, DayBooks
      <4> QED
        BY <2>1, <4>1 DEF EarnInv
    <3>2. CASE UserOf[r] = u /\ KindOf[r] = "quiz" /\ day[r] = d
      <4>1. DayRows(u, "quiz", d)' = DayRows(u, "quiz", d) \cup {r}
        BY <2>1, <3>2, DayBooks
      <4>2. SumOver(amount', DayRows(u, "quiz", d)') = Earned(u, d) + amount[r]
        BY <2>1, <4>1, DayTypes, SumBooks
      <4>3. CASE r \in overlapped
        BY <2>1, <4>1, <4>3
      <4>4. CASE r \notin overlapped
        BY <2>1, <3>2, <4>2, <4>4 DEF EarnInv
      <4> QED
        BY <4>3, <4>4
    <3> QED
      BY <3>1, <3>2
  <2> QED
    BY <2>1, <2>2, <2>3 DEF EarnInv
<1> QED
  BY <1>3, <1>4, <1>5, LimitSteps

LEMMA TipStep == TypeOK /\ BookInv /\ RivalInv /\ TipInv /\ [Next]_vars => TipInv'
<1> SUFFICES ASSUME TypeOK, BookInv, RivalInv, TipInv, [Next]_vars PROVE TipInv'
  OBVIOUS
<1>t. /\ pc \in [Requests -> {"new", "started", "ready", "booked", "truncated", "refused"}]
      /\ TipCap \in Nat
  BY CoinAssumption DEF TypeOK
<1>1. ASSUME ledger' = ledger
      PROVE  /\ \A u, d : DayRows(u, "tip", d)' = DayRows(u, "tip", d)
             /\ \A u, d : \/ Cardinality(DayRows(u, "tip", d)') <= TipCap
                          \/ DayRows(u, "tip", d)' \cap overlapped' # {}
  <2>1. \A u, d : DayRows(u, "tip", d)' = DayRows(u, "tip", d)
    BY <1>1, DayStays
  <2>2. overlapped \subseteq overlapped'
    BY RowsStay
  <2>3. \A u, d : Cardinality(DayRows(u, "tip", d)) <= TipCap \/ DayRows(u, "tip", d) \cap overlapped # {}
    BY DEF TipInv
  <2> QED
    BY <2>1, <2>2, <2>3
<1>2. CASE Aside
  <2>1. ASSUME NEW r \in Requests, pc'[r] = "ready", KindOf[r] = "tip", r \notin overlapped'
        PROVE  Cardinality(DayRows(UserOf[r], "tip", day[r])') + 1 <= TipCap
    <3>1. pc[r] = "ready" /\ day'[r] = day[r] /\ r \notin overlapped /\ ledger' = ledger
      BY <1>2, <2>1 DEF Aside
    <3>2. Cardinality(DayRows(UserOf[r], "tip", day[r])) + 1 <= TipCap
      BY <2>1, <3>1 DEF TipInv
    <3> QED
      BY <1>1, <3>1, <3>2
  <2> QED
    BY <1>1, <1>2, <2>1 DEF Aside, TipInv
<1>3. ASSUME NEW r \in Requests, Passes(r) PROVE TipInv'
  <2>1. /\ ledger' = ledger /\ day' = day /\ overlapped \subseteq overlapped'
        /\ \A s \in Requests : s # r => pc'[s] = pc[s]
    BY <1>3, <1>t DEF Passes
  <2>2. ASSUME NEW s \in Requests, pc'[s] = "ready", KindOf[s] = "tip", s \notin overlapped'
        PROVE  Cardinality(DayRows(UserOf[s], "tip", day[s])) + 1 <= TipCap
    <3>1. CASE s # r
      BY <2>1, <2>2, <3>1 DEF TipInv
    <3>2. CASE s = r
      <4>1. SpendPasses(r)
        BY <1>3, <2>2, <3>2 DEF Passes, GrantPasses, Grants
      <4>2. GetDailyTipCount(UserOf[r], day[r]) + 1 <= TipCap
        BY <2>2, <3>2, <4>1 DEF SpendPasses, PreTransactionGuards
      <4>3. Cardinality(DayRows(UserOf[r], "tip", day[r])) \in Nat
        BY DayTypes
      <4> QED
        BY <1>t, <3>2, <4>2, <4>3, SinceCoversDay
    <3> QED
      BY <3>1, <3>2
  <2>3. \A s \in Requests : pc'[s] = "ready" /\ KindOf[s] = "tip" /\ s \notin overlapped' =>
          Cardinality(DayRows(UserOf[s], "tip", day[s])') + 1 <= TipCap
    BY <1>1, <2>1, <2>2
  <2> QED
    BY <1>1, <2>1, <2>3 DEF TipInv
<1>4. ASSUME NEW r \in Requests, BooksFinally(r) PROVE TipInv'
  <2>1. /\ Books(r) /\ UNCHANGED <<day, overlapped>> /\ pc[r] = "ready" /\ pc'[r] = "booked"
        /\ \A s \in Requests : s # r => pc'[s] = pc[s]
    BY <1>4, <1>t DEF BooksFinally, Books
  <2>2. ASSUME NEW s \in Requests, pc'[s] = "ready", KindOf[s] = "tip", s \notin overlapped'
        PROVE  Cardinality(DayRows(UserOf[s], "tip", day[s])') + 1 <= TipCap
    <3>1. s # r /\ pc[s] = "ready" /\ s \notin overlapped
      BY <2>1, <2>2
    <3>2. ~(KindOf[r] = "tip" /\ UserOf[r] = UserOf[s])
      BY <2>1, <2>2, <3>1 DEF RivalInv, AreRivals, Limited
    <3>3. DayRows(UserOf[s], "tip", day[s])' = DayRows(UserOf[s], "tip", day[s])
      BY <2>1, <3>2 DEF DayRows, Books
    <3> QED
      BY <2>1, <2>2, <3>1, <3>3 DEF TipInv
  <2>3. ASSUME NEW u, NEW d
        PROVE  \/ Cardinality(DayRows(u, "tip", d)') <= TipCap
               \/ DayRows(u, "tip", d)' \cap overlapped' # {}
    <3>1. CASE ~(UserOf[r] = u /\ KindOf[r] = "tip" /\ day[r] = d)
      <4>1. DayRows(u, "tip", d)' = DayRows(u, "tip", d)
        BY <2>1, <3>1, DayBooks
      <4> QED
        BY <2>1, <4>1 DEF TipInv
    <3>2. CASE UserOf[r] = u /\ KindOf[r] = "tip" /\ day[r] = d
      <4>1. DayRows(u, "tip", d)' = DayRows(u, "tip", d) \cup {r}
        BY <2>1, <3>2, DayBooks
      <4>2. r \notin DayRows(u, "tip", d)
        BY <2>1 DEF DayRows, Books
      <4>3. IsFiniteSet(DayRows(u, "tip", d))
        BY DayTypes
      <4>4. Cardinality(DayRows(u, "tip", d)') = Cardinality(DayRows(u, "tip", d)) + 1
        BY <4>1, <4>2, <4>3, FS_AddElement
      <4>5. CASE r \in overlapped
        BY <2>1, <4>1, <4>5
      <4>6. CASE r \notin overlapped
        BY <2>1, <3>2, <4>4, <4>6 DEF TipInv
      <4> QED
        BY <4>5, <4>6
    <3> QED
      BY <3>1, <3>2
  <2> QED
    BY <2>1, <2>2, <2>3 DEF TipInv
<1> QED
  BY <1>2, <1>3, <1>4, LimitSteps

LEMMA SuppressStep == TypeOK /\ BookInv /\ RivalInv /\ SuppressInv /\ [Next]_vars => SuppressInv'
<1> SUFFICES ASSUME TypeOK, BookInv, RivalInv, SuppressInv, [Next]_vars PROVE SuppressInv'
  OBVIOUS
<1>t. /\ pc \in [Requests -> {"new", "started", "ready", "booked", "truncated", "refused"}]
      /\ suppressed \subseteq Requests
  BY DEF TypeOK
<1>1. CASE Aside
  BY <1>1, <1>t DEF Aside, SuppressInv
<1>2. ASSUME NEW r \in Requests, Passes(r) PROVE SuppressInv'
  <2>1. /\ suppressed' = suppressed /\ overlapped \subseteq overlapped'
        /\ \A s \in Requests : s # r => pc'[s] = pc[s]
    BY <1>2, <1>t DEF Passes
  <2>2. CASE KindOf[r] = "suppress"
    <3>1. SpendPasses(r)
      BY <1>2, <2>2 DEF Passes, GrantPasses, Grants
    <3>2. GetActiveSuppression(UserOf[r], TargetOf[r]) = {}
      BY <2>2, <3>1 DEF SpendPasses, PreTransactionGuards
    <3>3. \A s \in suppressed : ~SameSuppression(r, s)
      BY <3>2 DEF GetActiveSuppression, SameSuppression
    <3> QED
      BY <2>1, <3>3 DEF SuppressInv
  <2>3. CASE KindOf[r] # "suppress"
    BY <2>1, <2>3 DEF SuppressInv
  <2> QED
    BY <2>2, <2>3
<1>3. ASSUME NEW r \in Requests, BooksFinally(r) PROVE SuppressInv'
  <2>1. /\ overlapped' = overlapped /\ pc[r] = "ready" /\ pc'[r] = "booked"
        /\ \A s \in Requests : s # r => pc'[s] = pc[s]
        /\ suppressed' = IF KindOf[r] = "suppress" THEN suppressed \cup {r} ELSE suppressed
    BY <1>3, <1>t DEF BooksFinally, Books
  <2>2. CASE KindOf[r] # "suppress"
    BY <1>t, <2>1, <2>2 DEF SuppressInv
  <2>3. CASE KindOf[r] = "suppress"
    <3>1. ASSUME NEW s \in suppressed, SameSuppression(r, s) \/ SameSuppression(s, r)
          PROVE  {r, s} \subseteq overlapped
      BY <2>1, <2>3, <3>1 DEF SuppressInv, SameSuppression
    <3>2. ASSUME NEW s \in Requests, pc'[s] = "ready", KindOf[s] = "suppress", SameSuppression(s, r)
          PROVE  {s, r} \subseteq overlapped
      <4>1. pc[s] = "ready" /\ AreRivals(s, r) /\ AreRivals(r, s)
        BY <2>1, <2>3, <3>2 DEF AreRivals, SameSuppression, Limited
      <4> QED
        BY <2>1, <4>1 DEF RivalInv
    <3>3. suppressed' = suppressed \cup {r}
      BY <2>1, <2>3
    <3>4. \A s \in Requests : pc'[s] = "ready" /\ KindOf[s] = "suppress" =>
            \A q \in suppressed' : SameSuppression(s, q) => {s, q} \subseteq overlapped'
      BY <2>1, <3>2, <3>3 DEF SuppressInv
    <3>5. \A s, q \in suppressed' : SameSuppression(s, q) => s = q \/ {s, q} \subseteq overlapped'
      BY <2>1, <3>1, <3>3 DEF SuppressInv
    <3> QED
      BY <2>3, <3>3, <3>4, <3>5 DEF SuppressInv
  <2> QED
    BY <2>2, <2>3
<1> QED
  BY <1>1, <1>2, <1>3, LimitSteps

(* The daily caps hold, and no suppression is sold twice, for every user and
   day on which no two requests of the kind overlapped: the guards read before
   the transaction, so this is all they can promise.                        *)
THEOREM LimitsHoldUnlessOverlapped == Spec => []LimitsHoldSerially
<1>1. Init => RivalInv /\ EarnInv /\ TipInv /\ SuppressInv
  <2> SUFFICES ASSUME Init PROVE RivalInv /\ EarnInv /\ TipInv /\ SuppressInv
    OBVIOUS
  <2>1. \A u, kind, d : DayRows(u, kind, d) = {}
    BY DEF Init, DayRows
  <2>2. \A r \in Requests : pc[r] = "new"
    BY DEF Init
  <2>3. EarnInv
    BY <2>1, <2>2, SumEmpty, CoinAssumption DEF EarnInv
  <2>4. TipInv
    BY <2>1, <2>2, FS_EmptySet, CoinAssumption DEF TipInv
  <2> QED
    BY <2>2, <2>3, <2>4 DEF Init, RivalInv, SuppressInv
<1>2. TypeOK /\ EarnInv /\ TipInv /\ SuppressInv => LimitsHoldSerially
  <2> SUFFICES ASSUME TypeOK, EarnInv, TipInv, SuppressInv, NEW u \in Users, NEW d \in 1 .. today
               PROVE  LET on(kind) == {r \in RowsSince(u, kind, d) : day[r] = d} IN
                      /\ Total(on("quiz")) <= EarnCap \/ on("quiz") \cap overlapped # {}
                      /\ Cardinality(on("tip")) <= TipCap \/ on("tip") \cap overlapped # {}
                      /\ \A r, s \in suppressed :
                           UserOf[r] = u /\ UserOf[s] = u /\ TargetOf[r] = TargetOf[s]
                             => r = s \/ {r, s} \subseteq overlapped
    BY DEF LimitsHoldSerially
  <2>1. \A kind : {r \in RowsSince(u, kind, d) : day[r] = d} = DayRows(u, kind, d)
    BY DEF RowsSince, DayRows
  <2>2. \A r, s \in suppressed : UserOf[r] = u /\ UserOf[s] = u /\ TargetOf[r] = TargetOf[s]
          => r = s \/ {r, s} \subseteq overlapped
    BY DEF SuppressInv, SameSuppression
  <2> QED
    BY <2>1, <2>2, TotalIsSum DEF EarnInv, TipInv
<1> QED
  BY <1>1, <1>2, BookStart, BookStep, RivalStep, EarnStep, TipStep, SuppressStep, PTL DEF Spec
=============================================================================
