----------------------------- MODULE CoinLedger -----------------------------
(***************************************************************************)
(* The coin economy: wallets, the append-only coin_transactions ledger and *)
(* the requests that change them (CoinIngestionService, CoinSpendService,  *)
(* CoinRepository).  A request captures its clock, runs its guards outside *)
(* the transaction, and then runs one transaction; other requests run in   *)
(* between.  A retry or a redelivered event is another request with the    *)
(* same idempotency key.                                                   *)
(***************************************************************************)
EXTENDS Integers, FiniteSetsExt

CONSTANTS
  Users,
  Requests,   \* invocations of processCoinEvent and processSpend
  KindOf,     \* what a request is for, one of Kinds
  UserOf,     \* whose wallet
  AmountOf,   \* input.amount, a positive number
  KeyOf,      \* idempotencyKey
  TargetOf,   \* tipped author, suppressed quiz or flaired user badge
  After,      \* the request whose success it awaits, NoRequest for none
  NoRequest,
  Badges,
  WalletMax,  \* ceiling of a balance
  EarnCap,    \* DAILY_QUIZ_EARNINGS_CAP
  TipCap,     \* DAILY_TIP_COUNT_CAP
  MaxDay      \* bound: days that pass

Grants == {"quiz", "streak"}
Spends == {"tip", "flair", "suppress", "clawback"}
Kinds  == Grants \cup Spends

(* Requests that a daily limit or an already-active check guards. *)
Limited == {"quiz", "tip", "suppress"}

ASSUME CoinAssumption ==
  /\ KindOf \in [Requests -> Kinds]
  /\ UserOf \in [Requests -> Users]
  /\ AmountOf \in [Requests -> Nat \ {0}]
  /\ \A r \in Requests : KindOf[r] = "flair" => TargetOf[r] \in Badges
  /\ NoRequest \notin Requests
  /\ After \in [Requests -> Requests \cup {NoRequest}]
  /\ WalletMax \in Nat /\ EarnCap \in Nat /\ TipCap \in Nat /\ MaxDay \in Nat \ {0}

VARIABLES
  wallet,     \* balance; 0 also stands for no row, which no statement tells apart
  ledger,     \* requests with a row in coin_transactions
  amount,     \* the row's amount, before: the delta the request computed
  day,        \* the UTC day of the clock the request captured (created_at)
  pc,         \* per request: new, started, ready, and how it ended
  announced,  \* requests with a coin.added or coin.spent row in outbox_events
  slots,      \* flair requests with a row in user_flair_slots
  suppressed, \* suppress requests whose row has not expired
  owned,      \* user badges not revoked
  today,
  clipped,    \* observation: users whose credit the ceiling truncated
  overlapped  \* observation: limited requests that passed their guard while
              \* another of the same kind and user was ready to commit

tables == <<wallet, ledger, announced, slots, suppressed>>
vars   == <<tables, amount, day, pc, owned, today, clipped, overlapped>>

TypeOK ==
  /\ wallet \in [Users -> 0 .. WalletMax]
  /\ ledger \subseteq Requests /\ announced \subseteq Requests
  /\ amount \in [Requests -> Int]
  /\ day \in [Requests -> 0 .. MaxDay]
  /\ pc \in [Requests -> {"new", "started", "ready", "booked", "truncated", "refused"}]
  /\ slots \subseteq Requests /\ suppressed \subseteq Requests
  /\ owned \subseteq Badges
  /\ today \in 1 .. MaxDay
  /\ clipped \subseteq Users /\ overlapped \subseteq Requests

Init ==
  /\ wallet = [u \in Users |-> 0]
  /\ ledger = {} /\ announced = {} /\ slots = {} /\ suppressed = {}
  /\ amount = [r \in Requests |-> 0]
  /\ day = [r \in Requests |-> 0]
  /\ pc = [r \in Requests |-> "new"]
  /\ owned = Badges
  /\ today = 1
  /\ clipped = {} /\ overlapped = {}

-----------------------------------------------------------------------------
(* The queries.                                                            *)

RowsSince(u, kind, d) == {r \in ledger : UserOf[r] = u /\ KindOf[r] = kind /\ day[r] >= d}

Total(S) == MapThenSumSet(LAMBDA r : amount[r], S)

GetDailyEarnCapSum(u, d) == Total(RowsSince(u, "quiz", d))
GetDailyTipCount(u, d) == Cardinality(RowsSince(u, "tip", d))
GetActiveSuppression(u, quiz) == {r \in suppressed : UserOf[r] = u /\ TargetOf[r] = quiz}

KeyIsTaken(r) == \E s \in ledger : KeyOf[s] = KeyOf[r]

LeastOf(m, n) == IF m < n THEN m ELSE n

-----------------------------------------------------------------------------
(* The steps of a request.                                                 *)

(* The clock is read once; created_at and the daily windows use it.  The
   perfect bonus of an attempt is requested after its completion reward
   went through, a truncation to zero included.                             *)
Start(r) ==
  /\ pc[r] = "new"
  /\ After[r] # NoRequest => pc[After[r]] \in {"booked", "truncated"}
  /\ pc' = [pc EXCEPT ![r] = "started"]
  /\ day' = [day EXCEPT ![r] = today]
  /\ UNCHANGED <<tables, amount, owned, today, clipped, overlapped>>

Rivals(r) == {s \in Requests : pc[s] = "ready" /\ KindOf[s] = KindOf[r] /\ UserOf[s] = UserOf[r]}

(* The guard is passed: from here on its answer may be out of date. *)
Pass(r, delta) ==
  /\ pc' = [pc EXCEPT ![r] = "ready"]
  /\ amount' = [amount EXCEPT ![r] = delta]
  /\ overlapped' = IF KindOf[r] \in Limited /\ Rivals(r) # {}
                     THEN overlapped \cup {r} \cup Rivals(r)
                     ELSE overlapped
  /\ UNCHANGED <<tables, day, owned, today, clipped>>

(* computeAppliedDelta: quiz rewards are cut to what the cap leaves. *)
ComputeAppliedDelta(r) ==
  LET earned == GetDailyEarnCapSum(UserOf[r], day[r]) IN
  IF KindOf[r] = "quiz"
    THEN LeastOf(AmountOf[r], IF earned < EarnCap THEN EarnCap - earned ELSE 0)
    ELSE AmountOf[r]

GrantPasses(r) ==
  /\ pc[r] = "started"
  /\ KindOf[r] \in Grants
  /\ ComputeAppliedDelta(r) # 0
  /\ Pass(r, ComputeAppliedDelta(r))

GrantTruncated(r) ==
  /\ pc[r] = "started"
  /\ KindOf[r] \in Grants
  /\ ComputeAppliedDelta(r) = 0
  /\ pc' = [pc EXCEPT ![r] = "truncated"]
  /\ UNCHANGED <<tables, amount, day, owned, today, clipped, overlapped>>

(* Mutant: the count is compared without the tip being made. *)
PreTransactionGuardsOffByOne(r) ==
  KindOf[r] = "tip" => GetDailyTipCount(UserOf[r], day[r]) <= TipCap

PreTransactionGuards(r) ==
  LET u == UserOf[r] IN
  /\ KindOf[r] = "tip" =>
       /\ TargetOf[r] # u
       /\ GetDailyTipCount(u, day[r]) + 1 <= TipCap
  /\ KindOf[r] = "suppress" => GetActiveSuppression(u, TargetOf[r]) = {}
  /\ KindOf[r] = "flair" => TargetOf[r] \in owned

SpendPasses(r) ==
  /\ pc[r] = "started"
  /\ KindOf[r] \in Spends
  /\ PreTransactionGuards(r)
  /\ Pass(r, -AmountOf[r])

Refuse(r) ==
  /\ pc' = [pc EXCEPT ![r] = "refused"]
  /\ UNCHANGED <<tables, amount, day, owned, today, clipped, overlapped>>

SpendRefused(r) ==
  /\ pc[r] = "started"
  /\ KindOf[r] \in Spends
  /\ ~PreTransactionGuards(r)
  /\ Refuse(r)

(* Mutant: the update branch forgets LEAST. *)
CreditedWithoutCeiling(u, delta) == wallet[u] + delta

Credited(u, delta) == LeastOf(WalletMax, wallet[u] + delta)

(* Mutant: the row that ON CONFLICT DO NOTHING leaves out is not noticed,
   and the credit is committed without it.                                  *)
ApplyDeltaIgnoringConflict(r) ==
  LET u == UserOf[r] IN
  /\ pc[r] = "ready"
  /\ KindOf[r] \in Grants
  /\ wallet' = [wallet EXCEPT ![u] = Credited(u, amount[r])]
  /\ ledger' = IF KeyIsTaken(r) THEN ledger ELSE ledger \cup {r}
  /\ announced' = announced \cup {r}
  /\ clipped' = IF wallet[u] + amount[r] > WalletMax THEN clipped \cup {u} ELSE clipped
  /\ pc' = [pc EXCEPT ![r] = "booked"]
  /\ UNCHANGED <<slots, suppressed, amount, day, owned, today, overlapped>>

(* applyDeltaInTx, balance and ledger row in one statement, and the outbox
   row; the ledger records the whole delta even where the ceiling cuts the
   balance.                                                                 *)
ApplyDelta(r) ==
  LET u == UserOf[r] IN
  /\ pc[r] = "ready"
  /\ KindOf[r] \in Grants
  /\ ~KeyIsTaken(r)
  /\ wallet' = [wallet EXCEPT ![u] = Credited(u, amount[r])]
  /\ ledger' = ledger \cup {r}
  /\ announced' = announced \cup {r}
  /\ clipped' = IF wallet[u] + amount[r] > WalletMax THEN clipped \cup {u} ELSE clipped
  /\ pc' = [pc EXCEPT ![r] = "booked"]
  /\ UNCHANGED <<slots, suppressed, amount, day, owned, today, overlapped>>

(* Mutant: the debit does not ask for the balance to cover the cost. *)
DebitCapsAtZero(r) == TRUE

(* The debit finds a row: UPDATE ... WHERE balance >= cost. *)
DebitMatches(r) == wallet[UserOf[r]] >= AmountOf[r]

(* writeFlairSlotInTx looks the badge up again, FOR UPDATE, and throws. *)
EntitlementWritten(r) == KindOf[r] = "flair" => TargetOf[r] \in owned

(* applySpendInTx, the outbox row and the entitlement, one transaction. *)
ApplySpend(r) ==
  LET u == UserOf[r]
      rest == wallet[u] - AmountOf[r]
  IN
  /\ pc[r] = "ready"
  /\ KindOf[r] \in Spends
  /\ DebitMatches(r)
  /\ ~KeyIsTaken(r)
  /\ EntitlementWritten(r)
  /\ wallet' = [wallet EXCEPT ![u] = IF rest < 0 THEN 0 ELSE rest]
  /\ ledger' = ledger \cup {r}
  /\ announced' = announced \cup {r}
  /\ slots' = IF KindOf[r] = "flair" THEN slots \cup {r} ELSE slots
  /\ suppressed' = IF KindOf[r] = "suppress" THEN suppressed \cup {r} ELSE suppressed
  /\ pc' = [pc EXCEPT ![r] = "booked"]
  /\ UNCHANGED <<amount, day, owned, today, clipped, overlapped>>

(* The request throws and leaves nothing: its input or the entity it refers
   to is not valid, a read failed, or the transaction is rolled back (a taken
   key or an uncovered cost returns no row, the badge is gone, the database
   gave up, the loser of a concurrent first insert of a wallet among them).  *)
RequestThrows(r) ==
  /\ pc[r] \in {"started", "ready"}
  /\ Refuse(r)

-----------------------------------------------------------------------------
(* The environment: the achievement module revokes, time passes.           *)

RevokeBadge(b) ==
  /\ b \in owned
  /\ owned' = owned \ {b}
  /\ UNCHANGED <<tables, amount, day, pc, today, clipped, overlapped>>

SuppressionExpires(r) ==
  /\ r \in suppressed
  /\ suppressed' = suppressed \ {r}
  /\ UNCHANGED <<wallet, ledger, announced, slots, amount, day, pc, owned, today, clipped, overlapped>>

Midnight ==
  /\ today < MaxDay
  /\ today' = today + 1
  /\ UNCHANGED <<tables, amount, day, pc, owned, clipped, overlapped>>

RequestStep(r) ==
  \/ Start(r) \/ GrantPasses(r) \/ GrantTruncated(r) \/ SpendPasses(r) \/ SpendRefused(r)
  \/ ApplyDelta(r) \/ ApplySpend(r) \/ RequestThrows(r)

Next ==
  \/ \E r \in Requests : RequestStep(r) \/ SuppressionExpires(r)
  \/ \E b \in Badges : RevokeBadge(b)
  \/ Midnight

Spec == Init /\ [][Next]_vars

-----------------------------------------------------------------------------
(* Properties.                                                             *)

UserRows(u) == {r \in ledger : UserOf[r] = u}

(* The reconciliation query finds nothing: a balance is the sum of its
   ledger rows, whatever was retried, refused or rolled back; only the
   ceiling can push it below that sum, and nothing above it.                *)
WalletMatchesLedger ==
  \A u \in Users :
    /\ wallet[u] <= Total(UserRows(u))
    /\ u \notin clipped => wallet[u] = Total(UserRows(u))

(* A key takes effect once: a redelivered event or a retried spend moves no
   coins and buys nothing again.                                            *)
OneRowPerKey ==
  \A r, s \in Requests : pc[r] = "booked" /\ pc[s] = "booked" /\ KeyOf[r] = KeyOf[s] => r = s

(* The daily limits and the refusal to sell a suppression twice hold as long
   as no two such requests of a user overlap: all the guards, which read
   outside the transaction, can promise.                                    *)
LimitsHoldSerially ==
  \A u \in Users, d \in 1 .. today :
    LET on(kind) == {r \in RowsSince(u, kind, d) : day[r] = d} IN
    /\ Total(on("quiz")) <= EarnCap \/ on("quiz") \cap overlapped # {}
    /\ Cardinality(on("tip")) <= TipCap \/ on("tip") \cap overlapped # {}
    /\ \A r, s \in suppressed :
         UserOf[r] = u /\ UserOf[s] = u /\ TargetOf[r] = TargetOf[s]
           => r = s \/ {r, s} \subseteq overlapped
=============================================================================
