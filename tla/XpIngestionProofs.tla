------------------------- MODULE XpIngestionProofs -------------------------
(* What the dedupe claim guarantees, for any number of grants, replicas and  *)
(* faults.                                                                   *)
EXTENDS XpIngestion, TLAPS

(* TypeOK is preserved by every step. *)
LEMMA TypeStep == TypeOK /\ [Next]_vars => TypeOK'
<1> SUFFICES ASSUME TypeOK, [Next]_vars PROVE TypeOK'
  OBVIOUS
<1> USE XpAssumption DEF TypeOK, queue, bus, redis, handlers, ranking, Fault, Runners
<1>1. CASE UNCHANGED vars
  BY <1>1 DEF vars
<1>2. ASSUME NEW g \in Grants, QueueStep(g) PROVE TypeOK'
  BY <1>2 DEF QueueStep, Earn, PublishXpEarned, MarkProcessed, MarkProcessedFails, XpAddedProcessed
<1>3. ASSUME NEW g \in Grants, ReplayAgesOut(g) \/ ClaimExpires(g) PROVE TypeOK'
  BY <1>3 DEF ReplayAgesOut, ClaimExpires
<1>4. ASSUME NEW p \in Pods, BusStep(p) PROVE TypeOK'
  <2>1. ASSUME NEW g \in Grants, HandleRedisMessage(p, g) PROVE TypeOK'
    BY <2>1 DEF HandleRedisMessage
  <2>2. CASE Disconnect(p) \/ CircuitOpens(p) \/ CircuitCloses(p)
    BY <2>2 DEF Disconnect, CircuitOpens, CircuitCloses
  <2>3. CASE Connect(p)
    BY <2>3 DEF Connect
  <2>4. CASE Crash(p)
    BY <2>4 DEF Crash, Without
  <2> QED BY <1>4, <2>1, <2>2, <2>3, <2>4 DEF BusStep
<1>5. ASSUME NEW r \in Runners, NEW g \in Grants, IngestStep(r, g) PROVE TypeOK'
  <2>1. CASE TryClaimXp(r, g)
    BY <2>1 DEF TryClaimXp
  <2>2. CASE SkipDuplicate(r, g)
    BY <2>2 DEF SkipDuplicate
  <2>3. CASE ClaimFailsOpen(r, g)
    BY <2>3 DEF ClaimFailsOpen
  <2>4. CASE ApplyXpEvent(r, g)
    BY <2>4 DEF ApplyXpEvent, Credit
  <2>5. CASE ApplyRollsBack(r, g)
    BY <2>5 DEF ApplyRollsBack
  <2>6. CASE ApplyCommitUnknown(r, g)
    BY <2>6 DEF ApplyCommitUnknown, Credit
  <2>7. CASE ReleaseXp(r, g) \/ ReleaseFails(r, g)
    BY <2>7 DEF ReleaseXp, ReleaseFails
  <2> QED BY <1>5, <2>1, <2>2, <2>3, <2>4, <2>5, <2>6, <2>7 DEF IngestStep
<1> QED BY <1>1, <1>2, <1>3, <1>4, <1>5 DEF Next

(* Type correctness of the XP pipeline. *)
THEOREM XpTypeCorrect == Spec => []TypeOK
<1>1. Init => TypeOK
  BY XpAssumption DEF Init, TypeOK, Nobody, Runners
<1> QED BY <1>1, TypeStep, PTL DEF Spec

-----------------------------------------------------------------------------
Busy(g) == holding[g] \cup releasing[g]

(* What a claim stands for while it can be trusted: the key is in Redis from
   the claim to the release, its one holder has not credited yet, and once
   the grant is credited there is no holder and the key stays.              *)
ClaimIsMeant(g) ==
  /\ Busy(g) # {} => g \in claims /\ xp[g] = 0
  /\ \A r, s \in Busy(g) : r = s
  /\ holding[g] \cap releasing[g] = {}
  /\ xp[g] > 0 => g \in claims
  /\ xp[g] <= 1

ClaimInv == \A g \in Grants : g \notin inDoubt => ClaimIsMeant(g)

(* A step about another grant cannot disturb a claim. *)
LEMMA ClaimFrame ==
  ASSUME NEW g \in Grants, ClaimInv, TypeOK,
         inDoubt \subseteq inDoubt',
         holding'[g] \subseteq holding[g], releasing'[g] \subseteq releasing[g],
         xp'[g] = xp[g], g \in claims => g \in claims'
  PROVE  g \notin inDoubt' => ClaimIsMeant(g)'
BY DEF ClaimInv, ClaimIsMeant, Busy, TypeOK

(* The claim keeps its meaning in every step that does not put the grant in
   doubt: the key step of CreditedOnce.                                     *)
LEMMA ClaimStep == TypeOK /\ ClaimInv /\ [Next]_vars => ClaimInv'
<1> SUFFICES ASSUME TypeOK, ClaimInv, [Next]_vars, NEW h \in Grants, h \notin inDoubt'
             PROVE ClaimIsMeant(h)'
  BY DEF ClaimInv
<1> USE DEF queue, bus, redis, handlers, ranking
<1>1. CASE UNCHANGED vars
  BY <1>1, ClaimFrame DEF vars
<1>2. ASSUME NEW g \in Grants, QueueStep(g) PROVE ClaimIsMeant(h)'
  BY <1>2, ClaimFrame DEF QueueStep, Earn, PublishXpEarned, MarkProcessed, MarkProcessedFails,
     XpAddedProcessed
<1>3. ASSUME NEW g \in Grants, ReplayAgesOut(g) \/ ClaimExpires(g) PROVE ClaimIsMeant(h)'
  BY <1>3, ClaimFrame DEF ReplayAgesOut, ClaimExpires, TypeOK
<1>4. ASSUME NEW p \in Pods, BusStep(p) PROVE ClaimIsMeant(h)'
  <2>1. ASSUME NEW g \in Grants, HandleRedisMessage(p, g) PROVE ClaimIsMeant(h)'
    BY <2>1, ClaimFrame DEF HandleRedisMessage
  <2>2. CASE Disconnect(p) \/ CircuitOpens(p) \/ CircuitCloses(p) \/ Connect(p)
    BY <2>2, ClaimFrame DEF Disconnect, CircuitOpens, CircuitCloses, Connect
  <2>3. CASE Crash(p)
    BY <2>3, ClaimFrame DEF Crash, Without
  <2> QED BY <1>4, <2>1, <2>2, <2>3 DEF BusStep
<1>5. ASSUME NEW r \in Runners, NEW g \in Grants, IngestStep(r, g) PROVE ClaimIsMeant(h)'
  <2> h \notin inDoubt
    BY <1>5 DEF IngestStep, TryClaimXp, SkipDuplicate, ClaimFailsOpen, ApplyXpEvent,
       ApplyRollsBack, ApplyCommitUnknown, ReleaseXp, ReleaseFails
  <2> ClaimIsMeant(h)
    BY DEF ClaimInv
  <2>1. CASE g # h
    BY <1>5, <2>1, ClaimFrame DEF IngestStep, TryClaimXp, SkipDuplicate, ClaimFailsOpen,
       ApplyXpEvent, ApplyRollsBack, ApplyCommitUnknown, ReleaseXp, ReleaseFails, Credit, TypeOK
  <2>2. CASE g = h
    <3> USE <2>2 DEF TypeOK, ClaimIsMeant, Busy
    <3>1. CASE TryClaimXp(r, g)
      BY <3>1 DEF TryClaimXp
    <3>2. CASE SkipDuplicate(r, g)
      BY <3>2 DEF SkipDuplicate
    <3>3. CASE ClaimFailsOpen(r, g) \/ ApplyCommitUnknown(r, g)
      BY <3>3 DEF ClaimFailsOpen, ApplyCommitUnknown
    <3>4. CASE ApplyXpEvent(r, g)
      BY <3>4 DEF ApplyXpEvent, Credit
    <3>5. CASE ApplyRollsBack(r, g)
      BY <3>5 DEF ApplyRollsBack
    <3>6. CASE ReleaseXp(r, g)
      BY <3>6 DEF ReleaseXp
    <3>7. CASE ReleaseFails(r, g)
      BY <3>7 DEF ReleaseFails
    <3> QED BY <1>5, <3>1, <3>2, <3>3, <3>4, <3>5, <3>6, <3>7 DEF IngestStep
  <2> QED BY <2>1, <2>2
<1> QED BY <1>1, <1>2, <1>3, <1>4, <1>5 DEF Next

(* Nothing on the way to the ranking is about a grant that nobody committed. *)
Unheard(g) ==
  /\ g \notin sent /\ g \notin replay /\ xp[g] = 0
  /\ \A p \in Pods : <<p, g>> \notin wire
  /\ received[g] = {} /\ holding[g] = {} /\ releasing[g] = {}

EarnedInv == \A g \in Grants : row[g] = "none" => Unheard(g)

LEMMA EarnedStep == TypeOK /\ EarnedInv /\ [Next]_vars => EarnedInv'
<1> SUFFICES ASSUME TypeOK, EarnedInv, [Next]_vars, NEW h \in Grants, row'[h] = "none"
             PROVE  Unheard(h)'
  BY DEF EarnedInv
<1> USE DEF queue, bus, redis, handlers, ranking
<1>0. row[h] = "none" /\ Unheard(h)
  <2>1. row[h] = "none"
    BY DEF Next, QueueStep, BusStep, IngestStep, Earn, PublishXpEarned, MarkProcessed,
       MarkProcessedFails, XpAddedProcessed, ReplayAgesOut, ClaimExpires, HandleRedisMessage,
       Disconnect, Connect, CircuitOpens, CircuitCloses, Crash, TryClaimXp, SkipDuplicate,
       ClaimFailsOpen, ApplyXpEvent, ApplyRollsBack, ApplyCommitUnknown, ReleaseXp,
       ReleaseFails, vars, TypeOK
  <2> QED
    BY <2>1 DEF EarnedInv
<1> USE <1>0 DEF Unheard, TypeOK
<1>1. CASE UNCHANGED vars
  BY <1>1 DEF vars
<1>2. ASSUME NEW g \in Grants, QueueStep(g) PROVE Unheard(h)'
  <2>1. ASSUME NEW p \in Pods, Earn(g, p) PROVE Unheard(h)'
    BY <2>1 DEF Earn
  <2>2. ASSUME NEW p \in Pods, PublishXpEarned(g, p) PROVE Unheard(h)'
    BY <2>2 DEF PublishXpEarned
  <2>3. CASE MarkProcessed(g) \/ MarkProcessedFails(g) \/ XpAddedProcessed(g)
    BY <2>3 DEF MarkProcessed, MarkProcessedFails, XpAddedProcessed
  <2> QED BY <1>2, <2>1, <2>2, <2>3 DEF QueueStep
<1>3. ASSUME NEW g \in Grants, ReplayAgesOut(g) \/ ClaimExpires(g) PROVE Unheard(h)'
  BY <1>3 DEF ReplayAgesOut, ClaimExpires
<1>4. ASSUME NEW p \in Pods, BusStep(p) PROVE Unheard(h)'
  <2>1. ASSUME NEW g \in Grants, HandleRedisMessage(p, g) PROVE Unheard(h)'
    <3>1. g # h
      BY <2>1 DEF HandleRedisMessage
    <3> QED BY <2>1, <3>1 DEF HandleRedisMessage
  <2>2. CASE Disconnect(p) \/ CircuitOpens(p) \/ CircuitCloses(p)
    BY <2>2 DEF Disconnect, CircuitOpens, CircuitCloses
  <2>3. CASE Connect(p)
    BY <2>3 DEF Connect
  <2>4. CASE Crash(p)
    BY <2>4 DEF Crash, Without
  <2> QED BY <1>4, <2>1, <2>2, <2>3, <2>4 DEF BusStep
<1>5. ASSUME NEW r \in Runners, NEW g \in Grants, IngestStep(r, g) PROVE Unheard(h)'
  <2>1. r \in received[g] \/ r \in holding[g] \/ r \in releasing[g]
    BY <1>5 DEF IngestStep, TryClaimXp, SkipDuplicate, ClaimFailsOpen, ApplyXpEvent,
       ApplyRollsBack, ApplyCommitUnknown, ReleaseXp, ReleaseFails
  <2>2. g # h
    BY <2>1
  <2> QED BY <1>5, <2>2 DEF IngestStep, TryClaimXp, SkipDuplicate, ClaimFailsOpen, ApplyXpEvent,
       ApplyRollsBack, ApplyCommitUnknown, ReleaseXp, ReleaseFails, Credit
<1> QED BY <1>1, <1>2, <1>3, <1>4, <1>5 DEF Next

(* XP is credited at most once for a grant whose claim was never in doubt, and
   only after its producer has committed, for any number of replicas,
   deliveries, replays and crashes.                                         *)
THEOREM XpCreditedOnce == Spec => []CreditedOnce
<1>1. Init => TypeOK /\ ClaimInv /\ EarnedInv
  BY XpAssumption DEF Init, TypeOK, Nobody, Runners, ClaimInv, ClaimIsMeant, Busy, EarnedInv, Unheard
<1>2. ClaimInv /\ EarnedInv => CreditedOnce
  <2> SUFFICES ASSUME ClaimInv, EarnedInv, NEW g \in Grants
               PROVE  (g \notin inDoubt => xp[g] <= 1) /\ (xp[g] > 0 => row[g] # "none")
    BY DEF CreditedOnce
  <2>1. g \notin inDoubt => xp[g] <= 1
    BY DEF ClaimInv, ClaimIsMeant
  <2>2. row[g] = "none" => xp[g] = 0
    BY DEF EarnedInv, Unheard
  <2> QED BY <2>1, <2>2
<1> QED BY <1>1, <1>2, TypeStep, ClaimStep, EarnedStep, PTL DEF Spec
=============================================================================
