---------------------------- MODULE MCCoinLedger ----------------------------
(* Small economies, each around one hazard; the initial state picks one.     *)
EXTENDS CoinLedger

CONSTANTS u1, u2, author1, author2, quiz1, badge1, none,
          reward, bonus, again, other, streak, tip1, tip1retry, tip2,
          flair, hide1, hide2, claw, streak2

R(kind, user, amt, key, target) ==
  [kind |-> kind, user |-> user, amt |-> amt, key |-> key, target |-> target]

Book ==
  [r \in {reward, bonus, again, other, streak, tip1, tip1retry, tip2, flair, hide1, hide2, claw, streak2} |->
    CASE r = reward    -> R("quiz", u1, 2, 1, none)
      [] r = bonus     -> R("quiz", u1, 3, 1, none)
      [] r = again     -> R("quiz", u1, 2, 1, none)
      [] r = other     -> R("quiz", u1, 2, 2, none)
      [] r = streak    -> R("streak", u1, 4, 3, none)
      [] r = tip1      -> R("tip", u1, 1, 4, author1)
      [] r = tip1retry -> R("tip", u1, 1, 4, author1)
      [] r = tip2      -> R("tip", u1, 2, 5, author2)
      [] r = flair     -> R("flair", u1, 3, 6, badge1)
      [] r = hide1     -> R("suppress", u1, 1, 7, quiz1)
      [] r = hide2     -> R("suppress", u1, 1, 8, quiz1)
      [] r = claw      -> R("clawback", u1, 3, 9, none)
      [] r = streak2   -> R("streak", u2, 4, 10, none)]

MCUsers    == {u1, u2}
MCRequests == DOMAIN Book
MCKindOf   == [r \in MCRequests |-> Book[r].kind]
MCUserOf   == [r \in MCRequests |-> Book[r].user]
MCAmountOf == [r \in MCRequests |-> Book[r].amt]
MCKeyOf    == [r \in MCRequests |-> Book[r].key]
MCTargetOf == [r \in MCRequests |-> Book[r].target]
MCAfter    == [r \in MCRequests |-> IF r = bonus THEN reward ELSE none]
MCBadges   == {badge1}

Scenarios ==
  { {reward, bonus, again, other},        \* one attempt redelivered, the daily cap
    {streak, reward, other, streak2},     \* the ceiling, two users
    {streak, tip1, tip1retry, tip2},      \* a retried tip, the tip limit
    {streak, flair, claw, tip1},          \* a revoked badge, competing debits
    {streak, hide1, hide2, claw} }        \* a suppression bought twice

(* Requests outside the scenario are never made: they count as refused. *)
ScenarioInit ==
  /\ wallet = [u \in Users |-> 0]
  /\ ledger = {} /\ announced = {} /\ slots = {} /\ suppressed = {}
  /\ amount = [r \in Requests |-> 0]
  /\ day = [r \in Requests |-> 0]
  /\ \E S \in Scenarios : pc = [r \in Requests |-> IF r \in S THEN "new" ELSE "refused"]
  /\ owned = Badges
  /\ today = 1
  /\ clipped = {} /\ overlapped = {}

CoinSpec == ScenarioInit /\ [][Next]_vars
=============================================================================
