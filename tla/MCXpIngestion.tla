--------------------------- MODULE MCXpIngestion ---------------------------
(* An attempt, ingested in process and through the outbox, on two replicas,  *)
(* or a grant that only travels through the outbox.                          *)
EXTENDS XpIngestion

CONSTANTS attempt, bonus, pod1, pod2

MCGrants   == {attempt, bonus}
MCAttempts == {attempt}
MCPods     == {pod1, pod2}

(* One grant is still to be earned; the other was ingested through the outbox
   long ago, and its claim is still in Redis.                                *)
OneToCome ==
  \E old \in Grants :
    /\ row = [g \in Grants |-> IF g = old THEN "processed" ELSE "none"]
    /\ sent = {} /\ wire = {} /\ connected = Pods /\ replay = {}
    /\ open = {} /\ claims = {old}
    /\ received = Nobody /\ holding = Nobody /\ releasing = Nobody
    /\ xp = [g \in Grants |-> IF g = old THEN 1 ELSE 0]
    /\ addedLive = {} /\ announced = {old}
    /\ faults = 0 /\ inDoubt = {}

MCSpec == OneToCome /\ [][Next]_vars /\ Fairness
=============================================================================
