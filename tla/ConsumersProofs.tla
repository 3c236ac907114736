--------------------------- MODULE ConsumersProofs --------------------------
(***************************************************************************)
(* Proofs about the two components that consume a subscription's events.   *)
(*                                                                         *)
(* Delivery, for every set of workers, messages and contents, every lease  *)
(* and every number of writes: an effect happens once and an outcome that  *)
(* is settled stays so.                                                    *)
(*                                                                         *)
(* Below it Projections, for any number of records, generations, appliers  *)
(* and rebuilds: no change is lost, generations stay apart, the revisions  *)
(* of the active ledger only go forward, and the groups are what it adds   *)
(* up to.                                                                  *)
(***************************************************************************)
EXTENDS Delivery, Projections, WellFoundedInduction, TLAPS

(* Every step keeps the documents and the workers' claims well typed.      *)
LEMMA TypeStep ==
  ASSUME DeliveryTypeOK, [DeliveryNext]_deliveryVars
  PROVE  DeliveryTypeOK'
  <1> USE DeliveryAssumption DEF DeliveryTypeOK, Holding
  <1>0. ASSUME NEW w \in Workers, pc[w] # "idle"
        PROVE  /\ claim[w] \in Claim
               /\ claim[w] # NoDelivery
               /\ \A s \in Statuses : Written(w, s) \in Document
    BY <1>0 DEF Claim, Document, Written
  <1>1. ASSUME NEW w \in Workers, NEW m \in Messages, NEW h \in Contents,
               ClaimRead(w, m, h)
        PROVE  DeliveryTypeOK'
    <2>1. Version(m) \in Nat
      BY DEF Version, Document
    <2>2. [message |-> m, hash |-> h, version |-> Version(m),
           lease |-> LeaseMs, started |-> FALSE] \in Claim
      BY <2>1 DEF Claim
    <2> QED
      BY <1>1, <2>2 DEF ClaimRead
  <1>2. ASSUME NEW w \in Workers, ClaimWrite(w)
        PROVE  DeliveryTypeOK'
    BY <1>0, <1>2 DEF ClaimWrite, Release, Put, Statuses, Claim
  <1>3. ASSUME NEW w \in Workers, ExternalCheck(w)
        PROVE  DeliveryTypeOK'
    BY <1>0, <1>3 DEF ExternalCheck
  <1>4. ASSUME NEW w \in Workers, ExternalIntent(w)
        PROVE  DeliveryTypeOK'
    BY <1>0, <1>4 DEF ExternalIntent, Put, Statuses, Claim
  <1>5. ASSUME NEW w \in Workers, ExternalCall(w)
        PROVE  DeliveryTypeOK'
    BY <1>0, <1>5 DEF ExternalCall, Claim
  <1>6. ASSUME NEW w \in Workers, Complete(w)
        PROVE  DeliveryTypeOK'
    BY <1>0, <1>6 DEF Complete, Release, Put, Statuses, Claim
  <1>7. ASSUME NEW w \in Workers, HandlerFailed(w)
        PROVE  DeliveryTypeOK'
    BY <1>7 DEF HandlerFailed
  <1>8. ASSUME NEW w \in Workers, Failed(w)
        PROVE  DeliveryTypeOK'
    BY <1>0, <1>8 DEF Failed, Release, Put, Statuses, Claim
  <1>9. ASSUME NEW w \in Workers, Crash(w)
        PROVE  DeliveryTypeOK'
    BY <1>9 DEF Crash, Release
  <1>10. ASSUME Tick
         PROVE  DeliveryTypeOK'
    BY <1>10 DEF Tick, Document, Claim
  <1>11. ASSUME UNCHANGED deliveryVars
         PROVE  DeliveryTypeOK'
    BY <1>11 DEF deliveryVars
  <1> QED
    BY <1>1, <1>2, <1>3, <1>4, <1>5, <1>6, <1>7, <1>8, <1>9, <1>10, <1>11 DEF DeliveryNext

(* Type correctness of the inbox.                                          *)
THEOREM DeliveryTypeCorrect == DeliverySpec => []DeliveryTypeOK
  <1>1. DeliveryInit => DeliveryTypeOK
    BY DEF DeliveryInit, DeliveryTypeOK, Holding
  <1>2. DeliveryTypeOK /\ [DeliveryNext]_deliveryVars => DeliveryTypeOK'
    BY TypeStep
  <1> QED
    BY <1>1, <1>2, PTL DEF DeliverySpec

-----------------------------------------------------------------------------
(* A write under a current token supersedes every token of the message,    *)
(* the writer's old one included.                                          *)
LEMMA PutFences ==
  ASSUME DeliveryTypeOK, DeliveryTypeOK', TokensFenced, NEW w \in Workers, pc[w] # "idle", Current(w),
         NEW s \in Statuses, Put(w, s)
  PROVE  /\ doc'[claim[w].message] = Written(w, s)
         /\ doc'[claim[w].message] # NoDelivery
         /\ doc'[claim[w].message].status = s
         /\ doc'[claim[w].message].hash = claim[w].hash
         /\ doc'[claim[w].message].version = claim[w].version + 1
         /\ \A m \in Messages \ {claim[w].message} : doc'[m] = doc[m]
         /\ claim[w] \in Claim
         /\ \A v \in Workers :
              /\ pc[v] # "idle"
              /\ claim[v].message = claim[w].message
              => claim[v].version < doc'[claim[w].message].version
  <1>1. claim[w] \in Claim
    BY DEF DeliveryTypeOK
  <1>2. Written(w, s) \in Document
    BY <1>1 DEF Written, Document, Claim
  <1>3. doc'[claim[w].message] = Written(w, s)
    BY <1>1 DEF Put, DeliveryTypeOK, Claim
  <1>4. ASSUME NEW v \in Workers, pc[v] # "idle", claim[v].message = claim[w].message
        PROVE  claim[v].version < doc'[claim[w].message].version
    <2>1. claim[v] \in Claim /\ claim[v].version <= Version(claim[w].message)
      BY <1>4 DEF DeliveryTypeOK, TokensFenced
    <2>2. doc'[claim[w].message].version = Version(claim[w].message) + 1
      BY <1>3 DEF Current, Written
    <2>3. Version(claim[w].message) \in Nat
      BY <1>1 DEF Current, Claim
    <2> QED
      BY <2>1, <2>2, <2>3 DEF Claim
  <1> QED
    BY <1>1, <1>2, <1>3, <1>4, DeliveryAssumption DEF Written, Put, DeliveryTypeOK, Claim

(* After a write under a current token the other workers' claims are still *)
(* described by TokenDescribes, and tokens are fenced.                     *)
LEMMA PutKeepsTokens ==
  ASSUME DeliveryInv, DeliveryTypeOK', NEW w \in Workers, pc[w] # "idle", Current(w),
         NEW s \in Statuses, Put(w, s), UNCHANGED called,
         \A v \in Workers \ {w} : pc'[v] = pc[v] /\ claim'[v] = claim[v],
         pc'[w] # "idle" =>
           /\ claim'[w].message = claim[w].message
           /\ claim'[w].version \in {claim[w].version, claim[w].version + 1}
  PROVE  /\ TokensFenced'
         /\ \A v \in Workers \ {w} : pc'[v] # "idle" => TokenDescribes(v)'
  <1> DEFINE m == claim[w].message
  <1>1. /\ doc'[m] # NoDelivery
        /\ doc'[m].version = claim[w].version + 1
        /\ \A k \in Messages \ {m} : doc'[k] = doc[k]
        /\ claim[w] \in Claim
        /\ \A v \in Workers : pc[v] # "idle" /\ claim[v].message = m =>
             claim[v].version < doc'[m].version
    BY PutFences DEF DeliveryInv
  <1>2. \A v \in Workers \ {w} : pc[v] # "idle" =>
          claim[v] \in Claim /\ claim[v].message \in Messages
    BY DEF DeliveryInv, DeliveryTypeOK, Claim
  <1>3. \A v \in Workers \ {w} : pc'[v] # "idle" =>
          IF claim[v].message = m THEN ~Current(v)' ELSE Current(v)' <=> Current(v)
    BY <1>1, <1>2 DEF Current, Version, Claim
  <1>4. \A v \in Workers \ {w} :
          pc[v] \in {"handling", "external"} /\ claim[v].started =>
            claim[v].message # m
    <2> SUFFICES ASSUME NEW v \in Workers \ {w}, pc[v] \in {"handling", "external"},
                        claim[v].started, claim[v].message = m
                 PROVE  FALSE
      OBVIOUS
    <2>1. Current(v) /\ IsStatus(m, {"external"})
      BY DEF DeliveryInv, TokenStatus, TokenDescribes, Holding
    <2>2. CASE pc[w] \in Holding
      BY <2>1, <2>2 DEF DeliveryInv, TokensFenced, OneTokenHolder, Holding
    <2>3. CASE pc[w] \notin Holding
      <3>1. pc[w] = "claiming"
        BY <2>3 DEF DeliveryInv, DeliveryTypeOK
      <3> QED
        BY <2>1, <3>1 DEF DeliveryInv, TokenStatus, TokenDescribes, IsStatus
    <2> QED
      BY <2>2, <2>3
  <1>5. ASSUME NEW v \in Workers \ {w}, pc'[v] # "idle"
        PROVE  TokenDescribes(v)'
    <2>1. pc[v] # "idle" /\ TokenDescribes(v)
      BY <1>5 DEF DeliveryInv, TokenStatus
    <2>2. CASE claim[v].message = m
      BY <1>1, <1>3, <1>4, <1>5, <2>1, <2>2 DEF TokenDescribes, IsStatus
    <2>3. CASE claim[v].message # m
      BY <1>1, <1>2, <1>3, <1>5, <2>1, <2>3 DEF TokenDescribes, IsStatus
    <2> QED
      BY <2>2, <2>3
  <1>6. (\A v \in Workers : pc[v] # "idle" =>
           claim[v].version <= Version(claim[v].message))'
    <2> SUFFICES ASSUME NEW v \in Workers, pc'[v] # "idle"
                 PROVE  (claim[v].version <= Version(claim[v].message))'
      OBVIOUS
    <2>1. CASE v = w
      BY <1>1, <2>1 DEF Version, Claim
    <2>2. CASE v # w
      <3>1. pc[v] # "idle" /\ claim[v].version <= Version(claim[v].message)
        BY <2>2 DEF DeliveryInv, TokensFenced
      <3>2. CASE claim[v].message = m
        BY <1>1, <1>2, <2>2, <3>1, <3>2 DEF Version, Claim
      <3>3. CASE claim[v].message # m
        BY <1>1, <1>2, <2>2, <3>1, <3>3 DEF Version
      <3> QED
        BY <3>2, <3>3
    <2> QED
      BY <2>1, <2>2
  <1>7. OneTokenHolder'
    <2> SUFFICES ASSUME NEW u \in Workers, NEW v \in Workers, u # v,
                        pc'[u] \in Holding, pc'[v] \in Holding,
                        claim'[u].message = claim'[v].message,
                        Current(u)', Current(v)'
                 PROVE  FALSE
      BY DEF OneTokenHolder
    <2>1. pc'[u] # "idle" /\ pc'[v] # "idle"
      BY DEF Holding
    <2>2. CASE u # w /\ v # w
      BY <1>3, <2>1, <2>2 DEF DeliveryInv, TokensFenced, OneTokenHolder
    <2>3. CASE u = w \/ v = w
      BY <1>3, <2>1, <2>3
    <2> QED
      BY <2>2, <2>3
  <1> QED
    BY <1>5, <1>6, <1>7 DEF TokensFenced

(* A step that writes no document, records no effect and only moves or     *)
(* releases workers keeps the invariant, if it keeps TokenStatus.          *)
LEMMA QuietStep ==
  ASSUME DeliveryInv, DeliveryTypeOK', TokenStatus', UNCHANGED <<doc, applied, called>>,
         \A w \in Workers : pc'[w] # "idle" =>
           /\ claim'[w] = claim[w]
           /\ pc[w] # "idle"
           /\ pc'[w] \in Holding => pc[w] \in Holding
  PROVE  DeliveryInv'
  <1>1. AppliedOnce' /\ CalledOnce'
    BY DEF DeliveryInv, AppliedOnce, CalledOnce, IsStatus
  <1>2. (\A w \in Workers : pc[w] # "idle" =>
           claim[w].version <= Version(claim[w].message))'
    BY DEF DeliveryInv, TokensFenced, Version
  <1>3. OneTokenHolder'
    BY DEF DeliveryInv, TokensFenced, OneTokenHolder, Current, Version, Holding
  <1> QED
    BY <1>1, <1>2, <1>3 DEF DeliveryInv, TokensFenced

(* A write under a current token keeps the invariant if it describes the   *)
(* writer's new claim and agrees with the effects recorded.                *)
LEMMA PutStep ==
  ASSUME DeliveryInv, DeliveryTypeOK', NEW w \in Workers, pc[w] # "idle", Current(w),
         NEW s \in Statuses, Put(w, s), UNCHANGED called,
         \A v \in Workers \ {w} : pc'[v] = pc[v] /\ claim'[v] = claim[v],
         pc'[w] # "idle" =>
           /\ claim'[w].message = claim[w].message
           /\ claim'[w].version \in {claim[w].version, claim[w].version + 1}
           /\ TokenDescribes(w)',
         applied'[claim[w].message] = IF s = "complete" THEN 1 ELSE 0,
         \A m \in Messages \ {claim[w].message} : applied'[m] = applied[m],
         s \in {"external", "complete"} \/ called[claim[w].message] = 0
  PROVE  DeliveryInv'
  <1> DEFINE k == claim[w].message
  <1>1. /\ doc'[k] # NoDelivery
        /\ doc'[k].status = s
        /\ \A m \in Messages \ {k} : doc'[m] = doc[m]
    BY PutFences DEF DeliveryInv
  <1>2. TokensFenced' /\ TokenStatus'
    BY PutKeepsTokens DEF TokenStatus
  <1>3. AppliedOnce'
    BY <1>1 DEF DeliveryInv, AppliedOnce, IsStatus
  <1>4. CalledOnce'
    BY <1>1 DEF DeliveryInv, CalledOnce, IsStatus
  <1> QED
    BY <1>2, <1>3, <1>4 DEF DeliveryInv

(* Every step of the inbox keeps the invariant.                            *)
LEMMA InvariantStep ==
  ASSUME DeliveryInv, [DeliveryNext]_deliveryVars
  PROVE  DeliveryInv'
  <1>0. DeliveryTypeOK'
    BY TypeStep DEF DeliveryInv
  <1>a. ASSUME NEW w \in Workers, pc[w] # "idle"
        PROVE  /\ claim[w] \in Claim
               /\ claim[w].message \in Messages
               /\ TokenDescribes(w)
    BY <1>a DEF DeliveryInv, DeliveryTypeOK, TokenStatus, Claim
  <1>b. \A m \in Messages :
          /\ applied[m] = IF IsStatus(m, {"complete"}) THEN 1 ELSE 0
          /\ called[m] \in {0, 1}
          /\ called[m] = 1 => IsStatus(m, {"external", "complete"})
    BY DEF DeliveryInv, AppliedOnce, CalledOnce, DeliveryTypeOK
  <1>1. ASSUME NEW w \in Workers, NEW m \in Messages, NEW h \in Contents,
               ClaimRead(w, m, h)
        PROVE  DeliveryInv'
    <2>1. /\ pc'[w] = "claiming"
          /\ claim'[w] = [message |-> m, hash |-> h, version |-> Version(m),
                          lease |-> LeaseMs, started |-> FALSE]
          /\ \A v \in Workers \ {w} : pc'[v] = pc[v] /\ claim'[v] = claim[v]
          /\ UNCHANGED <<doc, applied, called>>
      BY <1>1 DEF ClaimRead, DeliveryInv, DeliveryTypeOK
    <2>2. TokenDescribes(w)'
      BY <1>1, <2>1 DEF ClaimRead, Claimable, TokenDescribes, Current, Version,
                        IsStatus, Holding
    <2>3. \A v \in Workers \ {w} : pc'[v] # "idle" => TokenDescribes(v)'
      BY <1>a, <2>1 DEF TokenDescribes, Current, Version, IsStatus
    <2>4. AppliedOnce' /\ CalledOnce'
      BY <2>1 DEF DeliveryInv, AppliedOnce, CalledOnce, IsStatus
    <2>5. (\A v \in Workers : pc[v] # "idle" =>
             claim[v].version <= Version(claim[v].message))'
      <3>1. Version(m) \in Nat
        BY DEF DeliveryInv, DeliveryTypeOK, Version, Document
      <3> QED
        BY <2>1, <3>1 DEF DeliveryInv, TokensFenced, Version
    <2>6. OneTokenHolder'
      BY <2>1 DEF DeliveryInv, TokensFenced, OneTokenHolder, Current, Version, Holding
    <2> QED
      BY <1>0, <2>2, <2>3, <2>4, <2>5, <2>6 DEF DeliveryInv, TokensFenced, TokenStatus
  <1>2. ASSUME NEW w \in Workers, ClaimWrite(w), Current(w)
        PROVE  DeliveryInv'
    <2>1. /\ pc[w] = "claiming"
          /\ Put(w, "running")
          /\ pc'[w] = "handling"
          /\ claim'[w] = [claim[w] EXCEPT !.version = @ + 1]
          /\ \A v \in Workers \ {w} : pc'[v] = pc[v] /\ claim'[v] = claim[v]
          /\ UNCHANGED <<applied, called>>
      BY <1>2 DEF ClaimWrite, DeliveryInv, DeliveryTypeOK
    <2>2. /\ claim[w] \in Claim
          /\ ~IsStatus(claim[w].message, {"external", "complete"})
          /\ ~claim[w].started
      BY <1>2, <1>a, <2>1 DEF TokenDescribes
    <2>3. applied[claim[w].message] = 0 /\ called[claim[w].message] = 0
      BY <1>a, <1>b, <2>1, <2>2 DEF IsStatus
    <2>4. /\ doc'[claim[w].message] # NoDelivery
          /\ doc'[claim[w].message].status = "running"
          /\ doc'[claim[w].message].hash = claim[w].hash
          /\ doc'[claim[w].message].version = claim[w].version + 1
      BY <1>0, <1>2, <2>1, PutFences DEF DeliveryInv, Statuses
    <2>5. /\ claim'[w].message = claim[w].message
          /\ claim'[w].version = claim[w].version + 1
          /\ claim'[w].hash = claim[w].hash
          /\ ~claim'[w].started
      BY <2>1, <2>2 DEF Claim
    <2>6. TokenDescribes(w)'
      BY <2>1, <2>4, <2>5 DEF TokenDescribes, Current, Version, IsStatus
    <2> QED
      BY <1>0, <1>2, <2>1, <2>3, <2>5, <2>6, PutStep DEF Statuses
  <1>3. ASSUME NEW w \in Workers,
               \/ ClaimWrite(w) /\ ~Current(w)
               \/ Failed(w) /\ ~(~claim[w].started /\ Current(w))
               \/ Crash(w)
        PROVE  DeliveryInv'
    <2>1. /\ pc'[w] = "idle"
          /\ \A v \in Workers \ {w} : pc'[v] = pc[v] /\ claim'[v] = claim[v]
          /\ UNCHANGED <<doc, applied, called>>
      BY <1>3 DEF ClaimWrite, Failed, Crash, Release, DeliveryInv, DeliveryTypeOK
    <2>2. TokenStatus'
      BY <1>a, <2>1 DEF TokenStatus, TokenDescribes, Current, Version, IsStatus
    <2> QED
      BY <1>0, <2>1, <2>2, QuietStep
  <1>4. ASSUME NEW w \in Workers, ExternalCheck(w) \/ HandlerFailed(w)
        PROVE  DeliveryInv'
    <2>1. /\ pc[w] \in {"handling", "external"}
          /\ pc'[w] \in {"intent", "failing"}
          /\ pc'[w] = "intent" => ~claim[w].started
          /\ \A v \in Workers \ {w} : pc'[v] = pc[v]
          /\ UNCHANGED <<doc, claim, applied, called>>
      BY <1>4 DEF ExternalCheck, HandlerFailed, DeliveryInv, DeliveryTypeOK
    <2>2. TokenDescribes(w)'
      BY <1>a, <2>1 DEF TokenDescribes, Current, Version, IsStatus, Holding
    <2>3. \A v \in Workers \ {w} : pc'[v] # "idle" => TokenDescribes(v)'
      BY <1>a, <2>1 DEF TokenDescribes, Current, Version, IsStatus
    <2> QED
      BY <1>0, <2>1, <2>2, <2>3, QuietStep DEF TokenStatus, Holding
  <1>5. ASSUME NEW w \in Workers, ExternalIntent(w)
        PROVE  DeliveryInv'
    <2> DEFINE m == claim[w].message
    <2>1. /\ pc[w] = "intent"
          /\ \A v \in Workers \ {w} : pc'[v] = pc[v] /\ claim'[v] = claim[v]
          /\ UNCHANGED <<applied, called>>
      BY <1>5 DEF ExternalIntent, DeliveryInv, DeliveryTypeOK
    <2>2. claim[w] \in Claim /\ ~claim[w].started /\ m \in Messages
          /\ doc[m] # NoDelivery
      BY <1>a, <2>1 DEF TokenDescribes, Holding
    <2>3. CASE Current(w)
      <3>1. Put(w, "external")
        BY <1>5, <2>3 DEF ExternalIntent
      <3>2. IsStatus(m, {"running"})
        BY <1>a, <2>1, <2>2, <2>3 DEF TokenDescribes, Holding
      <3>3. applied[m] = 0 /\ called[m] = 0
        BY <1>b, <2>2, <3>2 DEF IsStatus
      <3>4. /\ doc'[m] # NoDelivery
            /\ doc'[m].status = "external"
            /\ doc'[m].hash = claim[w].hash
            /\ doc'[m].version = claim[w].version + 1
        BY <1>0, <2>1, <2>3, <3>1, PutFences DEF DeliveryInv, Statuses
      <3>5. \/ /\ pc'[w] = "external"
               /\ claim'[w] = [claim[w] EXCEPT !.version = @ + 1, !.started = TRUE]
            \/ pc'[w] = "failing" /\ claim'[w] = claim[w]
        BY <1>5 DEF ExternalIntent, DeliveryInv, DeliveryTypeOK
      <3>6. /\ claim'[w].message = m
            /\ claim'[w].version \in {claim[w].version, claim[w].version + 1}
            /\ TokenDescribes(w)'
        <4>1. CASE pc'[w] = "external"
          BY <2>1, <2>2, <3>3, <3>4, <3>5, <4>1
          DEF TokenDescribes, Current, Version, IsStatus, Claim
        <4>2. CASE pc'[w] = "failing"
          BY <2>1, <2>2, <3>4, <3>5, <4>2
          DEF TokenDescribes, Current, Version, IsStatus, Claim
        <4> QED
          BY <3>5, <4>1, <4>2
      <3> QED
        BY <1>0, <2>1, <2>3, <3>1, <3>3, <3>6, PutStep DEF Statuses
    <2>4. CASE ~Current(w)
      <3>1. pc'[w] = "failing" /\ UNCHANGED <<doc, claim>>
        BY <1>5, <2>4 DEF ExternalIntent, DeliveryInv, DeliveryTypeOK
      <3>2. TokenStatus'
        BY <1>a, <2>1, <3>1
        DEF TokenStatus, TokenDescribes, Current, Version, IsStatus, Holding
      <3> QED
        BY <1>0, <2>1, <3>1, <3>2, QuietStep DEF Holding
    <2> QED
      BY <2>3, <2>4
  <1>6. ASSUME NEW w \in Workers, ExternalCall(w)
        PROVE  DeliveryInv'
    <2> DEFINE m == claim[w].message
    <2>1. /\ pc[w] = "external"
          /\ pc'[w] = "handling"
          /\ \A v \in Workers \ {w} : pc'[v] = pc[v]
          /\ UNCHANGED <<doc, claim, applied>>
      BY <1>6 DEF ExternalCall, DeliveryInv, DeliveryTypeOK
    <2>2. /\ m \in Messages
          /\ claim[w].started
          /\ called[m] = 0
          /\ Current(w)
          /\ IsStatus(m, {"external"})
      BY <1>a, <2>1 DEF TokenDescribes, Holding
    <2>3. called'[m] = 1 /\ \A k \in Messages \ {m} : called'[k] = called[k]
      BY <1>6, <2>2 DEF ExternalCall, DeliveryInv, DeliveryTypeOK
    <2>4. AppliedOnce' /\ CalledOnce'
      BY <2>1, <2>2, <2>3 DEF DeliveryInv, AppliedOnce, CalledOnce, IsStatus
    <2>5. TokenDescribes(w)'
      BY <1>a, <2>1, <2>2 DEF TokenDescribes, Current, Version, IsStatus, Holding
    <2>6. \A v \in Workers \ {w} : pc'[v] # "idle" => TokenDescribes(v)'
      <3> SUFFICES ASSUME NEW v \in Workers \ {w}, pc[v] # "idle"
                   PROVE  TokenDescribes(v)'
        BY <2>1
      <3>1. pc[v] = "external" => claim[v].message # m
        BY <1>a, <2>1, <2>2 DEF TokenDescribes, DeliveryInv, TokensFenced, OneTokenHolder, Holding
      <3> QED
        BY <1>a, <2>1, <2>3, <3>1 DEF TokenDescribes, Current, Version, IsStatus
    <2>7. TokensFenced'
      BY <2>1 DEF DeliveryInv, TokensFenced, OneTokenHolder, Current, Version, Holding
    <2> QED
      BY <1>0, <2>4, <2>5, <2>6, <2>7 DEF DeliveryInv, TokenStatus
  <1>7. ASSUME NEW w \in Workers, Complete(w)
        PROVE  DeliveryInv'
    <2> DEFINE m == claim[w].message
    <2>1. /\ pc[w] = "handling"
          /\ Current(w)
          /\ Put(w, "complete")
          /\ \A v \in Workers \ {w} : pc'[v] = pc[v] /\ claim'[v] = claim[v]
          /\ UNCHANGED called
      BY <1>7 DEF Complete, Release, DeliveryInv, DeliveryTypeOK
    <2>2. /\ claim[w] \in Claim
          /\ m \in Messages
          /\ ~IsStatus(m, {"complete"})
      BY <1>a, <2>1 DEF TokenDescribes, Holding, IsStatus
    <2>3. applied'[m] = 1 /\ \A k \in Messages \ {m} : applied'[k] = applied[k]
      BY <1>7, <1>b, <2>2 DEF Complete, DeliveryInv, DeliveryTypeOK
    <2>4. /\ doc'[m] # NoDelivery
          /\ doc'[m].version = claim[w].version + 1
      BY <1>0, <2>1, PutFences DEF DeliveryInv, Statuses
    <2>5. pc'[w] # "idle" =>
            /\ pc'[w] = "failing"
            /\ claim'[w] = claim[w]
      BY <1>7 DEF Complete, Release, DeliveryInv, DeliveryTypeOK
    <2>6. pc'[w] # "idle" => TokenDescribes(w)'
      BY <2>2, <2>4, <2>5 DEF TokenDescribes, Current, Version, Claim
    <2> QED
      BY <1>0, <2>1, <2>3, <2>5, <2>6, PutStep DEF Statuses
  <1>8. ASSUME NEW w \in Workers, Failed(w), ~claim[w].started, Current(w)
        PROVE  DeliveryInv'
    <2> DEFINE m == claim[w].message
    <2>1. /\ pc[w] = "failing"
          /\ Put(w, "ready")
          /\ pc'[w] = "idle"
          /\ \A v \in Workers \ {w} : pc'[v] = pc[v] /\ claim'[v] = claim[v]
          /\ UNCHANGED <<applied, called>>
      BY <1>8 DEF Failed, Release, DeliveryInv, DeliveryTypeOK
    <2>2. m \in Messages /\ IsStatus(m, {"running"})
      BY <1>8, <1>a, <2>1 DEF TokenDescribes, Holding
    <2>3. applied[m] = 0 /\ called[m] = 0
      BY <1>b, <2>2 DEF IsStatus
    <2> QED
      BY <1>0, <1>8, <2>1, <2>3, PutStep DEF Statuses
  <1>9. ASSUME Tick
        PROVE  DeliveryInv'
    <2>1. /\ \A m \in Messages :
               /\ doc'[m] = NoDelivery <=> doc[m] = NoDelivery
               /\ doc[m] # NoDelivery =>
                    /\ doc'[m].status = doc[m].status
                    /\ doc'[m].hash = doc[m].hash
                    /\ doc'[m].version = doc[m].version
          /\ \A w \in Workers : pc[w] # "idle" =>
               /\ claim'[w].message = claim[w].message
               /\ claim'[w].hash = claim[w].hash
               /\ claim'[w].version = claim[w].version
               /\ claim'[w].started = claim[w].started
          /\ UNCHANGED <<pc, applied, called>>
      <3>1. ASSUME NEW m \in Messages
            PROVE  /\ doc'[m] = NoDelivery <=> doc[m] = NoDelivery
                   /\ doc[m] # NoDelivery =>
                        /\ doc'[m].status = doc[m].status
                        /\ doc'[m].hash = doc[m].hash
                        /\ doc'[m].version = doc[m].version
        BY <1>0, <1>9, DeliveryAssumption DEF Tick, DeliveryInv, DeliveryTypeOK, Document
      <3>2. ASSUME NEW w \in Workers, pc[w] # "idle"
            PROVE  /\ claim'[w].message = claim[w].message
                   /\ claim'[w].hash = claim[w].hash
                   /\ claim'[w].version = claim[w].version
                   /\ claim'[w].started = claim[w].started
        BY <1>9, <1>a, <3>2, DeliveryAssumption DEF Tick, Claim
      <3> QED
        BY <1>9, <3>1, <3>2 DEF Tick
    <2>2. \A w \in Workers : pc[w] # "idle" =>
            (Current(w)' <=> Current(w)) /\ TokenDescribes(w)'
      BY <1>a, <2>1 DEF TokenDescribes, Current, Version, IsStatus
    <2>3. AppliedOnce' /\ CalledOnce'
      BY <2>1 DEF DeliveryInv, AppliedOnce, CalledOnce, IsStatus
    <2>4. (\A w \in Workers : pc[w] # "idle" =>
             claim[w].version <= Version(claim[w].message))'
      BY <1>a, <2>1 DEF DeliveryInv, TokensFenced, Version
    <2>5. OneTokenHolder'
      BY <2>1, <2>2 DEF DeliveryInv, TokensFenced, OneTokenHolder, Holding
    <2> QED
      BY <1>0, <2>1, <2>2, <2>3, <2>4, <2>5 DEF DeliveryInv, TokensFenced, TokenStatus
  <1>10. ASSUME UNCHANGED deliveryVars
         PROVE  DeliveryInv'
    BY <1>10 DEF deliveryVars, DeliveryInv, DeliveryTypeOK, AppliedOnce, CalledOnce, TokensFenced, TokenStatus,
                 TokenDescribes, OneTokenHolder, Current, Version, IsStatus
  <1> QED
    BY <1>1, <1>2, <1>3, <1>4, <1>5, <1>6, <1>7, <1>8, <1>9, <1>10 DEF DeliveryNext

(* The inductive invariant holds at all times.                             *)
LEMMA InvariantCorrect == DeliverySpec => []DeliveryInv
  <1>1. DeliveryInit /\ DeliveryTypeOK => DeliveryInv
    BY DEF DeliveryInit, DeliveryInv, AppliedOnce, CalledOnce, TokensFenced, TokenStatus,
           OneTokenHolder, IsStatus, Holding
  <1>2. DeliveryInv /\ [DeliveryNext]_deliveryVars => DeliveryInv'
    BY InvariantStep
  <1> QED
    BY <1>1, <1>2, DeliveryTypeCorrect, PTL DEF DeliverySpec

(* A handler's writes take effect at most once per message, and exactly    *)
(* when the delivery is complete.                                          *)
THEOREM EffectsApplyOnce == DeliverySpec => []AppliedOnce
  <1>1. DeliveryInv => AppliedOnce
    BY DEF DeliveryInv
  <1> QED
    BY <1>1, InvariantCorrect, PTL

(* At most one delivery of a message reaches its external effect, and      *)
(* redelivery never repeats it.                                            *)
THEOREM ExternalEffectsRunOnce == DeliverySpec => []CalledOnce
  <1>1. DeliveryInv => CalledOnce
    BY DEF DeliveryInv
  <1> QED
    BY <1>1, InvariantCorrect, PTL

(* No two workers ever hold the current fencing token of a message.        *)
THEOREM TokensAreFenced == DeliverySpec => []OneTokenHolder
  <1>1. DeliveryInv => OneTokenHolder
    BY DEF DeliveryInv, TokensFenced
  <1> QED
    BY <1>1, InvariantCorrect, PTL

(* A settled delivery stays settled, and a message keeps the content it    *)
(* was first claimed with.                                                 *)
THEOREM OutcomesStaySettled == DeliverySpec => OutcomeSettled
  <1> DEFINE Kept(m) ==
        doc[m] # NoDelivery =>
          /\ doc'[m] # NoDelivery
          /\ doc'[m].hash = doc[m].hash
          /\ doc[m].status = "complete" => doc'[m].status = "complete"
          /\ doc[m].status = "external" => doc'[m].status \in {"external", "complete"}
  <1>1. ASSUME DeliveryInv, [DeliveryNext]_deliveryVars
        PROVE  [\A m \in Messages : Kept(m)]_deliveryVars
    <2>0. DeliveryTypeOK'
      BY <1>1, TypeStep DEF DeliveryInv
    <2>1. ASSUME NEW w \in Workers, pc[w] # "idle", Current(w),
                 NEW s \in Statuses, Put(w, s),
                 IsStatus(claim[w].message, {"external", "complete"}) =>
                   s = "complete" /\ ~IsStatus(claim[w].message, {"complete"})
          PROVE  \A m \in Messages : Kept(m)
      <3>1. /\ doc'[claim[w].message] # NoDelivery
            /\ doc'[claim[w].message].status = s
            /\ doc'[claim[w].message].hash = claim[w].hash
            /\ \A m \in Messages \ {claim[w].message} : doc'[m] = doc[m]
        BY <1>1, <2>0, <2>1, PutFences DEF DeliveryInv
      <3>2. doc[claim[w].message] # NoDelivery => doc[claim[w].message].hash = claim[w].hash
        BY <1>1, <2>1 DEF DeliveryInv, TokenStatus, TokenDescribes
      <3> QED
        BY <2>1, <3>1, <3>2 DEF IsStatus
    <2>2. ASSUME UNCHANGED doc
          PROVE  \A m \in Messages : Kept(m)
      BY <2>2
    <2>3. ASSUME Tick
          PROVE  \A m \in Messages : Kept(m)
      BY <1>1, <2>0, <2>3, DeliveryAssumption DEF Tick, DeliveryInv, DeliveryTypeOK, Document
    <2>4. ASSUME NEW w \in Workers, ClaimWrite(w)
          PROVE  \A m \in Messages : Kept(m)
      BY <1>1, <2>1, <2>2, <2>4
      DEF ClaimWrite, Statuses, DeliveryInv, TokenStatus, TokenDescribes
    <2>5. ASSUME NEW w \in Workers, ExternalIntent(w) \/ Complete(w) \/ Failed(w)
          PROVE  \A m \in Messages : Kept(m)
      <3>1. pc[w] # "idle" /\ TokenDescribes(w) /\ pc[w] \in Holding
        BY <1>1, <2>5 DEF ExternalIntent, Complete, Failed, DeliveryInv, TokenStatus, Holding
      <3>2. CASE ExternalIntent(w)
        BY <2>1, <2>2, <3>1, <3>2 DEF ExternalIntent, Statuses, TokenDescribes, IsStatus
      <3>3. CASE Complete(w)
        BY <2>1, <3>1, <3>3 DEF Complete, Statuses, TokenDescribes, IsStatus
      <3>4. CASE Failed(w)
        BY <2>1, <2>2, <3>1, <3>4 DEF Failed, Statuses, TokenDescribes, IsStatus
      <3> QED
        BY <2>5, <3>2, <3>3, <3>4
    <2>6. ASSUME NEW w \in Workers,
                 \/ \E m \in Messages, h \in Contents : ClaimRead(w, m, h)
                 \/ ExternalCheck(w)
                 \/ ExternalCall(w)
                 \/ HandlerFailed(w)
                 \/ Crash(w)
          PROVE  \A m \in Messages : Kept(m)
      BY <2>2, <2>6 DEF ClaimRead, ExternalCheck, ExternalCall, HandlerFailed, Crash
    <2> QED
      BY <1>1, <2>2, <2>3, <2>4, <2>5, <2>6 DEF DeliveryNext
  <1>2. DeliverySpec => [][\A m \in Messages : Kept(m)]_deliveryVars
    BY <1>1, InvariantCorrect, PTL DEF DeliverySpec
  <1> QED
    BY <1>2 DEF OutcomeSettled

-----------------------------------------------------------------------------
(* Projections.                                                            *)

(* The inductive invariant.                                                *)
AppLocals ==
  [event : Events \cup {None}, meta : Meta \cup {None}, entry : Entry \cup {None},
   seen : Source \cup {None}]
RebLocals ==
  [prev : Meta \cup {None}, gen : 0 .. MaxGen, version : Nat, next : 1 .. NRecords + 1]

Typed ==
  /\ record \in [Records -> Source]
  /\ pending \subseteq Events
  /\ meta \in Meta \cup {None}
  /\ contrib \in [Generations -> [Records -> Entry \cup {None}]]
  /\ apc \in [Appliers -> {"idle", "read", "write"}]
  /\ app \in [Appliers -> AppLocals]
  /\ rpc \in [Rebuilders -> {"idle", "reserve", "scan", "publish"}]
  /\ reb \in [Rebuilders -> RebLocals]
  /\ meta # None => (meta.active <=> meta.gen \in Generations) /\ meta.gen <= meta.reserved

Building(b) == rpc[b] \in {"scan", "publish"}

(* Generations that were not reserved are empty.                           *)
FreshEmpty ==
  \A g \in Generations : meta = None \/ g > meta.reserved => contrib[g] = NoLedger

(* A ledger is never ahead of the record, and what it says of the record's *)
(* present revision is true.                                               *)
LedgerTrue ==
  \A g \in Generations, r \in Records :
    contrib[g][r] # None =>
      /\ contrib[g][r].version <= record[r].version
      /\ contrib[g][r].version = record[r].version => contrib[g][r].gives = record[r].gives

(* A copy m of meta: not ahead of it, and equal when of the same version.  *)
CopyOf(m) == m.version <= meta.version /\ (m.version = meta.version => m = meta)

(* The generations an event may still be compared with.                    *)
InUse(g) == g = meta.gen \/ \E a \in Appliers : apc[a] # "idle" /\ app[a].meta.gen = g

(* The record's present revision may go unheard from now on: its event is  *)
(* no longer pending, or a ledger in use will call it stale.               *)
Latest(r) == [id |-> r, version |-> record[r].version]
Settled(r) ==
  \/ Latest(r) \notin pending
  \/ \E g \in Generations :
       InUse(g) /\ contrib[g][r] # None /\ contrib[g][r].version = record[r].version

(* A ledger that may be, or become, the active one has what is settled.    *)
Matches(g, r) == Settled(r) => GivenBy(contrib[g][r]) = record[r].gives

ActiveMatches == Active => \A r \in Records : Matches(meta.gen, r)

AppOK(a) ==
  apc[a] # "idle" =>
    LET e == app[a].event
        m == app[a].meta
    IN /\ meta # None /\ e \in Events /\ m \in Meta
       /\ m.gen \in Generations /\ m.gen <= meta.reserved /\ CopyOf(m)
       /\ e.version <= record[e.id].version

(* What an applier is about to write: the record as it was at some time    *)
(* since the event, and, unless the write will lose, the ledger entry as   *)
(* it is and nothing older than what is settled.                           *)
WriteOK(a) ==
  apc[a] = "write" =>
    LET e == app[a].event
        seen == app[a].seen
    IN /\ seen \in Source /\ app[a].entry \in Entry \cup {None}
       /\ e.version <= seen.version /\ seen.version <= record[e.id].version
       /\ seen.version = record[e.id].version => seen = record[e.id]
       /\ ~Stale(app[a].entry, e)
       /\ app[a].meta.version = meta.version =>
            /\ app[a].entry = contrib[meta.gen][e.id]
            /\ Settled(e.id) => seen.version = record[e.id].version

(* A rebuild: its generation is its own, and while it may still publish,   *)
(* its ledger has what is settled of the records it has scanned.           *)
RebOK(b) ==
  /\ rpc[b] = "reserve" =>
       /\ reb[b].next = 1
       /\ reb[b].prev # None => meta # None /\ CopyOf(reb[b].prev)
  /\ Building(b) =>
       /\ meta # None /\ reb[b].gen \in Generations
       /\ reb[b].gen # meta.gen /\ reb[b].gen <= meta.reserved
       /\ reb[b].version <= meta.version
       /\ reb[b].version = meta.version =>
            /\ meta.reserved = reb[b].gen
            /\ \A r \in Records : r < reb[b].next => Matches(reb[b].gen, r)
       /\ \A c \in Rebuilders \ {b} : Building(c) => reb[c].gen # reb[b].gen
       /\ \A r \in Records : r >= reb[b].next => contrib[reb[b].gen][r] = None
       /\ \A a \in Appliers : apc[a] # "idle" => app[a].meta.gen # reb[b].gen
  /\ rpc[b] = "publish" => reb[b].next = NRecords + 1

IInv ==
  /\ Typed /\ FreshEmpty /\ LedgerTrue /\ ActiveMatches
  /\ \A a \in Appliers : AppOK(a) /\ WriteOK(a)
  /\ \A b \in Rebuilders : RebOK(b)

-----------------------------------------------------------------------------
(* Types.                                                                  *)
LEMMA RestTyped == AtRest \in AppLocals /\ NoRebuild \in RebLocals
  BY ProjectionsAssumption DEF AtRest, NoRebuild, AppLocals, RebLocals

(* A reserved generation is later than any that was reserved before.       *)
LEMMA LaterGeneration ==
  ASSUME NEW m \in Meta
  PROVE  /\ NextGeneration(m) \in Nat
         /\ NextGeneration(m) > m.gen /\ NextGeneration(m) > m.reserved
  <1>1. m # None /\ m.gen \in Nat /\ m.reserved \in Nat
    BY NullAssumption DEF Meta
  <1>2. CASE m.gen > m.reserved
    BY <1>1, <1>2 DEF NextGeneration
  <1>3. CASE ~(m.gen > m.reserved)
    BY <1>1, <1>3 DEF NextGeneration
  <1> QED
    BY <1>2, <1>3

LEMMA TypedKept ==
  ASSUME IInv, [Next]_vars
  PROVE  Typed'
  <1> USE ProjectionsAssumption
  <1>0. Typed
    BY DEF IInv
  <1>1. ASSUME NEW r \in Records, Change(r) PROVE Typed'
    <2>1. record[r] \in Source /\ record[r].version \in Nat
      BY <1>0 DEF Typed, Source, Revisions
    <2>2. record[r].version + 1 \in 1 .. MaxVersion
      BY <1>1, <2>1 DEF Change
    <2>3. [id |-> r, version |-> record[r].version + 1] \in Events
      BY <2>2 DEF Events
    <2>4. record' \in [Records -> Source]
      <3>1. PICK c \in Contribs \cup {None}, d \in BOOLEAN :
              record' = [record EXCEPT ![r] = [version |-> record[r].version + 1, deleted |-> d, gives |-> c]]
        BY <1>1 DEF Change
      <3>2. [version |-> record[r].version + 1, deleted |-> d, gives |-> c] \in Source
        BY <2>2 DEF Source, Revisions
      <3> QED
        BY <1>0, <3>1, <3>2 DEF Typed
    <2> QED
      BY <1>0, <1>1, <2>3, <2>4 DEF Change, Typed
  <1>2. ASSUME NEW a \in Appliers, NEW e \in Events, ReadMeta(a, e) PROVE Typed'
    <2>1. CASE meta = None
      BY <1>0, <1>2, <2>1 DEF ReadMeta, Ack, Typed
    <2>2. CASE meta # None
      <3>1. [AtRest EXCEPT !.event = e, !.meta = meta] \in AppLocals
        BY <1>0, RestTyped DEF Typed, AppLocals
      <3> QED
        BY <1>0, <1>2, <2>2, <3>1 DEF ReadMeta, Typed
    <2> QED
      BY <2>1, <2>2
  <1>3. ASSUME NEW a \in Appliers, ReadSource(a) PROVE Typed'
    <2> DEFINE e == app[a].event
               entry == contrib[app[a].meta.gen][e.id]
    <2>1. e \in Events /\ app[a].meta.gen \in Generations /\ app[a] \in AppLocals
      BY <1>0, <1>3 DEF ReadSource, IInv, AppOK, Typed
    <2>2. e.id \in Records
      BY <2>1 DEF Events
    <2>3. entry \in Entry \cup {None} /\ record[e.id] \in Source
      BY <1>0, <2>1, <2>2 DEF Typed
    <2>4. CASE Stale(entry, e)
      BY <1>0, <1>3, <2>4, RestTyped DEF ReadSource, Ack, Typed
    <2>5. CASE ~Stale(entry, e)
      <3>1. [app[a] EXCEPT !.entry = entry, !.seen = record[e.id]] \in AppLocals
        BY <2>1, <2>3 DEF AppLocals
      <3>2. app' = [app EXCEPT ![a] = [app[a] EXCEPT !.entry = entry, !.seen = record[e.id]]]
        BY <1>3, <2>5 DEF ReadSource
      <3> HIDE DEF e, entry
      <3> QED
        BY <1>0, <1>3, <2>5, <3>1, <3>2 DEF ReadSource, Typed, e, entry
    <2> QED
      BY <2>4, <2>5
  <1>4. ASSUME NEW a \in Appliers, Apply(a) PROVE Typed'
    <2>1. app' \in [Appliers -> AppLocals] /\ apc' \in [Appliers -> {"idle", "read", "write"}]
      BY <1>0, <1>4, RestTyped DEF Apply, Typed
    <2>2. UNCHANGED <<record, rpc, reb>>
      BY <1>4 DEF Apply
    <2>3. CASE meta.version # app[a].meta.version
      BY <1>0, <1>4, <2>1, <2>2, <2>3 DEF Apply, Typed
    <2>4. CASE meta.version = app[a].meta.version
      <3> DEFINE e == app[a].event
                 g == app[a].meta.gen
                 entry == NewEntry(a)
      <3>1. e \in Events /\ g \in Generations /\ meta \in Meta /\ app[a].seen \in Source
        BY <1>0, <1>4 DEF Apply, IInv, AppOK, WriteOK, Typed
      <3>2. e.id \in Records /\ e.version \in Revisions
        BY <3>1 DEF Events, Revisions
      <3>3. entry \in Entry
        BY <3>1, <3>2 DEF NewEntry, Entry, Source
      <3>4. contrib' = [contrib EXCEPT ![g][e.id] = entry]
            /\ meta' = [meta EXCEPT !.version = @ + 1] /\ pending' = pending \ {e}
        BY <1>4, <2>4 DEF Apply, Ack
      <3>5. meta' \in Meta /\ meta'.active = meta.active /\ meta'.gen = meta.gen /\ meta'.reserved = meta.reserved
        BY <3>1, <3>4 DEF Meta
      <3>6. contrib' \in [Generations -> [Records -> Entry \cup {None}]]
        BY <1>0, <3>1, <3>2, <3>3, <3>4 DEF Typed
      <3>7. meta # None
        BY <3>1, NullAssumption
      <3> QED
        BY <1>0, <2>1, <2>2, <3>4, <3>5, <3>6, <3>7 DEF Typed
    <2> QED
      BY <2>3, <2>4
  <1>5. ASSUME NEW b \in Rebuilders, StartRebuild(b) PROVE Typed'
    <2>1. [NoRebuild EXCEPT !.prev = meta] \in RebLocals
      BY <1>0, RestTyped DEF Typed, RebLocals
    <2> QED
      BY <1>0, <1>5, <2>1 DEF StartRebuild, Typed
  <1>6. ASSUME NEW b \in Rebuilders, Reserve(b) PROVE Typed'
    <2> DEFINE prev == reb[b].prev
               g == NextGeneration(prev)
    <2>1. reb[b] \in RebLocals /\ prev \in Meta \cup {None}
      BY <1>0 DEF Typed, RebLocals
    <2>2. rpc' \in [Rebuilders -> {"idle", "reserve", "scan", "publish"}]
          /\ UNCHANGED <<record, pending, contrib, apc, app>>
      BY <1>0, <1>6 DEF Reserve, Typed
    <2>3. CASE MetaVersion(meta) # MetaVersion(prev)
      <3>1. reb' = [reb EXCEPT ![b] = NoRebuild] /\ meta' = meta
        BY <1>6, <2>3 DEF Reserve
      <3> QED
        BY <1>0, <2>2, <3>1, RestTyped DEF Typed
    <2>4. CASE MetaVersion(meta) = MetaVersion(prev)
      <3>1. g \in Nat /\ g <= MaxGen /\ MetaVersion(prev) \in Nat
        BY <1>6, <2>1 DEF Reserve, NextGeneration, MetaVersion, Meta
      <3>2. reb' = [reb EXCEPT ![b] = [reb[b] EXCEPT !.gen = g, !.version = MetaVersion(prev) + 1]]
        BY <1>6, <2>4 DEF Reserve
      <3>3. [reb[b] EXCEPT !.gen = g, !.version = MetaVersion(prev) + 1] \in RebLocals
        <4>1. g \in 0 .. MaxGen /\ MetaVersion(prev) + 1 \in Nat
          BY <3>1
        <4> HIDE DEF g
        <4> QED
          BY <2>1, <4>1 DEF RebLocals
      <3>4. reb' \in [Rebuilders -> RebLocals]
        BY <1>0, <3>2, <3>3 DEF Typed
      <3>5. CASE prev = None
        <4>1. meta' = [gen |-> 0, active |-> FALSE, reserved |-> g, version |-> 1]
          BY <1>6, <2>4, <3>5 DEF Reserve
        <4>2. meta' \in Meta /\ ~meta'.active /\ meta'.gen \notin Generations /\ meta'.gen <= meta'.reserved
          BY <3>1, <4>1 DEF Meta, Generations
        <4> QED
          BY <1>0, <2>2, <3>4, <4>2 DEF Typed
      <3>6. CASE prev # None
        <4>1. meta' = [prev EXCEPT !.reserved = g, !.version = @ + 1]
          BY <1>6, <2>4, <3>6 DEF Reserve
        <4>2. meta # None /\ CopyOf(prev) /\ prev \in Meta
          BY <1>6, <2>1, <3>6 DEF Reserve, IInv, RebOK
        <4>3. prev = meta
          BY <2>4, <3>6, <4>2 DEF MetaVersion, CopyOf
        <4>4. /\ meta' \in Meta /\ meta'.active = meta.active /\ meta'.gen = meta.gen
              /\ meta'.gen <= meta'.reserved
          <5>1. g \in 0 .. MaxGen /\ prev.gen <= g
            BY <3>1, <4>2, LaterGeneration DEF Meta
          <5>2. meta' = [meta EXCEPT !.reserved = g, !.version = meta.version + 1]
            BY <4>1, <4>3
          <5>3. meta \in Meta /\ meta.gen <= g
            BY <4>2, <4>3, <5>1
          <5>4. meta.version + 1 \in Nat \ {0}
            BY <5>3 DEF Meta
          <5> HIDE DEF g, prev
          <5> QED
            BY <5>1, <5>2, <5>3, <5>4 DEF Meta
        <4> QED
          BY <1>0, <2>2, <3>4, <4>2, <4>4 DEF Typed
      <3> QED
        BY <3>5, <3>6
    <2> QED
      BY <2>3, <2>4
  <1>7. ASSUME NEW b \in Rebuilders, Scan(b) PROVE Typed'
    <2>1. reb[b] \in RebLocals /\ reb[b].gen \in Generations
      BY <1>0, <1>7 DEF Scan, IInv, RebOK, Building, Typed
    <2>2. reb[b].next \in Records
      BY <1>7, <2>1 DEF Scan, RebLocals, Records
    <2>3. reb' \in [Rebuilders -> RebLocals]
      <3>1. [reb[b] EXCEPT !.next = reb[b].next + 1] \in RebLocals
        BY <2>1, <2>2 DEF RebLocals, Records
      <3>2. reb' = [reb EXCEPT ![b] = [reb[b] EXCEPT !.next = reb[b].next + 1]]
        BY <1>7 DEF Scan
      <3> QED
        BY <1>0, <3>1, <3>2 DEF Typed
    <2>4. contrib' \in [Generations -> [Records -> Entry \cup {None}]]
      <3> DEFINE r == reb[b].next
      <3>1. record[r] \in Source
        BY <1>0, <2>2 DEF Typed
      <3>2. [version |-> record[r].version, gives |-> record[r].gives] \in Entry
        BY <3>1 DEF Source, Entry
      <3>3. CASE record[r].gives = None
        BY <1>0, <1>7, <3>3 DEF Scan, Typed
      <3>4. CASE record[r].gives # None
        <4>1. contrib' = [contrib EXCEPT ![reb[b].gen][r] =
                            [version |-> record[r].version, gives |-> record[r].gives]]
          BY <1>7, <3>4 DEF Scan
        <4> QED
          BY <1>0, <2>1, <2>2, <3>2, <4>1 DEF Typed
      <3> QED
        BY <3>3, <3>4
    <2> QED
      BY <1>0, <1>7, <2>3, <2>4 DEF Scan, Typed
  <1>8. ASSUME NEW b \in Rebuilders, WriteGroups(b) PROVE Typed'
    BY <1>0, <1>8 DEF WriteGroups, Typed
  <1>9. ASSUME NEW b \in Rebuilders, Publish(b) PROVE Typed'
    <2>1. reb[b] \in RebLocals /\ reb[b].gen \in Generations /\ meta \in Meta
      BY <1>0, <1>9 DEF Publish, IInv, RebOK, Building, Typed
    <2>2. CASE meta.version = reb[b].version
      <3>1. meta' = [gen |-> reb[b].gen, active |-> TRUE, reserved |-> reb[b].gen, version |-> meta.version + 1]
        BY <1>9, <2>2 DEF Publish
      <3>2. meta' \in Meta /\ meta'.active /\ meta'.gen \in Generations /\ meta'.gen <= meta'.reserved
        BY <2>1, <3>1 DEF Meta, RebLocals, Generations
      <3> QED
        BY <1>0, <1>9, <3>2, RestTyped DEF Publish, Typed
    <2>3. CASE meta.version # reb[b].version
      BY <1>0, <1>9, <2>3, RestTyped DEF Publish, Typed
    <2> QED
      BY <2>2, <2>3
  <1>10. ASSUME NEW b \in Rebuilders, RebuildDies(b) PROVE Typed'
    BY <1>0, <1>10, RestTyped DEF RebuildDies, Typed
  <1>11. CASE UNCHANGED vars
    BY <1>0, <1>11 DEF vars, Typed
  <1> QED
    BY <1>1, <1>2, <1>3, <1>4, <1>5, <1>6, <1>7, <1>8, <1>9, <1>10, <1>11 DEF Next

-----------------------------------------------------------------------------
(* What each step keeps.                                                   *)
Rest ==
  /\ FreshEmpty /\ LedgerTrue /\ ActiveMatches
  /\ \A a \in Appliers : AppOK(a) /\ WriteOK(a)
  /\ \A b \in Rebuilders : RebOK(b)

(* Nothing becomes settled for a record that did not change, when events   *)
(* are acknowledged only that are settled already.                         *)
LEMMA NotMoreSettled ==
  ASSUME NEW r \in Records, record'[r] = record[r],
         Latest(r) \notin pending' => Settled(r),
         \A g \in Generations : InUse(g)' => InUse(g) /\ contrib'[g][r] = contrib[g][r]
  PROVE  Settled(r)' => Settled(r)
  <1>1. CASE Latest(r) \notin pending'
    BY <1>1
  <1>2. CASE Latest(r) \in pending'
    BY <1>2 DEF Settled, Latest
  <1> QED
    BY <1>1, <1>2

LEMMA ChangeKeeps ==
  ASSUME IInv, NEW r \in Records, Change(r)
  PROVE  Rest'
  <1> DEFINE v == record[r].version
  <1>1. /\ pending' = pending \cup {[id |-> r, version |-> v + 1]}
        /\ UNCHANGED <<meta, contrib, apc, app, rpc, reb>>
    BY DEF Change
  <1>2. Typed /\ record[r] \in Source /\ v \in Nat
    BY DEF IInv, Typed, Source, Revisions
  <1>3. /\ record'[r].version = v + 1
        /\ \A q \in Records \ {r} : record'[q] = record[q]
    BY <1>2 DEF Change, Typed
  <1>4. \A q \in Records : record[q].version \in Nat
    BY <1>2 DEF Typed, Source, Revisions
  <1>5. \A q \in Records : record[q].version <= record'[q].version
    BY <1>2, <1>3, <1>4
  <1>6. \A g \in Generations, q \in Records : contrib[g][q] # None => contrib[g][q].version \in Nat
    BY <1>2 DEF Typed, Entry, Revisions
  <1>7. \A g \in Generations : contrib[g][r] # None => contrib[g][r].version < record'[r].version
    BY <1>2, <1>3, <1>6 DEF IInv, LedgerTrue
  <1>8. ~Settled(r)'
    <2>1. Latest(r)' \in pending'
      BY <1>1, <1>3 DEF Latest
    <2> QED
      BY <1>1, <1>3, <1>6, <1>7, <2>1, <1>2 DEF Settled
  <1>9. \A g \in Generations : InUse(g)' => InUse(g)
    BY <1>1 DEF InUse
  <1>10. ASSUME NEW q \in Records \ {r} PROVE Settled(q)' => Settled(q)
    <2>1. Latest(q) \notin pending' => Settled(q)
      BY <1>1 DEF Settled
    <2> QED
      BY <1>1, <1>3, <1>9, <2>1, NotMoreSettled
  <1>11. ASSUME NEW g, NEW q \in Records, Matches(g, q) PROVE Matches(g, q)'
    BY <1>1, <1>3, <1>8, <1>10, <1>11 DEF Matches
  <1>12. FreshEmpty'
    BY <1>1 DEF IInv, FreshEmpty
  <1>13. LedgerTrue'
    <2> SUFFICES ASSUME NEW g \in Generations, NEW q \in Records, contrib[g][q] # None
                 PROVE  /\ contrib[g][q].version <= record'[q].version
                        /\ contrib[g][q].version = record'[q].version =>
                             contrib[g][q].gives = record'[q].gives
      BY <1>1 DEF LedgerTrue
    <2>1. CASE q = r
      BY <1>2, <1>3, <1>6, <1>7, <2>1
    <2>2. CASE q # r
      BY <1>3, <2>2 DEF IInv, LedgerTrue
    <2> QED
      BY <2>1, <2>2
  <1>14. ActiveMatches'
    BY <1>1, <1>11 DEF IInv, ActiveMatches, Active
  <1>15. ASSUME NEW a \in Appliers PROVE AppOK(a)' /\ WriteOK(a)'
    <2>1. AppOK(a) /\ WriteOK(a)
      BY DEF IInv
    <2> DEFINE e == app[a].event
    <2> SUFFICES ASSUME apc[a] # "idle" PROVE AppOK(a)' /\ WriteOK(a)'
      BY <1>1 DEF AppOK, WriteOK
    <2>2. e \in Events /\ e.id \in Records /\ e.version \in Nat
      BY <2>1 DEF AppOK, Events
    <2>3. AppOK(a)'
      <3>1. e.version <= record'[e.id].version
        BY <1>3, <1>4, <1>5, <1>2, <2>1, <2>2 DEF AppOK
      <3> QED
        BY <1>1, <2>1, <3>1 DEF AppOK, CopyOf
    <2>4. WriteOK(a)'
      <3> SUFFICES ASSUME apc[a] = "write" PROVE WriteOK(a)'
        BY <1>1 DEF WriteOK
      <3>1. app[a].seen \in Source /\ app[a].seen.version \in Nat
        BY <2>1 DEF WriteOK, Source, Revisions
      <3>2. CASE e.id = r
        <4>1. app[a].seen.version < record'[e.id].version
          BY <1>2, <1>3, <2>1, <3>1, <3>2 DEF WriteOK
        <4>2. record'[e.id].version \in Nat
          BY <1>2, <1>3, <3>2
        <4> QED
          BY <1>1, <1>8, <2>1, <3>1, <3>2, <4>1, <4>2 DEF WriteOK
      <3>3. CASE e.id # r
        BY <1>1, <1>3, <1>10, <2>1, <2>2, <3>3 DEF WriteOK
      <3> QED
        BY <3>2, <3>3
    <2> QED
      BY <2>3, <2>4
  <1>16. ASSUME NEW b \in Rebuilders PROVE RebOK(b)'
    <2>1. RebOK(b)
      BY DEF IInv
    <2> QED
      BY <1>1, <1>11, <2>1 DEF RebOK, Building, CopyOf
  <1> QED
    BY <1>12, <1>13, <1>14, <1>15, <1>16 DEF Rest

LEMMA ReadMetaKeeps ==
  ASSUME IInv, NEW a \in Appliers, NEW e \in Events, ReadMeta(a, e)
  PROVE  Rest'
  <1>1. UNCHANGED <<record, meta, contrib, rpc, reb>>
    BY DEF ReadMeta
  <1>2. Typed /\ FreshEmpty /\ LedgerTrue /\ ActiveMatches
        /\ (\A c \in Appliers : AppOK(c) /\ WriteOK(c)) /\ (\A b \in Rebuilders : RebOK(b))
    BY DEF IInv
  <1>3. CASE meta = None
    <2>1. \A c \in Appliers : apc[c] = "idle"
      BY <1>2, <1>3 DEF AppOK
    <2>2. UNCHANGED <<apc, app>>
      BY <1>3 DEF ReadMeta
    <2>3. \A b \in Rebuilders : ~Building(b)
      BY <1>2, <1>3 DEF RebOK
    <2>4. FreshEmpty' /\ LedgerTrue' /\ ActiveMatches'
      BY <1>1, <1>2, <1>3 DEF FreshEmpty, LedgerTrue, ActiveMatches, Active
    <2>5. \A c \in Appliers : AppOK(c)' /\ WriteOK(c)'
      BY <2>1, <2>2 DEF AppOK, WriteOK
    <2>6. \A b \in Rebuilders : RebOK(b)'
      BY <1>1, <1>2, <2>3 DEF RebOK, Building, CopyOf
    <2> QED
      BY <2>4, <2>5, <2>6 DEF Rest
  <1>4. CASE meta # None
    <2>1. /\ UNCHANGED pending /\ meta.active /\ e.version <= record[e.id].version
          /\ apc' = [apc EXCEPT ![a] = "read"]
          /\ app' = [app EXCEPT ![a] = [AtRest EXCEPT !.event = e, !.meta = meta]]
      BY <1>4 DEF ReadMeta
    <2>2. /\ apc'[a] = "read" /\ app'[a].event = e /\ app'[a].meta = meta
          /\ \A c \in Appliers \ {a} : apc'[c] = apc[c] /\ app'[c] = app[c]
      BY <1>2, <2>1 DEF Typed, AtRest
    <2>3. meta \in Meta /\ meta.gen \in Generations /\ meta.gen <= meta.reserved
      BY <1>2, <1>4, <2>1 DEF Typed
    <2>4. \A g \in Generations : InUse(g)' => InUse(g)
      BY <1>1, <2>2 DEF InUse
    <2>5. ASSUME NEW r \in Records PROVE Settled(r)' => Settled(r)
      <3>1. Latest(r) \notin pending' => Settled(r)
        BY <2>1 DEF Settled
      <3> QED
        BY <1>1, <2>4, <3>1, NotMoreSettled
    <2>6. FreshEmpty' /\ LedgerTrue'
      BY <1>1, <1>2 DEF FreshEmpty, LedgerTrue
    <2>7. ActiveMatches'
      BY <1>1, <1>2, <2>5 DEF ActiveMatches, Active, Matches
    <2>8. AppOK(a)' /\ WriteOK(a)'
      <3>1. meta.version <= meta.version
        BY <2>3 DEF Meta
      <3> QED
        BY <1>1, <1>4, <2>1, <2>2, <2>3, <3>1 DEF AppOK, WriteOK, CopyOf
    <2>9. ASSUME NEW c \in Appliers \ {a} PROVE AppOK(c)' /\ WriteOK(c)'
      <3>1. AppOK(c)'
        BY <1>1, <1>2, <2>2 DEF AppOK, CopyOf
      <3>2. apc[c] = "write" => app[c].event.id \in Records
        BY <1>2 DEF AppOK, Events
      <3> QED
        BY <1>1, <1>2, <2>2, <2>5, <3>1, <3>2 DEF WriteOK
    <2>10. ASSUME NEW b \in Rebuilders PROVE RebOK(b)'
      <3>1. RebOK(b)
        BY <1>2
      <3>2. \A r \in Records : Matches(reb[b].gen, r) => Matches(reb[b].gen, r)'
        BY <1>1, <2>5 DEF Matches
      <3>3. Building(b) => \A c \in Appliers : apc'[c] # "idle" => app'[c].meta.gen # reb[b].gen
        BY <2>2, <3>1 DEF RebOK
      <3> QED
        BY <1>1, <3>1, <3>2, <3>3 DEF RebOK, Building, CopyOf
    <2> QED
      BY <2>6, <2>7, <2>8, <2>9, <2>10 DEF Rest
  <1> QED
    BY <1>3, <1>4

(* Steps of an applier that leave meta and the ledgers alone.              *)
LEMMA AppliersMove ==
  ASSUME IInv, NEW a \in Appliers, UNCHANGED <<record, meta, contrib, rpc, reb>>,
         pending' \subseteq pending,
         \A r \in Records : Latest(r) \in pending \ pending' => Settled(r),
         \A c \in Appliers \ {a} : apc'[c] = apc[c] /\ app'[c] = app[c],
         apc'[a] # "idle" => apc[a] # "idle" /\ app'[a].meta = app[a].meta,
         AppOK(a)' /\ WriteOK(a)'
  PROVE  Rest'
  <1>2. Typed /\ FreshEmpty /\ LedgerTrue /\ ActiveMatches
        /\ (\A c \in Appliers : AppOK(c) /\ WriteOK(c)) /\ (\A b \in Rebuilders : RebOK(b))
    BY DEF IInv
  <1>4. \A g \in Generations : InUse(g)' => InUse(g)
    BY DEF InUse
  <1>5. ASSUME NEW r \in Records PROVE Settled(r)' => Settled(r)
    <2>1. Latest(r) \notin pending' => Settled(r)
      BY DEF Settled
    <2> QED
      BY <1>4, <2>1, NotMoreSettled
  <1>6. FreshEmpty' /\ LedgerTrue'
    BY <1>2 DEF FreshEmpty, LedgerTrue
  <1>7. ActiveMatches'
    BY <1>2, <1>5 DEF ActiveMatches, Active, Matches
  <1>9. ASSUME NEW c \in Appliers \ {a} PROVE AppOK(c)' /\ WriteOK(c)'
    <2>1. AppOK(c)'
      BY <1>2 DEF AppOK, CopyOf
    <2>2. apc[c] = "write" => app[c].event.id \in Records
      BY <1>2 DEF AppOK, Events
    <2> QED
      BY <1>2, <1>5, <2>1, <2>2 DEF WriteOK
  <1>10. ASSUME NEW b \in Rebuilders PROVE RebOK(b)'
    <2>1. RebOK(b)
      BY <1>2
    <2>2. \A r \in Records : Matches(reb[b].gen, r) => Matches(reb[b].gen, r)'
      BY <1>5 DEF Matches
    <2>3. Building(b) => \A c \in Appliers : apc'[c] # "idle" => app'[c].meta.gen # reb[b].gen
      BY <2>1 DEF RebOK
    <2> QED
      BY <2>1, <2>2, <2>3 DEF RebOK, Building, CopyOf
  <1> QED
    BY <1>6, <1>7, <1>9, <1>10 DEF Rest

LEMMA ReadSourceKeeps ==
  ASSUME IInv, NEW a \in Appliers, ReadSource(a)
  PROVE  Rest'
  <1> DEFINE e == app[a].event
             g == app[a].meta.gen
             entry == contrib[g][e.id]
  <1>1. UNCHANGED <<record, meta, contrib, rpc, reb>>
    BY DEF ReadSource
  <1>2. Typed /\ FreshEmpty /\ LedgerTrue /\ AppOK(a)
    BY DEF IInv
  <1>3. /\ apc[a] = "read" /\ meta # None /\ e \in Events /\ app[a].meta \in Meta
        /\ g \in Generations /\ g <= meta.reserved /\ CopyOf(app[a].meta)
        /\ e.version <= record[e.id].version
    BY <1>2 DEF ReadSource, AppOK
  <1>4. e.id \in Records /\ e.version \in Nat /\ record[e.id] \in Source /\ record[e.id].version \in Nat
    BY <1>2, <1>3 DEF Events, Typed, Source, Revisions
  <1>5. entry \in Entry \cup {None}
    BY <1>2, <1>3, <1>4 DEF Typed
  <1>6. CASE Stale(entry, e)
    <2>1. /\ pending' = pending \ {e}
          /\ apc' = [apc EXCEPT ![a] = "idle"] /\ app' = [app EXCEPT ![a] = AtRest]
      BY <1>6 DEF ReadSource, Ack
    <2>2. apc'[a] = "idle" /\ \A c \in Appliers \ {a} : apc'[c] = apc[c] /\ app'[c] = app[c]
      BY <1>2, <2>1 DEF Typed
    <2>3. ASSUME NEW r \in Records, Latest(r) \in pending \ pending' PROVE Settled(r)
      <3>1. Latest(r) = e /\ r = e.id /\ record[r].version = e.version
        BY <2>1, <2>3 DEF Latest
      <3>2. entry # None /\ entry.version >= e.version
        BY <1>6 DEF Stale
      <3>3. entry.version <= e.version /\ entry.version \in Nat
        BY <1>2, <1>3, <1>4, <1>5, <3>1, <3>2 DEF LedgerTrue, Entry, Revisions
      <3>4. entry.version = record[r].version
        BY <1>4, <3>1, <3>2, <3>3
      <3>5. InUse(g)
        BY <1>3 DEF InUse
      <3> QED
        BY <1>3, <3>1, <3>2, <3>4, <3>5 DEF Settled
    <2>4. AppOK(a)' /\ WriteOK(a)'
      BY <2>2 DEF AppOK, WriteOK
    <2>5. pending' \subseteq pending
      BY <2>1
    <2> HIDE DEF e, g, entry
    <2> QED
      BY <1>1, <2>2, <2>3, <2>4, <2>5, AppliersMove
  <1>7. CASE ~Stale(entry, e)
    <2>1. /\ UNCHANGED pending /\ apc' = [apc EXCEPT ![a] = "write"]
          /\ app' = [app EXCEPT ![a] = [app[a] EXCEPT !.entry = entry, !.seen = record[e.id]]]
      BY <1>7 DEF ReadSource
    <2>2. /\ apc'[a] = "write" /\ app'[a] = [app[a] EXCEPT !.entry = entry, !.seen = record[e.id]]
          /\ \A c \in Appliers \ {a} : apc'[c] = apc[c] /\ app'[c] = app[c]
      BY <1>2, <2>1 DEF Typed
    <2>3. app[a] \in AppLocals
      BY <1>2 DEF Typed
    <2>4. /\ app'[a].event = e /\ app'[a].meta = app[a].meta
          /\ app'[a].entry = entry /\ app'[a].seen = record[e.id]
      BY <2>2, <2>3 DEF AppLocals
    <2>5. AppOK(a)'
      BY <1>1, <1>3, <2>4 DEF AppOK, CopyOf
    <2>6. WriteOK(a)'
      <3>1. app[a].meta.version = meta.version => entry = contrib[meta.gen][e.id]
        BY <1>3 DEF CopyOf
      <3> HIDE DEF e, entry
      <3> QED
        BY <1>1, <1>3, <1>4, <1>5, <1>7, <2>4, <3>1 DEF WriteOK
    <2>7. pending' \subseteq pending /\ \A r \in Records : Latest(r) \in pending \ pending' => Settled(r)
      BY <2>1
    <2> HIDE DEF e, g, entry
    <2> QED
      BY <1>1, <1>3, <2>2, <2>4, <2>5, <2>6, <2>7, AppliersMove
  <1> QED
    BY <1>6, <1>7

LEMMA ApplyKeeps ==
  ASSUME IInv, NEW a \in Appliers, Apply(a)
  PROVE  Rest'
  <1> DEFINE e == app[a].event
             g == app[a].meta.gen
             seen == app[a].seen
             entry == NewEntry(a)
  <1>1. UNCHANGED <<record, rpc, reb>>
    BY DEF Apply
  <1>2. Typed /\ FreshEmpty /\ LedgerTrue /\ ActiveMatches
        /\ (\A c \in Appliers : AppOK(c) /\ WriteOK(c)) /\ (\A b \in Rebuilders : RebOK(b))
    BY DEF IInv
  <1>3. /\ apc'[a] = "idle" /\ \A c \in Appliers \ {a} : apc'[c] = apc[c] /\ app'[c] = app[c]
    BY <1>2 DEF Apply, Typed
  <1>4. CASE meta.version # app[a].meta.version
    <2>1. UNCHANGED <<meta, contrib, pending>>
      BY <1>4 DEF Apply
    <2>2. AppOK(a)' /\ WriteOK(a)'
      BY <1>3 DEF AppOK, WriteOK
    <2> QED
      BY <1>1, <1>3, <2>1, <2>2, AppliersMove
  <1>5. CASE meta.version = app[a].meta.version
    <2>1. /\ apc[a] = "write" /\ meta # None /\ e \in Events /\ meta \in Meta
          /\ g \in Generations /\ g <= meta.reserved /\ app[a].meta = meta
          /\ e.version <= seen.version /\ seen.version <= record[e.id].version
          /\ seen.version = record[e.id].version => seen = record[e.id]
          /\ seen \in Source
          /\ ~Stale(contrib[g][e.id], e)
          /\ Settled(e.id) => seen.version = record[e.id].version
      BY <1>2, <1>5 DEF Apply, AppOK, WriteOK, CopyOf
    <2>2. /\ contrib' = [contrib EXCEPT ![g][e.id] = entry]
          /\ meta' = [meta EXCEPT !.version = @ + 1] /\ pending' = pending \ {e}
      BY <1>5 DEF Apply, Ack
    <2>3. /\ e.id \in Records /\ e.version \in Nat /\ seen.version \in Nat
          /\ record[e.id].version \in Nat /\ meta.version \in Nat
      BY <1>2, <2>1 DEF Events, Source, Revisions, Typed, Meta
    <2>4. /\ entry.gives = seen.gives /\ entry.version \in {e.version, seen.version}
          /\ entry.version >= e.version /\ entry.version <= record[e.id].version
          /\ entry.version = record[e.id].version => seen = record[e.id]
      BY <2>1, <2>3 DEF NewEntry
    <2>5. /\ contrib'[g][e.id] = entry
          /\ \A h \in Generations, r \in Records :
               h # g \/ r # e.id => contrib'[h][r] = contrib[h][r]
          /\ \A h \in Generations : h # g => contrib'[h] = contrib[h]
      BY <1>2, <2>1, <2>2, <2>3 DEF Typed
    <2>6. /\ meta'.gen = g /\ meta'.active = meta.active /\ meta'.reserved = meta.reserved
          /\ meta'.version = meta.version + 1
      BY <2>1, <2>2 DEF Meta
    <2>7. meta' # None
      BY <2>1, <2>2, NullAssumption DEF Meta
    <2> HIDE DEF entry
    <2>8. FreshEmpty'
      BY <1>2, <2>1, <2>5, <2>6, <2>7 DEF FreshEmpty, Meta, Generations
    <2>9. LedgerTrue'
      <3> SUFFICES ASSUME NEW h \in Generations, NEW r \in Records, contrib'[h][r] # None
                   PROVE  /\ contrib'[h][r].version <= record[r].version
                          /\ contrib'[h][r].version = record[r].version =>
                               contrib'[h][r].gives = record[r].gives
        BY <1>1 DEF LedgerTrue
      <3>1. CASE h = g /\ r = e.id
        BY <2>1, <2>4, <2>5, <3>1
      <3>2. CASE ~(h = g /\ r = e.id)
        BY <1>2, <2>5, <3>2 DEF LedgerTrue
      <3> QED
        BY <3>1, <3>2
    <2>10. \A h \in Generations : InUse(h)' => InUse(h)
      BY <1>3, <2>1, <2>6 DEF InUse
    <2>11. ActiveMatches'
      <3> SUFFICES ASSUME Active, NEW r \in Records, Settled(r)'
                   PROVE  GivenBy(contrib'[g][r]) = record[r].gives
        BY <1>1, <2>1, <2>6 DEF ActiveMatches, Active, Matches
      <3>1. CASE r # e.id
        <4>1. Latest(r) \notin pending' => Settled(r)
          BY <2>2, <3>1 DEF Settled, Latest
        <4>2. Settled(r)
          BY <1>1, <2>5, <2>10, <3>1, <4>1, NotMoreSettled
        <4> QED
          BY <1>2, <2>1, <2>5, <3>1, <4>2 DEF ActiveMatches, Matches
      <3>2. CASE r = e.id
        <4>1. seen = record[r]
          <5>1. CASE Latest(r) \in pending /\ Latest(r) \notin pending'
            <6>1. Latest(r) = e
              BY <2>2, <5>1
            <6>2. e.version = record[e.id].version
              BY <3>2, <6>1 DEF Latest
            <6> QED
              BY <2>1, <2>3, <3>2, <6>2
          <5>2. CASE Latest(r) \notin pending
            BY <2>1, <3>2, <5>2 DEF Settled
          <5>3. CASE Latest(r) \in pending'
            <6>1. PICK h \in Generations :
                    InUse(h)' /\ contrib'[h][r] # None /\ contrib'[h][r].version = record[r].version
              BY <1>1, <5>3 DEF Settled, Latest
            <6>2. CASE h = g
              BY <2>4, <2>5, <3>2, <6>1, <6>2
            <6>3. CASE h # g
              <7>1. Settled(r)
                BY <2>5, <2>10, <6>1, <6>3 DEF Settled
              <7> QED
                BY <2>1, <3>2, <7>1
            <6> QED
              BY <6>2, <6>3
          <5> QED
            BY <5>1, <5>2, <5>3
        <4>2. entry # None => GivenBy(entry) = entry.gives
          BY DEF GivenBy
        <4>3. entry # None
          <5>1. entry \in Entry
            BY <2>1, <2>3 DEF entry, NewEntry, Entry, Source, Events, Revisions
          <5> QED
            BY <5>1, NullAssumption
        <4> QED
          BY <2>4, <2>5, <3>2, <4>1, <4>2, <4>3
      <3> QED
        BY <3>1, <3>2
    <2>12. ASSUME NEW c \in Appliers PROVE AppOK(c)' /\ WriteOK(c)'
      <3>1. CASE c = a
        BY <1>3, <3>1 DEF AppOK, WriteOK
      <3>2. CASE c # a
        <4> SUFFICES ASSUME apc[c] # "idle" PROVE AppOK(c)' /\ WriteOK(c)'
          BY <1>3, <3>2 DEF AppOK, WriteOK
        <4>1. app[c].meta.version \in Nat /\ app[c].meta.version < meta'.version
          BY <1>2, <2>3, <2>6 DEF AppOK, CopyOf, Meta
        <4>2. AppOK(c)'
          BY <1>1, <1>2, <1>3, <2>3, <2>6, <2>7, <3>2, <4>1 DEF AppOK, CopyOf
        <4>3. WriteOK(c)'
          BY <1>1, <1>2, <1>3, <2>3, <2>6, <3>2, <4>1 DEF WriteOK
        <4> QED
          BY <4>2, <4>3
      <3> QED
        BY <3>1, <3>2
    <2>13. ASSUME NEW b \in Rebuilders PROVE RebOK(b)'
      <3>1. RebOK(b) /\ reb[b] \in RebLocals
        BY <1>2 DEF Typed
      <3>2. rpc[b] = "reserve" /\ reb[b].prev # None => CopyOf(reb[b].prev)'
        <4> SUFFICES ASSUME rpc[b] = "reserve", reb[b].prev # None PROVE CopyOf(reb[b].prev)'
          OBVIOUS
        <4>1. reb[b].prev \in Meta /\ CopyOf(reb[b].prev)
          BY <3>1 DEF RebOK, RebLocals
        <4>2. reb[b].prev.version \in Nat /\ reb[b].prev.version <= meta.version
          BY <4>1 DEF Meta, CopyOf
        <4> QED
          BY <1>1, <2>3, <2>6, <4>2 DEF CopyOf
      <3>3. Building(b) => reb[b].version < meta'.version /\ reb[b].version # meta'.version
        BY <2>3, <2>6, <3>1 DEF RebOK, RebLocals
      <3>4. Building(b) => reb[b].gen # g /\ reb[b].gen \in Generations
        BY <2>1, <3>1 DEF RebOK
      <3>5. Building(b) => \A r \in Records : r >= reb[b].next => contrib'[reb[b].gen][r] = None
        BY <2>5, <3>1, <3>4 DEF RebOK
      <3>6. Building(b) => \A c \in Appliers : apc'[c] # "idle" => app'[c].meta.gen # reb[b].gen
        BY <1>3, <3>1 DEF RebOK
      <3> QED
        BY <1>1, <2>3, <2>6, <2>7, <3>1, <3>2, <3>3, <3>4, <3>5, <3>6 DEF RebOK, Building, RebLocals
    <2> QED
      BY <2>8, <2>9, <2>11, <2>12, <2>13 DEF Rest
  <1> QED
    BY <1>4, <1>5

-----------------------------------------------------------------------------
(* Steps of a rebuild that leave meta and the ledgers alone.               *)
LEMMA RebuilderMoves ==
  ASSUME IInv, NEW b \in Rebuilders, UNCHANGED <<record, pending, meta, contrib, apc, app>>,
         \A c \in Rebuilders \ {b} : rpc'[c] = rpc[c] /\ reb'[c] = reb[c],
         Building(b)' => Building(b) /\ reb'[b] = reb[b],
         RebOK(b)'
  PROVE  Rest'
  <1>1. Typed /\ FreshEmpty /\ LedgerTrue /\ ActiveMatches
        /\ (\A c \in Appliers : AppOK(c) /\ WriteOK(c)) /\ (\A c \in Rebuilders : RebOK(c))
    BY DEF IInv
  <1>2. \A g : InUse(g)' <=> InUse(g)
    BY DEF InUse
  <1>3. \A r \in Records : Settled(r)' <=> Settled(r)
    BY <1>2 DEF Settled, Latest
  <1>4. \A g, r : r \in Records => (Matches(g, r)' <=> Matches(g, r))
    BY <1>3 DEF Matches
  <1>5. FreshEmpty' /\ LedgerTrue'
    BY <1>1 DEF FreshEmpty, LedgerTrue
  <1>6. ActiveMatches'
    BY <1>1, <1>4 DEF ActiveMatches, Active
  <1>7. ASSUME NEW a \in Appliers PROVE AppOK(a)' /\ WriteOK(a)'
    <2>1. AppOK(a)'
      BY <1>1 DEF AppOK, CopyOf
    <2>2. apc[a] = "write" => app[a].event.id \in Records
      BY <1>1 DEF AppOK, Events
    <2> QED
      BY <1>1, <1>3, <2>1, <2>2 DEF WriteOK
  <1>8. ASSUME NEW c \in Rebuilders \ {b} PROVE RebOK(c)'
    <2>1. RebOK(c)
      BY <1>1
    <2>2. \A r \in Records : Matches(reb[c].gen, r)' <=> Matches(reb[c].gen, r)
      BY <1>4
    <2>3. Building(b)' => Building(b) /\ reb'[b].gen = reb[b].gen
      OBVIOUS
    <2> QED
      BY <2>1, <2>2, <2>3 DEF RebOK, Building, CopyOf
  <1> QED
    BY <1>5, <1>6, <1>7, <1>8 DEF Rest

LEMMA StartKeeps ==
  ASSUME IInv, NEW b \in Rebuilders, StartRebuild(b)
  PROVE  Rest'
  <1>1. Typed
    BY DEF IInv
  <1>2. /\ rpc'[b] = "reserve" /\ reb'[b].prev = meta /\ reb'[b].next = 1
        /\ \A c \in Rebuilders \ {b} : rpc'[c] = rpc[c] /\ reb'[c] = reb[c]
        /\ UNCHANGED <<record, pending, meta, contrib, apc, app>>
    BY <1>1 DEF StartRebuild, Typed, NoRebuild
  <1>3. meta # None => meta.version <= meta.version
    BY <1>1 DEF Typed, Meta
  <1>4. RebOK(b)'
    BY <1>2, <1>3 DEF RebOK, Building, CopyOf
  <1>5. ~Building(b)'
    BY <1>2 DEF Building
  <1> QED
    BY <1>2, <1>4, <1>5, RebuilderMoves

LEMMA WriteGroupsKeeps ==
  ASSUME IInv, NEW b \in Rebuilders, WriteGroups(b)
  PROVE  Rest'
  <1>1. Typed /\ RebOK(b) /\ reb[b] \in RebLocals
    BY DEF IInv, Typed
  <1>2. /\ rpc[b] = "scan" /\ rpc'[b] = "publish" /\ reb[b].next = NRecords + 1 /\ UNCHANGED reb
        /\ \A c \in Rebuilders \ {b} : rpc'[c] = rpc[c]
        /\ UNCHANGED <<record, pending, meta, contrib, apc, app>>
    BY <1>1, ProjectionsAssumption DEF WriteGroups, Typed, RebLocals
  <1>3. \A g : InUse(g)' <=> InUse(g)
    BY <1>2 DEF InUse
  <1>4. \A r \in Records : Matches(reb[b].gen, r)' <=> Matches(reb[b].gen, r)
    BY <1>2, <1>3 DEF Matches, Settled, Latest
  <1>5. \A c \in Rebuilders : Building(c)' <=> Building(c)
    BY <1>2 DEF Building
  <1>6. RebOK(b)'
    BY <1>1, <1>2, <1>4, <1>5 DEF RebOK
  <1> QED
    BY <1>2, <1>5, <1>6, RebuilderMoves

LEMMA RebuildDiesKeeps ==
  ASSUME IInv, NEW b \in Rebuilders, RebuildDies(b)
  PROVE  Rest'
  <1>1. Typed
    BY DEF IInv
  <1>2. /\ rpc'[b] = "idle"
        /\ \A c \in Rebuilders \ {b} : rpc'[c] = rpc[c] /\ reb'[c] = reb[c]
        /\ UNCHANGED <<record, pending, meta, contrib, apc, app>>
    BY <1>1 DEF RebuildDies, Typed
  <1> QED
    BY <1>2, RebuilderMoves DEF RebOK, Building

LEMMA ReserveKeeps ==
  ASSUME IInv, NEW b \in Rebuilders, Reserve(b)
  PROVE  Rest'
  <1> DEFINE prev == reb[b].prev
             g == NextGeneration(prev)
  <1>1. Typed /\ FreshEmpty /\ LedgerTrue /\ ActiveMatches
        /\ (\A c \in Appliers : AppOK(c) /\ WriteOK(c)) /\ (\A c \in Rebuilders : RebOK(c))
    BY DEF IInv
  <1>2. /\ UNCHANGED <<record, pending, contrib, apc, app>> /\ rpc[b] = "reserve"
        /\ \A c \in Rebuilders \ {b} : rpc'[c] = rpc[c] /\ reb'[c] = reb[c]
    BY <1>1 DEF Reserve, Typed
  <1>3. CASE MetaVersion(meta) # MetaVersion(prev)
    <2>1. UNCHANGED meta /\ rpc'[b] = "idle"
      BY <1>1, <1>3 DEF Reserve, Typed
    <2> QED
      BY <1>2, <2>1, RebuilderMoves DEF RebOK, Building
  <1>4. CASE MetaVersion(meta) = MetaVersion(prev)
    <2>1. reb[b] \in RebLocals /\ prev \in Meta \cup {None} /\ meta \in Meta \cup {None}
      BY <1>1 DEF Typed, RebLocals
    <2>2. prev = meta
      <3>1. CASE prev = None
        <4>1. meta # None => meta.version \in Nat \ {0}
          BY <2>1 DEF Meta
        <4> QED
          BY <1>4, <3>1, <4>1 DEF MetaVersion
      <3>2. CASE prev # None
        BY <1>1, <1>2, <1>4, <3>2 DEF RebOK, CopyOf, MetaVersion
      <3> QED
        BY <3>1, <3>2
    <2>3. /\ rpc'[b] = "scan" /\ reb'[b] = [reb[b] EXCEPT !.gen = g, !.version = MetaVersion(prev) + 1]
      BY <1>1, <1>4 DEF Reserve, Typed
    <2>4. reb'[b].gen = g /\ reb'[b].version = MetaVersion(prev) + 1 /\ reb'[b].next = reb[b].next
      BY <2>1, <2>3 DEF RebLocals
    <2>5. g \in Generations /\ (meta # None => g > meta.gen /\ g > meta.reserved)
      <3>1. g <= MaxGen
        BY DEF Reserve
      <3>2. CASE meta = None
        BY <2>2, <3>1, <3>2 DEF NextGeneration, Generations
      <3>3. CASE meta # None
        <4>1. meta \in Meta /\ meta.gen \in Nat
          BY <2>1, <3>3 DEF Meta
        <4>2. g \in Nat /\ g > meta.gen /\ g > meta.reserved
          BY <2>2, <4>1, LaterGeneration
        <4> HIDE DEF g
        <4> QED
          BY <3>1, <4>1, <4>2, ProjectionsAssumption DEF Generations
      <3> QED
        BY <3>2, <3>3
    <2>6. /\ meta' # None /\ meta'.reserved = g /\ meta'.version = MetaVersion(meta) + 1
          /\ meta' \in Meta
          /\ IF meta = None THEN meta'.gen = 0 /\ ~meta'.active
             ELSE meta'.gen = meta.gen /\ meta'.active = meta.active
      <3>0. g \in 0 .. MaxGen
        BY <2>5, ProjectionsAssumption DEF Generations
      <3>1. CASE meta = None
        <4>1. meta' = [gen |-> 0, active |-> FALSE, reserved |-> g, version |-> 1]
          BY <1>4, <2>2, <3>1 DEF Reserve
        <4> HIDE DEF g
        <4>2. meta' \in Meta
          BY <3>0, <4>1, ProjectionsAssumption DEF Meta
        <4> QED
          <5>1. meta' # None
            BY <4>2, NullAssumption
          <5>2. MetaVersion(meta) = 0
            BY <3>1 DEF MetaVersion
          <5>3. meta'.gen = 0 /\ ~meta'.active /\ meta'.reserved = g /\ meta'.version = 1
            BY <4>1
          <5> QED
            BY <3>1, <4>2, <5>1, <5>2, <5>3
      <3>2. CASE meta # None
        <4>1. meta' = [meta EXCEPT !.reserved = g, !.version = @ + 1]
          BY <1>4, <2>2, <3>2 DEF Reserve
        <4>2. meta \in Meta /\ meta.version \in Nat
          BY <2>1, <3>2 DEF Meta
        <4> HIDE DEF g
        <4>3. meta' \in Meta
          <5>1. meta.version + 1 \in Nat \ {0}
            BY <4>2
          <5>2. meta' = [meta EXCEPT !.reserved = g, !.version = meta.version + 1]
            BY <4>1
          <5> QED
            BY <3>0, <4>2, <5>1, <5>2 DEF Meta
        <4>4. meta' # None
          BY <4>3, NullAssumption
        <4>5. /\ meta'.gen = meta.gen /\ meta'.active = meta.active /\ meta'.reserved = g
              /\ meta'.version = meta.version + 1
          BY <4>1, <4>2 DEF Meta
        <4>6. MetaVersion(meta) = meta.version
          BY <3>2 DEF MetaVersion
        <4> QED
          BY <3>2, <4>3, <4>4, <4>5, <4>6
      <3> QED
        BY <3>1, <3>2
    <2> HIDE DEF g
    <2>7. MetaVersion(meta) \in Nat /\ (meta # None => meta.version = MetaVersion(meta))
      BY <2>1 DEF MetaVersion, Meta
    <2>8. 0 \notin Generations
      BY DEF Generations
    <2>9. \A h \in Generations : InUse(h)' => InUse(h)
      BY <1>2, <2>6, <2>8 DEF InUse
    <2>10. ASSUME NEW r \in Records PROVE Settled(r)' => Settled(r)
      <3>1. Latest(r) \notin pending' => Settled(r)
        BY <1>2 DEF Settled
      <3> QED
        BY <1>2, <2>9, <3>1, NotMoreSettled
    <2>11. FreshEmpty' /\ LedgerTrue'
      <3>1. LedgerTrue'
        BY <1>1, <1>2 DEF LedgerTrue
      <3>2. ASSUME NEW h \in Generations, h > g PROVE contrib[h] = NoLedger
        <4>1. h \in Int /\ g \in Int
          BY <2>5 DEF Generations
        <4>2. meta # None => meta.reserved \in Int /\ h > meta.reserved
          BY <2>1, <2>5, <3>2, <4>1 DEF Meta
        <4> QED
          BY <1>1, <4>2 DEF FreshEmpty
      <3> QED
        BY <1>2, <2>6, <3>1, <3>2 DEF FreshEmpty
    <2>12. ActiveMatches'
      BY <1>1, <1>2, <2>6, <2>10 DEF ActiveMatches, Active, Matches
    <2>13. ASSUME NEW a \in Appliers PROVE AppOK(a)' /\ WriteOK(a)'
      <3> SUFFICES ASSUME apc[a] # "idle" PROVE AppOK(a)' /\ WriteOK(a)'
        BY <1>2 DEF AppOK, WriteOK
      <3>1. meta # None /\ meta \in Meta /\ app[a].meta \in Meta /\ app[a].meta.version \in Nat
            /\ app[a].meta.version < meta'.version
        BY <1>1, <2>1, <2>6, <2>7 DEF AppOK, CopyOf, Meta
      <3>2. app[a].meta.gen \in Int /\ app[a].meta.gen <= g
        BY <1>1, <2>5, <3>1 DEF AppOK, Meta, Generations
      <3>3. AppOK(a)'
        <4>1. app[a].meta.version <= meta'.version /\ app[a].meta.version # meta'.version
          BY <2>6, <2>7, <3>1
        <4> QED
          BY <1>1, <1>2, <2>6, <3>2, <4>1 DEF AppOK, CopyOf
      <3>4. WriteOK(a)'
        BY <1>1, <1>2, <3>1 DEF WriteOK
      <3> QED
        BY <3>3, <3>4
    <2>14. ASSUME NEW a \in Appliers, apc[a] # "idle" PROVE app[a].meta.gen # g /\ meta # None
      BY <1>1, <2>1, <2>5, <2>14 DEF AppOK, Meta, Generations
    <2>15. \A c \in Rebuilders \ {b} : Building(c) => reb[c].gen # g /\ meta # None
      <3> SUFFICES ASSUME NEW c \in Rebuilders \ {b}, Building(c) PROVE reb[c].gen # g /\ meta # None
        OBVIOUS
      <3>1. meta # None /\ reb[c].gen \in Generations /\ reb[c].gen <= meta.reserved
        BY <1>1 DEF RebOK
      <3> QED
        BY <2>1, <2>5, <3>1 DEF Meta, Generations
    <2>16. RebOK(b)'
      <3>1. contrib[g] = NoLedger
        BY <1>1, <2>5 DEF FreshEmpty
      <3>2. \A r \in Records : contrib'[g][r] = None
        BY <1>2, <3>1 DEF NoLedger
      <3>3. meta'.gen # g
        BY <2>1, <2>5, <2>6, <2>8 DEF Meta, Generations
      <3>4. \A r \in Records : ~(r < reb[b].next)
        BY <1>1, <1>2 DEF RebOK, Records
      <3>5. g <= meta'.reserved /\ MetaVersion(prev) + 1 = meta'.version /\ meta'.version \in Nat
        BY <2>2, <2>5, <2>6, <2>7 DEF Generations
      <3>6. \A c \in Rebuilders \ {b} : Building(c)' => Building(c) /\ reb'[c].gen # g
        BY <1>2, <2>15 DEF Building
      <3>7. \A a \in Appliers : apc'[a] # "idle" => app'[a].meta.gen # g
        BY <1>2, <2>14
      <3>8. reb'[b].version <= meta'.version
        BY <2>4, <3>5
      <3> QED
        BY <2>3, <2>4, <2>5, <2>6, <3>2, <3>3, <3>4, <3>5, <3>6, <3>7, <3>8 DEF RebOK, Building
    <2>17. ASSUME NEW c \in Rebuilders \ {b} PROVE RebOK(c)'
      <3>1. RebOK(c) /\ reb[c] \in RebLocals
        BY <1>1 DEF Typed
      <3>2. rpc[c] = "reserve" /\ reb[c].prev # None => CopyOf(reb[c].prev)'
        <4> SUFFICES ASSUME rpc[c] = "reserve", reb[c].prev # None PROVE CopyOf(reb[c].prev)'
          OBVIOUS
        <4>1. reb[c].prev \in Meta /\ CopyOf(reb[c].prev) /\ meta # None
          BY <3>1 DEF RebOK, RebLocals
        <4>2. reb[c].prev.version \in Nat /\ reb[c].prev.version <= MetaVersion(meta)
          BY <2>7, <4>1 DEF Meta, CopyOf
        <4> QED
          BY <1>2, <2>6, <2>7, <4>2 DEF CopyOf
      <3>3. Building(c) => meta # None /\ reb[c].version < meta'.version /\ reb[c].version # meta'.version
        BY <2>6, <2>7, <3>1 DEF RebOK, RebLocals
      <3>4. Building(c) => reb[c].gen # meta'.gen /\ reb[c].gen <= meta'.reserved /\ reb[c].gen # g
        <4> SUFFICES ASSUME Building(c)
                     PROVE  reb[c].gen # meta'.gen /\ reb[c].gen <= meta'.reserved /\ reb[c].gen # g
          OBVIOUS
        <4>1. meta # None /\ meta \in Meta /\ reb[c].gen \in Generations
              /\ reb[c].gen <= meta.reserved /\ reb[c].gen # meta.gen
          BY <2>1, <3>1 DEF RebOK
        <4> QED
          BY <2>5, <2>6, <2>15, <4>1 DEF Meta, Generations
      <3>5. Building(c) => reb[c].version <= meta'.version
        BY <2>6, <2>7, <3>1, <3>3 DEF RebLocals
      <3>6. Building(c)' => Building(c) /\ \A d \in Rebuilders \ {c} : Building(d)' => reb'[d].gen # reb[c].gen
        BY <1>2, <2>4, <3>1, <3>4 DEF RebOK, Building
      <3> QED
        BY <1>2, <2>6, <3>1, <3>2, <3>3, <3>4, <3>5, <3>6 DEF RebOK, Building
    <2> QED
      BY <2>11, <2>12, <2>13, <2>16, <2>17 DEF Rest
  <1> QED
    BY <1>3, <1>4

LEMMA ScanKeeps ==
  ASSUME IInv, NEW b \in Rebuilders, Scan(b)
  PROVE  Rest'
  <1> DEFINE n == reb[b].next
             g == reb[b].gen
             new == [version |-> record[n].version, gives |-> record[n].gives]
  <1>1. Typed /\ FreshEmpty /\ LedgerTrue /\ ActiveMatches
        /\ (\A c \in Appliers : AppOK(c) /\ WriteOK(c)) /\ (\A c \in Rebuilders : RebOK(c))
    BY DEF IInv
  <1>2. /\ UNCHANGED <<record, pending, meta, apc, app, rpc>> /\ rpc[b] = "scan"
        /\ reb' = [reb EXCEPT ![b].next = n + 1]
    BY DEF Scan
  <1>3. reb[b] \in RebLocals /\ n \in Nat /\ n \in Records
    BY <1>1, ProjectionsAssumption DEF Scan, Typed, RebLocals, Records
  <1>4. /\ reb'[b].next = n + 1 /\ reb'[b].gen = g /\ reb'[b].version = reb[b].version
        /\ \A c \in Rebuilders \ {b} : reb'[c] = reb[c]
    BY <1>1, <1>2, <1>3 DEF Typed, RebLocals
  <1>5. Building(b) /\ meta # None /\ g \in Generations /\ g # meta.gen /\ g <= meta.reserved
        /\ (\A a \in Appliers : apc[a] # "idle" => app[a].meta.gen # g)
        /\ contrib[g][n] = None
    <2>1. n >= n
      BY <1>3
    <2> QED
      BY <1>1, <1>2, <1>3, <2>1 DEF RebOK, Building
  <1>6. record[n] \in Source /\ record[n].version \in Nat
    BY <1>1, <1>3 DEF Typed, Source, Revisions
  <1>7. new \in Entry
    BY <1>6 DEF Source, Entry
  <1>8. /\ contrib'[g][n] = IF record[n].gives = None THEN None ELSE new
        /\ \A h \in Generations, r \in Records : h # g \/ r # n => contrib'[h][r] = contrib[h][r]
        /\ \A h \in Generations : h # g => contrib'[h] = contrib[h]
    <2>1. CASE record[n].gives = None
      BY <1>5, <2>1 DEF Scan
    <2>2. CASE record[n].gives # None
      <3>1. contrib' = [contrib EXCEPT ![g][n] = new]
        BY <2>2 DEF Scan
      <3> HIDE DEF new, n, g
      <3> QED
        BY <1>1, <1>3, <1>5, <2>2, <3>1 DEF Typed
    <2> QED
      BY <2>1, <2>2
  <1>9. GivenBy(contrib'[g][n]) = record[n].gives
    <2>1. new # None
      BY <1>7, NullAssumption
    <2>2. CASE record[n].gives = None
      BY <1>8, <2>2 DEF GivenBy
    <2>3. CASE record[n].gives # None
      BY <1>8, <2>1, <2>3 DEF GivenBy
    <2> QED
      BY <2>2, <2>3
  <1>10. ASSUME NEW h \in Generations PROVE InUse(h)' => InUse(h) /\ h # g
    BY <1>2, <1>5 DEF InUse
  <1>11. ASSUME NEW r \in Records PROVE Settled(r)' => Settled(r)
    <2>1. Latest(r) \notin pending' => Settled(r)
      BY <1>2 DEF Settled
    <2>2. \A h \in Generations : InUse(h)' => InUse(h) /\ contrib'[h][r] = contrib[h][r]
      BY <1>8, <1>10
    <2> QED
      BY <1>2, <2>1, <2>2, NotMoreSettled
  <1>12. FreshEmpty'
    <2> SUFFICES ASSUME NEW h \in Generations, h > meta.reserved PROVE contrib'[h] = NoLedger
      BY <1>2, <1>5 DEF FreshEmpty
    <2>1. meta.reserved \in Int /\ g \in Int /\ h \in Int
      BY <1>1, <1>5 DEF Typed, Meta, Generations
    <2>2. h # g
      BY <1>5, <2>1
    <2> QED
      BY <1>1, <1>8, <2>2 DEF FreshEmpty
  <1>13. LedgerTrue'
    <2> SUFFICES ASSUME NEW h \in Generations, NEW r \in Records, contrib'[h][r] # None
                 PROVE  /\ contrib'[h][r].version <= record[r].version
                        /\ contrib'[h][r].version = record[r].version =>
                             contrib'[h][r].gives = record[r].gives
      BY <1>2 DEF LedgerTrue
    <2>1. CASE h = g /\ r = n
      BY <1>6, <1>8, <2>1
    <2>2. CASE ~(h = g /\ r = n)
      BY <1>1, <1>8, <2>2 DEF LedgerTrue
    <2> QED
      BY <2>1, <2>2
  <1>14. ActiveMatches'
    <2> SUFFICES ASSUME Active, NEW r \in Records, Settled(r)'
                 PROVE  GivenBy(contrib'[meta.gen][r]) = record[r].gives
      BY <1>2 DEF ActiveMatches, Active, Matches
    <2>1. meta.gen \in Generations
      BY <1>1 DEF Active, Typed
    <2> QED
      BY <1>1, <1>5, <1>8, <1>11, <2>1 DEF ActiveMatches, Matches
  <1>15. ASSUME NEW a \in Appliers PROVE AppOK(a)' /\ WriteOK(a)'
    <2>1. AppOK(a)'
      BY <1>1, <1>2 DEF AppOK, CopyOf
    <2>2. WriteOK(a)'
      <3> SUFFICES ASSUME apc[a] = "write" PROVE WriteOK(a)'
        BY <1>2 DEF WriteOK
      <3>1. app[a].event.id \in Records /\ app[a].meta.gen \in Generations /\ CopyOf(app[a].meta)
        BY <1>1 DEF AppOK, Events
      <3>2. app[a].meta.version = meta.version =>
              contrib'[meta.gen][app[a].event.id] = contrib[meta.gen][app[a].event.id]
        BY <1>5, <1>8, <3>1 DEF CopyOf
      <3> QED
        BY <1>1, <1>2, <1>11, <3>1, <3>2 DEF WriteOK
    <2> QED
      BY <2>1, <2>2
  <1>16. ASSUME NEW c \in Rebuilders PROVE RebOK(c)'
    <2>1. RebOK(c) /\ reb[c] \in RebLocals
      BY <1>1 DEF Typed
    <2>2. CASE c = b
      <3>1. \A r \in Records : r < n + 1 => r < n \/ r = n
        BY <1>3 DEF Records
      <3>2. \A r \in Records : r >= n + 1 => r >= n /\ r # n
        BY <1>3 DEF Records
      <3>3. ASSUME NEW r \in Records, reb[b].version = meta.version, r < n + 1, Settled(r)'
            PROVE  GivenBy(contrib'[g][r]) = record[r].gives
        <4>1. CASE r = n
          BY <1>9, <4>1
        <4>2. CASE r # n
          BY <1>5, <1>8, <1>11, <2>1, <2>2, <3>1, <3>3, <4>2 DEF RebOK, Matches
        <4> QED
          BY <4>1, <4>2
      <3>4. \A r \in Records : r >= n + 1 => contrib'[g][r] = None
        BY <1>5, <1>8, <2>1, <2>2, <3>2 DEF RebOK
      <3>5. rpc'[b] = "scan"
        BY <1>2
      <3> HIDE DEF n, g
      <3>6. \A r \in Records : reb'[b].version = meta'.version /\ r < reb'[b].next => Matches(reb[b].gen, r)'
        BY <1>2, <1>4, <3>3 DEF Matches, g
      <3>7. \A d \in Rebuilders \ {b} : Building(d)' => reb'[d].gen # g
        BY <1>2, <1>4, <1>5, <2>1, <2>2 DEF RebOK, Building, g
      <3> QED
        BY <1>2, <1>4, <1>5, <2>1, <2>2, <3>4, <3>5, <3>6, <3>7 DEF RebOK, Building, g
    <2>3. CASE c # b
      <3>1. Building(c) => reb[c].gen # g /\ reb[c].gen \in Generations
        BY <1>5, <2>1, <2>3 DEF RebOK
      <3>2. Building(c) => \A r \in Records : contrib'[reb[c].gen][r] = contrib[reb[c].gen][r]
        BY <1>8, <3>1
      <3>3. Building(c) => \A r \in Records : Matches(reb[c].gen, r) => Matches(reb[c].gen, r)'
        BY <1>2, <1>4, <1>11, <2>3, <3>2 DEF Matches
      <3>4. Building(c) => \A d \in Rebuilders \ {c} : Building(d)' => reb'[d].gen # reb[c].gen
        BY <1>2, <1>4, <2>1 DEF RebOK, Building
      <3> QED
        BY <1>2, <1>4, <2>1, <2>3, <3>2, <3>3, <3>4 DEF RebOK, Building, CopyOf
    <2> QED
      BY <2>2, <2>3
  <1> QED
    BY <1>12, <1>13, <1>14, <1>15, <1>16 DEF Rest

LEMMA PublishKeeps ==
  ASSUME IInv, NEW b \in Rebuilders, Publish(b)
  PROVE  Rest'
  <1> DEFINE g == reb[b].gen
  <1>1. Typed /\ FreshEmpty /\ LedgerTrue /\ ActiveMatches
        /\ (\A c \in Appliers : AppOK(c) /\ WriteOK(c)) /\ (\A c \in Rebuilders : RebOK(c))
    BY DEF IInv
  <1>2. /\ UNCHANGED <<record, pending, contrib, apc, app>> /\ rpc[b] = "publish"
        /\ rpc'[b] = "idle" /\ \A c \in Rebuilders \ {b} : rpc'[c] = rpc[c] /\ reb'[c] = reb[c]
    BY <1>1 DEF Publish, Typed
  <1>3. CASE meta.version # reb[b].version
    <2>1. UNCHANGED meta
      BY <1>3 DEF Publish
    <2> QED
      BY <1>2, <2>1, RebuilderMoves DEF RebOK, Building
  <1>4. CASE meta.version = reb[b].version
    <2>1. Building(b) /\ meta # None /\ meta \in Meta /\ g \in Generations /\ meta.reserved = g
          /\ (\A r \in Records : Matches(reb[b].gen, r))
          /\ (\A c \in Rebuilders \ {b} : Building(c) => reb[c].gen # g)
      <3>1. \A r \in Records : r < NRecords + 1
        BY ProjectionsAssumption DEF Records
      <3>2. reb[b].next = NRecords + 1 /\ Building(b)
        BY <1>1, <1>2 DEF RebOK, Building
      <3> QED
        BY <1>1, <1>4, <3>1, <3>2 DEF RebOK, Typed
    <2>2. meta' = [gen |-> g, active |-> TRUE, reserved |-> g, version |-> meta.version + 1]
      BY <1>4 DEF Publish
    <2>3. meta'.gen = g /\ meta'.active /\ meta'.reserved = g /\ meta'.version = meta.version + 1
      BY <2>2
    <2>4. meta' # None
      <3>1. meta' \in Meta
        BY <2>1, <2>2 DEF Meta, Generations
      <3> QED
        BY <3>1, NullAssumption
    <2>5. meta.version \in Nat
      BY <2>1 DEF Meta
    <2>6. ASSUME NEW r \in Records, Settled(r)' PROVE GivenBy(contrib[g][r]) = record[r].gives
      <3>1. CASE Settled(r)
        BY <2>1, <3>1 DEF Matches
      <3>2. CASE ~Settled(r)
        <4>1. Latest(r) \in pending /\ UNCHANGED <<record, contrib, pending>>
          BY <1>2, <3>2 DEF Settled
        <4>2. PICK h \in Generations :
                InUse(h)' /\ contrib[h][r] # None /\ contrib[h][r].version = record[r].version
          BY <2>6, <4>1 DEF Settled, Latest
        <4>3. h = g
          BY <1>2, <2>3, <3>2, <4>2 DEF InUse, Settled
        <4> QED
          BY <1>1, <2>1, <4>2, <4>3 DEF LedgerTrue, GivenBy
      <3> QED
        BY <3>1, <3>2
    <2>7. FreshEmpty' /\ LedgerTrue'
      BY <1>1, <1>2, <2>1, <2>3, <2>4 DEF FreshEmpty, LedgerTrue
    <2>8. ActiveMatches'
      BY <1>2, <2>3, <2>6 DEF ActiveMatches, Matches
    <2>9. ASSUME NEW a \in Appliers PROVE AppOK(a)' /\ WriteOK(a)'
      <3> SUFFICES ASSUME apc[a] # "idle" PROVE AppOK(a)' /\ WriteOK(a)'
        BY <1>2 DEF AppOK, WriteOK
      <3>1. app[a].meta.version \in Nat /\ app[a].meta.version <= meta.version
        BY <1>1 DEF AppOK, CopyOf, Meta
      <3>2. app[a].meta.version <= meta'.version /\ app[a].meta.version # meta'.version
        BY <2>3, <2>5, <3>1
      <3> QED
        BY <1>1, <1>2, <2>1, <2>3, <2>4, <3>2 DEF AppOK, WriteOK, CopyOf
    <2>10. RebOK(b)'
      BY <1>2 DEF RebOK, Building
    <2>11. ASSUME NEW c \in Rebuilders \ {b} PROVE RebOK(c)'
      <3>1. RebOK(c) /\ reb[c] \in RebLocals
        BY <1>1 DEF Typed
      <3>2. rpc[c] = "reserve" /\ reb[c].prev # None => CopyOf(reb[c].prev)'
        <4> SUFFICES ASSUME rpc[c] = "reserve", reb[c].prev # None PROVE CopyOf(reb[c].prev)'
          OBVIOUS
        <4>1. reb[c].prev.version \in Nat /\ reb[c].prev.version <= meta.version
          BY <3>1 DEF RebOK, RebLocals, Meta, CopyOf
        <4>2. reb[c].prev.version <= meta'.version /\ reb[c].prev.version # meta'.version
          BY <2>3, <2>5, <4>1
        <4> QED
          BY <1>2, <4>2 DEF CopyOf
      <3>3. Building(c) => reb[c].version <= meta'.version /\ reb[c].version # meta'.version
        BY <2>3, <2>5, <3>1 DEF RebOK, RebLocals
      <3>4. Building(c) => reb[c].gen # g /\ reb[c].gen <= meta'.reserved
        BY <2>1, <2>3, <3>1 DEF RebOK
      <3>5. \A d \in Rebuilders : Building(d)' => Building(d) /\ reb'[d].gen = reb[d].gen
        BY <1>2 DEF Building
      <3> QED
        BY <1>2, <2>3, <2>4, <3>1, <3>2, <3>3, <3>4, <3>5 DEF RebOK, Building
    <2> QED
      BY <2>7, <2>8, <2>9, <2>10, <2>11 DEF Rest
  <1> QED
    BY <1>3, <1>4

-----------------------------------------------------------------------------
LEMMA NextKeeps == IInv /\ [Next]_vars => IInv'
  <1> SUFFICES ASSUME IInv, [Next]_vars PROVE IInv'
    OBVIOUS
  <1>1. Typed'
    BY TypedKept
  <1>2. CASE UNCHANGED vars
    <2>1. \A g : InUse(g)' <=> InUse(g)
      BY <1>2 DEF vars, InUse
    <2>2. \A r : Settled(r)' <=> Settled(r)
      BY <1>2, <2>1 DEF vars, Settled, Latest
    <2>3. \A g, r : Matches(g, r)' <=> Matches(g, r)
      BY <1>2, <2>2 DEF vars, Matches
    <2>4. \A a \in Appliers : AppOK(a)' /\ WriteOK(a)'
      BY <1>2, <2>2 DEF vars, IInv, AppOK, WriteOK, CopyOf
    <2>5. \A b \in Rebuilders : RebOK(b)'
      BY <1>2, <2>3 DEF vars, IInv, RebOK, Building, CopyOf
    <2> QED
      BY <1>1, <1>2, <2>3, <2>4, <2>5
      DEF vars, IInv, FreshEmpty, LedgerTrue, ActiveMatches, Active
  <1>3. ASSUME Rest' PROVE IInv'
    BY <1>1, <1>3 DEF IInv, Rest
  <1> QED
    BY <1>2, <1>3, ChangeKeeps, ReadMetaKeeps, ReadSourceKeeps, ApplyKeeps, StartKeeps, ReserveKeeps,
       ScanKeeps, WriteGroupsKeeps, PublishKeeps, RebuildDiesKeeps
    DEF Next

LEMMA Invariant == Spec => []IInv
  <1>1. Init => IInv
    <2> SUFFICES ASSUME Init PROVE IInv
      OBVIOUS
    <2>1. Unborn \in Source /\ NoLedger \in [Records -> Entry \cup {None}]
      BY ProjectionsAssumption DEF Unborn, NoLedger, Source, Revisions
    <2>2. Typed
      BY <2>1, RestTyped DEF Init, Typed
    <2>3. FreshEmpty /\ LedgerTrue /\ ActiveMatches
      BY DEF Init, FreshEmpty, LedgerTrue, ActiveMatches, Active, NoLedger
    <2>4. (\A a \in Appliers : AppOK(a) /\ WriteOK(a)) /\ (\A b \in Rebuilders : RebOK(b))
      BY DEF Init, AppOK, WriteOK, RebOK, Building
    <2> QED
      BY <2>2, <2>3, <2>4 DEF IInv
  <1> QED
    BY <1>1, NextKeeps, PTL DEF Spec

(* No change is lost: an event that is acknowledged, as stale, as applied  *)
(* or before the first rebuild, is one whose revision the active ledger    *)
(* has, or a later one, for any number of appliers and rebuilds.           *)
THEOREM ChangesReachTheLedger == Spec => []NoChangeLost
  <1>1. IInv => NoChangeLost
    <2> SUFFICES ASSUME IInv, Active, NEW r \in Records,
                        GivenBy(contrib[meta.gen][r]) # record[r].gives
                 PROVE  \E e \in pending : e.id = r /\ ~Stale(contrib[meta.gen][r], e)
      BY DEF NoChangeLost
    <2> DEFINE entry == contrib[meta.gen][r]
    <2>1. ~Settled(r) /\ meta.gen \in Generations /\ entry \in Entry \cup {None}
      BY DEF IInv, ActiveMatches, Matches, Active, Typed
    <2>2. Latest(r) \in pending /\ Latest(r).id = r /\ Latest(r).version = record[r].version
      BY <2>1 DEF Settled, Latest
    <2>3. entry # None => entry.version # record[r].version /\ entry.version <= record[r].version
      BY <2>1 DEF IInv, LedgerTrue, Settled, InUse
    <2>4. record[r].version \in Nat /\ (entry # None => entry.version \in Nat)
      BY <2>1 DEF IInv, Typed, Source, Revisions, Entry
    <2>5. ~Stale(entry, Latest(r))
      BY <2>2, <2>3, <2>4 DEF Stale
    <2> QED
      BY <2>2, <2>5
  <1> QED
    BY <1>1, Invariant, PTL

(* Rebuilds never share a generation, with each other or with the readers, *)
(* and find theirs empty.                                                  *)
THEOREM RebuildsApart == Spec => []GenerationsApart
  <1>1. IInv => GenerationsApart
    <2> SUFFICES ASSUME IInv, NEW b \in Rebuilders, Building(b)
                 PROVE  /\ reb[b].gen \in Generations /\ reb[b].gen # meta.gen
                        /\ \A c \in Rebuilders \ {b} : Building(c) => reb[c].gen # reb[b].gen
                        /\ \A r \in reb[b].next .. NRecords : contrib[reb[b].gen][r] = None
      BY DEF GenerationsApart, Building
    <2>1. RebOK(b) /\ reb[b] \in RebLocals
      BY DEF IInv, Typed
    <2>2. \A r \in reb[b].next .. NRecords : r \in Records /\ r >= reb[b].next
      BY <2>1, ProjectionsAssumption DEF RebLocals, Records
    <2> QED
      BY <2>1, <2>2 DEF RebOK
  <1> QED
    BY <1>1, Invariant, PTL

(* The active ledger never forgets a revision for an earlier one, and      *)
(* another generation is published only in place of an earlier one.        *)
THEOREM NeverBackwards == Spec => RevisionsForward
  <1>1. IInv /\ [Next]_vars =>
          [Active => /\ meta'.gen >= meta.gen
                     /\ meta'.gen = meta.gen =>
                          \A r \in Records : contrib[meta.gen][r] # None =>
                            contrib'[meta.gen][r].version >= contrib[meta.gen][r].version]_vars
    <2> SUFFICES ASSUME IInv, Next, Active
                 PROVE  /\ meta'.gen >= meta.gen
                        /\ meta'.gen = meta.gen =>
                             \A r \in Records : contrib[meta.gen][r] # None =>
                               contrib'[meta.gen][r].version >= contrib[meta.gen][r].version
      OBVIOUS
    <2>1. Typed /\ meta \in Meta /\ meta.gen \in Generations /\ meta.gen \in Int
      BY NullAssumption DEF IInv, Typed, Active, Generations
    <2>2. \A r \in Records : contrib[meta.gen][r] # None => contrib[meta.gen][r].version \in Nat
      BY <2>1 DEF Typed, Entry, Revisions
    <2>3. CASE UNCHANGED <<meta, contrib>>
      BY <2>1, <2>2, <2>3
    <2>4. ASSUME NEW a \in Appliers, Apply(a), meta.version = app[a].meta.version
          PROVE  /\ meta'.gen = meta.gen
                 /\ \A r \in Records : contrib[meta.gen][r] # None =>
                      contrib'[meta.gen][r].version >= contrib[meta.gen][r].version
      <3> DEFINE e == app[a].event
      <3>1. /\ app[a].meta = meta /\ e \in Events /\ ~Stale(contrib[meta.gen][e.id], e)
            /\ app[a].seen \in Source
        BY <2>4 DEF Apply, IInv, AppOK, WriteOK, CopyOf
      <3>2. contrib' = [contrib EXCEPT ![meta.gen][e.id] = NewEntry(a)]
            /\ meta' = [meta EXCEPT !.version = @ + 1]
        BY <2>4, <3>1 DEF Apply
      <3>3. e.version \in Nat /\ e.id \in Records /\ app[a].seen.version \in Nat
        BY <3>1 DEF Events, Source, Revisions
      <3>4. NewEntry(a).version \in Nat /\ NewEntry(a).version >= e.version
        BY <3>3 DEF NewEntry
      <3>5. contrib[meta.gen][e.id] # None => contrib[meta.gen][e.id].version < e.version
        BY <2>2, <3>1, <3>3 DEF Stale
      <3>6. contrib'[meta.gen][e.id] = NewEntry(a)
            /\ \A r \in Records \ {e.id} : contrib'[meta.gen][r] = contrib[meta.gen][r]
        BY <2>1, <3>2, <3>3 DEF Typed
      <3>7. meta'.gen = meta.gen
        BY <2>1, <3>2 DEF Meta
      <3>8. ASSUME NEW r \in Records, contrib[meta.gen][r] # None
            PROVE  contrib'[meta.gen][r].version >= contrib[meta.gen][r].version
        <4>1. CASE r = e.id
          BY <2>2, <3>3, <3>4, <3>5, <3>6, <3>8, <4>1
        <4>2. CASE r # e.id
          BY <2>2, <3>6, <3>8, <4>2
        <4> QED
          BY <4>1, <4>2
      <3> QED
        BY <3>7, <3>8
    <2>5. ASSUME NEW b \in Rebuilders, Reserve(b), MetaVersion(meta) = MetaVersion(reb[b].prev)
          PROVE  meta'.gen = meta.gen /\ UNCHANGED contrib
      <3>1. rpc[b] = "reserve" /\ meta # None /\ meta.version \in Nat \ {0}
        BY <2>1, <2>5, NullAssumption DEF Reserve, Meta
      <3>2. reb[b].prev # None
        BY <2>5, <3>1 DEF MetaVersion
      <3>3. reb[b].prev = meta
        BY <2>5, <3>1, <3>2 DEF IInv, RebOK, CopyOf, MetaVersion
      <3>4. meta' = [meta EXCEPT !.reserved = NextGeneration(meta), !.version = @ + 1] /\ UNCHANGED contrib
        BY <2>5, <3>1, <3>3 DEF Reserve
      <3> QED
        BY <2>1, <3>4 DEF Meta
    <2>6. ASSUME NEW b \in Rebuilders, Scan(b)
          PROVE  UNCHANGED meta /\ \A r \in Records : contrib'[meta.gen][r] = contrib[meta.gen][r]
      <3>1. reb[b].gen # meta.gen
        BY <2>6 DEF Scan, IInv, RebOK, Building
      <3> QED
        BY <2>1, <2>6, <3>1 DEF Scan, Typed
    <2>7. ASSUME NEW b \in Rebuilders, Publish(b), meta.version = reb[b].version
          PROVE  meta'.gen > meta.gen
      <3>1. /\ meta'.gen = reb[b].gen /\ reb[b].gen # meta.gen /\ reb[b].gen = meta.reserved
            /\ meta.gen <= meta.reserved
        BY <2>7, <2>1, NullAssumption DEF Publish, IInv, RebOK, Building, Typed
      <3> QED
        BY <2>1, <3>1 DEF Meta
    <2>8. ASSUME ~UNCHANGED <<meta, contrib>>
          PROVE  \/ \E a \in Appliers : Apply(a) /\ meta.version = app[a].meta.version
                 \/ \E b \in Rebuilders : Reserve(b) /\ MetaVersion(meta) = MetaVersion(reb[b].prev)
                 \/ \E b \in Rebuilders : Scan(b)
                 \/ \E b \in Rebuilders : Publish(b) /\ meta.version = reb[b].version
      BY <2>8 DEF Next, Change, ReadMeta, ReadSource, Apply, StartRebuild, Reserve, Scan, WriteGroups,
                  Publish, RebuildDies
    <2>9. ASSUME NEW b \in Rebuilders, Publish(b), meta.version = reb[b].version
          PROVE  meta'.gen >= meta.gen /\ meta'.gen # meta.gen
      <3>1. meta'.gen > meta.gen /\ meta'.gen \in Int
        <4>1. meta'.gen = reb[b].gen /\ reb[b].gen \in Generations
          BY <2>9 DEF Publish, IInv, RebOK, Building
        <4> QED
          BY <2>7, <2>9, <4>1 DEF Generations
      <3> QED
        BY <2>1, <3>1
    <2> QED
      BY <2>1, <2>2, <2>3, <2>4, <2>5, <2>6, <2>8, <2>9
  <1> QED
    BY <1>1, Invariant, PTL DEF Spec, RevisionsForward

-----------------------------------------------------------------------------
(* Sums over the records, by induction on how many are added: of the       *)
(* counts for which a fact fails there would be a least one.               *)

(* Every set of naturals that is not empty has a least element.            *)
LEMMA LeastOf ==
  ASSUME NEW S, S \subseteq Nat, S # {}
  PROVE  \E x \in S : \A y \in S : x <= y
  <1>1. \E x \in S : \A y \in S : ~ (<<y, x>> \in OpToRel(<, Nat))
    BY NatLessThanWellFounded, WFMin
  <1>2. PICK x \in S : \A y \in S : ~ (<<y, x>> \in OpToRel(<, Nat))
    BY <1>1
  <1>3. \A y \in S : ~ (y < x)
    BY <1>2 DEF OpToRel
  <1> QED
    BY <1>3

(* u holds the sums of the values up to each record, as far as record n.   *)
Adding(u, values, n) ==
  /\ u \in [0 .. n -> Int]
  /\ u[0] = 0
  /\ \A r \in 1 .. n : u[r] = u[r - 1] + values[r]

(* There are such sums, by induction on n: of the n without them there     *)
(* would be a least one.                                                   *)
LEMMA SumsExist ==
  ASSUME NEW values \in [Records -> Int], NEW n \in 0 .. NRecords
  PROVE  \E u : Adding(u, values, n)
  <1> DEFINE Bad == {x \in 0 .. NRecords : ~ \E u : Adding(u, values, x)}
  <1> USE ProjectionsAssumption
  <1> SUFFICES ASSUME Bad # {} PROVE FALSE
    OBVIOUS
  <1>1. Bad \subseteq Nat
    OBVIOUS
  <1>2. PICK x \in Bad : \A y \in Bad : x <= y
    BY <1>1, LeastOf
  <1> HIDE DEF Bad
  <1>3. x \in 0 .. NRecords /\ ~ \E u : Adding(u, values, x)
    BY <1>2 DEF Bad
  <1>4. x # 0
    <2>1. Adding([r \in 0 .. 0 |-> 0], values, 0)
      BY DEF Adding
    <2> QED
      BY <2>1, <1>3
  <1>5. x - 1 \in 0 .. NRecords /\ x - 1 \notin Bad
    BY <1>2, <1>3, <1>4
  <1>6. PICK u : Adding(u, values, x - 1)
    BY <1>5 DEF Bad
  <1> DEFINE w == [r \in 0 .. x |-> IF r = x THEN u[x - 1] + values[x] ELSE u[r]]
  <1>7. Adding(w, values, x)
    <2>1. u \in [0 .. x - 1 -> Int] /\ u[0] = 0 /\ \A r \in 1 .. x - 1 : u[r] = u[r - 1] + values[r]
      BY <1>6 DEF Adding
    <2>2. x \in Nat \ {0} /\ values[x] \in Int /\ u[x - 1] \in Int
      BY <1>3, <1>4, <2>1 DEF Records
    <2>3. w \in [0 .. x -> Int]
      BY <2>1, <2>2
    <2>4. w[0] = 0 /\ w[x] = u[x - 1] + values[x]
      BY <2>1, <2>2
    <2>5. \A r \in 0 .. x - 1 : w[r] = u[r]
      BY <2>2
    <2>6. ASSUME NEW r \in 1 .. x PROVE w[r] = w[r - 1] + values[r]
      <3>1. CASE r = x
        BY <3>1, <2>2, <2>4, <2>5
      <3>2. CASE r # x
        <4>1. r \in 1 .. x - 1 /\ r - 1 \in 0 .. x - 1
          BY <3>2, <2>2
        <4> QED
          BY <4>1, <2>1, <2>5
      <3> QED
        BY <3>1, <3>2
    <2> QED
      BY <2>3, <2>4, <2>6 DEF Adding
  <1> QED
    BY <1>3, <1>7

(* Total is the last of them.                                              *)
LEMMA TotalAdds ==
  ASSUME NEW values \in [Records -> Int]
  PROVE  \E u : Adding(u, values, NRecords) /\ Total(values) = u[NRecords]
  <1> USE ProjectionsAssumption
  <1> DEFINE Sum(u) == [r \in 0 .. NRecords |-> IF r = 0 THEN 0 ELSE u[r - 1] + values[r]]
             upTo == CHOOSE u : u = Sum(u)
  <1>1. PICK u : Adding(u, values, NRecords)
    BY SumsExist
  <1>2. u = Sum(u)
    <2>1. u \in [0 .. NRecords -> Int] /\ Sum(u) = [r \in 0 .. NRecords |-> Sum(u)[r]]
      BY <1>1 DEF Adding
    <2>2. \A r \in 0 .. NRecords : u[r] = Sum(u)[r]
      BY <1>1 DEF Adding
    <2> QED
      BY <2>1, <2>2
  <1>3. upTo = Sum(upTo)
    <2> HIDE DEF Sum
    <2> QED
      BY <1>2
  <1>4. \A r \in 1 .. NRecords : upTo[r] = upTo[r - 1] + values[r]
    <2> HIDE DEF upTo
    <2> QED
      BY <1>3
  <1>5. upTo[0] = 0
    <2> HIDE DEF upTo
    <2> QED
      BY <1>3
  <1>6. upTo = [r \in 0 .. NRecords |-> upTo[r]]
    <2> HIDE DEF upTo
    <2> QED
      BY <1>3
  <1>7. Total(values) = upTo[NRecords]
    BY DEF Total
  <1> HIDE DEF upTo, Sum
  <1>8. \A r \in 0 .. NRecords : upTo[r] \in Int
    <2> DEFINE Bad == {r \in 0 .. NRecords : upTo[r] \notin Int}
    <2> SUFFICES ASSUME Bad # {} PROVE FALSE
      OBVIOUS
    <2>1. PICK x \in Bad : \A y \in Bad : x <= y
      <3>1. Bad \subseteq Nat
        OBVIOUS
      <3> QED
        BY <3>1, LeastOf
    <2>2. x \in 1 .. NRecords
      BY <1>5, <2>1
    <2>3. x - 1 \in 0 .. NRecords /\ x - 1 \notin Bad
      <3>1. x - 1 \in 0 .. NRecords /\ ~(x <= x - 1)
        BY <2>2
      <3> QED
        BY <3>1, <2>1
    <2>4. upTo[x - 1] \in Int /\ values[x] \in Int
      BY <2>2, <2>3 DEF Records
    <2> QED
      BY <1>4, <2>1, <2>2, <2>4
  <1>9. Adding(upTo, values, NRecords)
    BY <1>4, <1>5, <1>6, <1>8 DEF Adding
  <1> QED
    BY <1>7, <1>9

(* One value changes: the total changes by as much.                        *)
LEMMA TotalOfChange ==
  ASSUME NEW a \in [Records -> Int], NEW b \in [Records -> Int], NEW r \in Records,
         \A q \in Records \ {r} : b[q] = a[q]
  PROVE  Total(b) = Total(a) - a[r] + b[r]
  <1> USE ProjectionsAssumption
  <1>1. PICK u : Adding(u, a, NRecords) /\ Total(a) = u[NRecords]
    BY TotalAdds
  <1>2. PICK w : Adding(w, b, NRecords) /\ Total(b) = w[NRecords]
    BY TotalAdds
  <1> DEFINE Fits(x) == w[x] = u[x] + (IF x < r THEN 0 ELSE b[r] - a[r])
             Bad == {x \in 0 .. NRecords : ~Fits(x)}
  <1>3. Bad = {}
    <2> SUFFICES ASSUME Bad # {} PROVE FALSE
      OBVIOUS
    <2>1. PICK x \in Bad : \A y \in Bad : x <= y
      <3>1. Bad \subseteq Nat
        OBVIOUS
      <3> QED
        BY <3>1, LeastOf
    <2>2. x \in 1 .. NRecords
      BY <1>1, <1>2, <2>1 DEF Adding, Records
    <2>3. Fits(x - 1)
      <3>1. x - 1 \in 0 .. NRecords /\ ~(x <= x - 1)
        BY <2>2
      <3> QED
        BY <3>1, <2>1
    <2>4. w[x] = w[x - 1] + b[x] /\ u[x] = u[x - 1] + a[x]
      BY <1>1, <1>2, <2>2 DEF Adding
    <2>5. /\ w[x - 1] \in Int /\ u[x - 1] \in Int
          /\ a[x] \in Int /\ b[x] \in Int /\ a[r] \in Int /\ b[r] \in Int
      <3>1. x - 1 \in 0 .. NRecords /\ x \in Records
        BY <2>2 DEF Records
      <3>2. u \in [0 .. NRecords -> Int] /\ w \in [0 .. NRecords -> Int]
        BY <1>1, <1>2 DEF Adding
      <3> QED
        BY <3>1, <3>2
    <2>6. ~Fits(x) /\ r \in 1 .. NRecords /\ (x # r => b[x] = a[x])
      BY <2>1, <2>2 DEF Records
    <2>7. CASE x < r
      BY <2>2, <2>3, <2>4, <2>5, <2>6, <2>7
    <2>8. CASE x = r
      BY <2>2, <2>3, <2>4, <2>5, <2>6, <2>8
    <2>9. CASE x > r
      BY <2>2, <2>3, <2>4, <2>5, <2>6, <2>9
    <2> QED
      BY <2>2, <2>6, <2>7, <2>8, <2>9
  <1>4. Fits(NRecords)
    BY <1>3
  <1>5. u[NRecords] \in Int /\ a[r] \in Int /\ b[r] \in Int /\ ~(NRecords < r)
    BY <1>1 DEF Adding, Records
  <1> QED
    BY <1>1, <1>2, <1>4, <1>5

(* A total is a number, and nothing adds up to nothing.                    *)
LEMMA TotalInt ==
  ASSUME NEW a \in [Records -> Int]
  PROVE  Total(a) \in Int
  BY TotalAdds, ProjectionsAssumption DEF Adding

-----------------------------------------------------------------------------
(* What the groups add up to.                                              *)

(* What the ledger's entries add to group k.                               *)
Added(ledger, k) == [r \in Records |-> Adds(GivenBy(ledger[r]), k)]

LEMMA AddedTyped ==
  ASSUME NEW k
  PROVE  /\ \A c \in Contribs \cup {None} : Adds(c, k) \in Int
         /\ \A ledger \in [Records -> Entry \cup {None}] : Added(ledger, k) \in [Records -> Int]
  <1>1. \A c \in Contribs \cup {None} : Adds(c, k) \in Int
    BY ProjectionsAssumption DEF Adds
  <1>2. \A x \in Entry \cup {None} : GivenBy(x) \in Contribs \cup {None}
    BY DEF GivenBy, Entry
  <1> QED
    BY <1>1, <1>2 DEF Added

LEMMA SumsTyped ==
  ASSUME NEW ledger \in [Records -> Entry \cup {None}]
  PROVE  Sums(ledger) \in [Groups -> Int]
  BY AddedTyped, TotalInt DEF Sums, Added

(* The groups of the active generation, and those of one that is to be     *)
(* published, are what its ledger adds up to.                              *)
GroupsOK ==
  /\ group \in [Generations -> [Groups -> Int]]
  /\ GroupsAddUp
  /\ \A b \in Rebuilders : rpc[b] = "publish" =>
       group[reb[b].gen] = Sums(contrib[reb[b].gen])

(* A new entry of record r changes the sums by its contribution and that   *)
(* of the entry it replaces, which is what an applier writes.              *)
LEMMA AdjustedSums ==
  ASSUME NEW g \in Generations, NEW old \in [Records -> Entry \cup {None}], NEW r \in Records,
         NEW x \in Entry, group[g] = Sums(old)
  PROVE  Adjusted(g, GivenBy(old[r]), x.gives) = Sums([old EXCEPT ![r] = x])
  <1> DEFINE new == [old EXCEPT ![r] = x]
  <1>1. new \in [Records -> Entry \cup {None}] /\ new[r] = x
        /\ \A q \in Records \ {r} : new[q] = old[q]
    OBVIOUS
  <1>2. GivenBy(x) = x.gives
    BY NullAssumption DEF GivenBy
  <1> HIDE DEF new
  <1>3. ASSUME NEW k \in Groups
        PROVE  Total(Added(new, k)) =
                 Total(Added(old, k)) - Adds(GivenBy(old[r]), k) + Adds(x.gives, k)
    <2>1. Added(old, k) \in [Records -> Int] /\ Added(new, k) \in [Records -> Int]
      BY <1>1, AddedTyped
    <2>2. \A q \in Records \ {r} : Added(new, k)[q] = Added(old, k)[q]
      BY <1>1 DEF Added
    <2>3. Added(old, k)[r] = Adds(GivenBy(old[r]), k) /\ Added(new, k)[r] = Adds(x.gives, k)
      BY <1>1, <1>2 DEF Added
    <2>4. Total(Added(new, k)) = Total(Added(old, k)) - Added(old, k)[r] + Added(new, k)[r]
      BY <2>1, <2>2, TotalOfChange
    <2> QED
      BY <2>3, <2>4
  <1>4. \A k \in Groups : group[g][k] = Total(Added(old, k))
    BY DEF Sums, Added
  <1>5. Sums(new) = [k \in Groups |-> Total(Added(new, k))]
    BY DEF Sums, Added
  <1>6. Adjusted(g, GivenBy(old[r]), x.gives) = [k \in Groups |-> Total(Added(new, k))]
    BY <1>3, <1>4 DEF Adjusted
  <1> QED
    BY <1>5, <1>6 DEF new

LEMMA GroupsStep == IInv /\ IInv' /\ GroupsOK /\ [Next]_vars => GroupsOK'
  <1> SUFFICES ASSUME IInv, IInv', GroupsOK, [Next]_vars PROVE GroupsOK'
    OBVIOUS
  <1>0. /\ Typed /\ Typed'
        /\ \A a \in Appliers : AppOK(a) /\ WriteOK(a)
        /\ \A b \in Rebuilders : RebOK(b)
    BY DEF IInv
  <1>1. ASSUME UNCHANGED <<meta, contrib, group>>,
               \A b \in Rebuilders : rpc'[b] = "publish" => rpc[b] = "publish" /\ reb'[b] = reb[b]
        PROVE  GroupsOK'
    BY <1>1 DEF GroupsOK, GroupsAddUp, Active
  <1>2. CASE UNCHANGED vars
    BY <1>1, <1>2 DEF vars
  <1>3. ASSUME NEW r \in Records, Change(r) PROVE GroupsOK'
    BY <1>1, <1>3 DEF Change
  <1>4. ASSUME NEW a \in Appliers, NEW e \in Events, ReadMeta(a, e) PROVE GroupsOK'
    BY <1>1, <1>4 DEF ReadMeta
  <1>5. ASSUME NEW a \in Appliers, ReadSource(a) PROVE GroupsOK'
    BY <1>1, <1>5 DEF ReadSource
  <1>6. ASSUME NEW b \in Rebuilders, StartRebuild(b) \/ RebuildDies(b) PROVE GroupsOK'
    BY <1>0, <1>1, <1>6 DEF StartRebuild, RebuildDies, Typed
  <1>7. ASSUME NEW a \in Appliers, Apply(a) PROVE GroupsOK'
    <2>1. CASE meta.version # app[a].meta.version
      BY <1>1, <1>7, <2>1 DEF Apply
    <2>2. CASE meta.version = app[a].meta.version
      <3> DEFINE e == app[a].event
                 g == meta.gen
                 entry == NewEntry(a)
      <3>1. /\ meta # None /\ meta \in Meta /\ g \in Generations /\ app[a].meta = meta
            /\ e \in Events /\ e.id \in Records /\ app[a].seen \in Source
            /\ app[a].entry = contrib[g][e.id]
        BY <1>0, <1>7, <2>2 DEF Apply, AppOK, WriteOK, CopyOf, Events, Typed
      <3>2. entry \in Entry
        BY <3>1 DEF NewEntry, Entry, Events, Source, Revisions
      <3>3. /\ group' = [group EXCEPT ![g] = Adjusted(g, GivenBy(app[a].entry), entry.gives)]
            /\ contrib' = [contrib EXCEPT ![g][e.id] = entry]
            /\ meta' = [meta EXCEPT !.version = @ + 1]
            /\ UNCHANGED <<rpc, reb>>
        BY <1>7, <2>2, <3>1 DEF Apply
      <3>4. Active /\ group[g] = Sums(contrib[g]) /\ contrib[g] \in [Records -> Entry \cup {None}]
        BY <1>0, <3>1 DEF Active, GroupsOK, GroupsAddUp, Typed
      <3>5. Adjusted(g, GivenBy(contrib[g][e.id]), entry.gives)
              = Sums([contrib[g] EXCEPT ![e.id] = entry])
        BY <3>1, <3>2, <3>4, AdjustedSums
      <3> HIDE DEF e, entry
      <3>6. contrib'[g] = [contrib[g] EXCEPT ![e.id] = entry]
            /\ \A h \in Generations \ {g} : contrib'[h] = contrib[h]
        BY <1>0, <3>1, <3>3 DEF Typed
      <3>7. group'[g] = Sums(contrib'[g]) /\ \A h \in Generations \ {g} : group'[h] = group[h]
        BY <3>1, <3>3, <3>5, <3>6 DEF GroupsOK
      <3>8. contrib'[g] \in [Records -> Entry \cup {None}]
        BY <1>0, <3>1 DEF Typed
      <3>9. group' \in [Generations -> [Groups -> Int]]
        BY <3>1, <3>3, <3>7, <3>8, SumsTyped DEF GroupsOK
      <3>10. meta'.gen = g
        BY <3>1, <3>3 DEF Meta
      <3>11. \A b \in Rebuilders : rpc[b] = "publish" => reb[b].gen \in Generations \ {g}
        BY <1>0 DEF RebOK, Building
      <3> QED
        BY <3>3, <3>6, <3>7, <3>9, <3>10, <3>11 DEF GroupsOK, GroupsAddUp
    <2> QED
      BY <2>1, <2>2
  <1>8. ASSUME NEW b \in Rebuilders, Reserve(b) PROVE GroupsOK'
    <2>1. /\ UNCHANGED <<contrib, group>> /\ rpc[b] = "reserve" /\ rpc'[b] # "publish"
          /\ \A c \in Rebuilders \ {b} : rpc'[c] = rpc[c] /\ reb'[c] = reb[c]
      BY <1>0, <1>8 DEF Reserve, Typed
    <2>2. Active' => Active /\ meta'.gen = meta.gen
      <3> DEFINE prev == reb[b].prev
      <3>1. CASE UNCHANGED meta
        BY <3>1 DEF Active
      <3>2. CASE meta' # meta
        <4>1. /\ MetaVersion(meta) = MetaVersion(prev)
              /\ meta' = IF prev = None
                         THEN [gen |-> 0, active |-> FALSE, reserved |-> NextGeneration(prev), version |-> 1]
                         ELSE [prev EXCEPT !.reserved = NextGeneration(prev), !.version = @ + 1]
          BY <1>8, <3>2 DEF Reserve
        <4>2. CASE prev = None
          BY <4>1, <4>2 DEF Active
        <4>3. CASE prev # None
          <5>1. meta # None /\ prev = meta /\ meta \in Meta
            BY <1>0, <2>1, <4>1, <4>3 DEF RebOK, CopyOf, MetaVersion, Typed
          <5>2. meta'.gen = meta.gen /\ meta'.active = meta.active
            BY <4>1, <4>3, <5>1 DEF Meta
          <5> QED
            BY <5>1, <5>2 DEF Active
        <4> QED
          BY <4>2, <4>3
      <3> QED
        BY <3>1, <3>2
    <2> QED
      BY <2>1, <2>2 DEF GroupsOK, GroupsAddUp
  <1>9. ASSUME NEW b \in Rebuilders, Scan(b) PROVE GroupsOK'
    <2>1. /\ UNCHANGED <<meta, group, rpc>> /\ rpc[b] = "scan"
          /\ \A c \in Rebuilders \ {b} : reb'[c] = reb[c]
          /\ \A h \in Generations \ {reb[b].gen} : contrib'[h] = contrib[h]
      BY <1>0, <1>9 DEF Scan, Typed
    <2>2. /\ Active => meta.gen \in Generations \ {reb[b].gen}
          /\ \A c \in Rebuilders \ {b} : rpc[c] = "publish" => reb[c].gen \in Generations \ {reb[b].gen}
      BY <1>0, <2>1 DEF RebOK, Building, Typed, Active
    <2> QED
      BY <2>1, <2>2 DEF GroupsOK, GroupsAddUp, Active
  <1>10. ASSUME NEW b \in Rebuilders, WriteGroups(b) PROVE GroupsOK'
    <2> DEFINE g == reb[b].gen
    <2>1. /\ UNCHANGED <<meta, contrib, reb>> /\ rpc[b] = "scan" /\ g \in Generations
          /\ \A c \in Rebuilders \ {b} : rpc'[c] = rpc[c]
          /\ group' = [group EXCEPT ![g] = Sums(contrib[g])]
      BY <1>0, <1>10 DEF WriteGroups, Typed, RebOK, Building
    <2>2. /\ Active => meta.gen \in Generations \ {g}
          /\ \A c \in Rebuilders \ {b} : rpc[c] = "publish" => reb[c].gen \in Generations \ {g}
      BY <1>0, <2>1 DEF RebOK, Building, Typed, Active
    <2>3. Sums(contrib[g]) \in [Groups -> Int]
      BY <1>0, <2>1, SumsTyped DEF Typed
    <2>4. /\ group'[g] = Sums(contrib[g]) /\ group' \in [Generations -> [Groups -> Int]]
          /\ \A h \in Generations \ {g} : group'[h] = group[h]
      BY <2>1, <2>3 DEF GroupsOK
    <2> QED
      BY <2>1, <2>2, <2>4 DEF GroupsOK, GroupsAddUp, Active
  <1>11. ASSUME NEW b \in Rebuilders, Publish(b) PROVE GroupsOK'
    <2>1. /\ UNCHANGED <<contrib, group>> /\ rpc[b] = "publish" /\ rpc'[b] = "idle"
          /\ \A c \in Rebuilders \ {b} : rpc'[c] = rpc[c] /\ reb'[c] = reb[c]
          /\ meta' = meta \/ meta'.gen = reb[b].gen
      BY <1>0, <1>11 DEF Publish, Typed
    <2> QED
      BY <2>1 DEF GroupsOK, GroupsAddUp, Active
  <1> QED
    BY <1>2, <1>3, <1>4, <1>5, <1>6, <1>7, <1>8, <1>9, <1>10, <1>11 DEF Next

(* The groups readers see are always what the ledger they belong to adds   *)
(* up to, for any number of records, groups, appliers and rebuilds: no     *)
(* applier adds to what it did not read, and none writes what a rebuild    *)
(* has added up.                                                           *)
THEOREM GroupsAreSums == Spec => []GroupsAddUp
  <1>1. Init => GroupsOK
    BY DEF Init, GroupsOK, GroupsAddUp, Active, Zero
  <1>2. GroupsOK => GroupsAddUp
    BY DEF GroupsOK
  <1> QED
    BY <1>1, <1>2, GroupsStep, Invariant, PTL DEF Spec

(* Every variable keeps its type, the aggregates among them, and only a    *)
(* published generation is active.                                         *)
THEOREM TypeCorrect == Spec => []TypeOK
  <1>1. Init => GroupsOK
    BY DEF Init, GroupsOK, GroupsAddUp, Active, Zero
  <1>2. IInv /\ GroupsOK => TypeOK
    BY DEF IInv, Typed, GroupsOK, TypeOK, AppLocals, RebLocals
  <1> QED
    BY <1>1, <1>2, GroupsStep, Invariant, PTL DEF Spec
=============================================================================
