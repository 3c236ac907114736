------------------------------ MODULE Delivery ------------------------------
(***************************************************************************)
(* The durable inbox of a subscription: SubscriptionDelivery's claim,      *)
(* external-effect intent, completion and release, as Engine.consume and   *)
(* Dispatcher.consumer drive them.  The transport delivers a message any   *)
(* number of times, to any worker.  A worker's steps are separated by      *)
(* awaited storage calls; it may stop between any two of them, and the     *)
(* reply to a write that took effect may be lost.                          *)
(*                                                                         *)
(* One subscription is modelled.  Time is what is left of a lease.         *)
(***************************************************************************)
EXTENDS Naturals

CONSTANTS
  Workers,     \* consumers of the subscription
  Messages,    \* message identities
  Legacy,      \* messages recorded in the ledger of earlier releases
  Contents,    \* message contents, told apart by their request hash
  LeaseMs,     \* duration of a claim
  MaxWrites,  \* bound: no new claim of a delivery with this many writes
  NoDelivery   \* no delivery document, no delivery in hand

Statuses == {"ready", "running", "external", "complete"}

(* A subscription-delivery document.  lease is the time until leaseUntil.  *)
Document ==
  [status : Statuses, hash : Contents, lease : Nat, version : Nat]

(* What a SubscriptionDelivery object holds.  version is its fencing       *)
(* token, started says that it recorded its external intent.               *)
Claim ==
  [message : Messages, hash : Contents, version : Nat, lease : Nat,
   started : BOOLEAN]

ASSUME DeliveryAssumption ==
  /\ Legacy \subseteq Messages
  /\ LeaseMs \in Nat
  /\ MaxWrites \in Nat
  /\ NoDelivery \notin Document
  /\ NoDelivery \notin Claim

VARIABLES
  doc,      \* [Messages -> Document or NoDelivery], the delivery documents
  pc,       \* [Workers -> where the worker is]
  claim,    \* [Workers -> Claim or NoDelivery], the delivery in hand
  applied,  \* history: [Messages -> Nat], commits of the handler's writes
  called    \* history: [Messages -> Nat], deliveries whose external effect ran

deliveryVars == <<doc, pc, claim, applied, called>>

Holding == {"handling", "intent", "external", "failing"}

-----------------------------------------------------------------------------
(* Documents and compare-and-set                                           *)

(* The document version a putDocument must expect: 0 stands for null.      *)
Version(m) == IF doc[m] = NoDelivery THEN 0 ELSE doc[m].version

(* Mutant: the document is written whatever its version.                   *)
NotFenced(w) == TRUE

(* The compare of a worker's putDocument: its token is still the version.  *)
Current(w) == claim[w].version = Version(claim[w].message)

(* The document a worker writes: its own state under a new status.         *)
Written(w, status) ==
  [status |-> status, hash |-> claim[w].hash, lease |-> claim[w].lease,
   version |-> claim[w].version + 1]

Put(w, status) == doc' = [doc EXCEPT ![claim[w].message] = Written(w, status)]

(* Mutant: a delivery whose external effect may have run is claimed again  *)
(* once its lease has expired.                                             *)
ClaimableAfterExternal(m, h) ==
  doc[m] # NoDelivery =>
    /\ doc[m].hash = h
    /\ doc[m].status # "complete"
    /\ doc[m].status \in {"running", "external"} => doc[m].lease = 0

(* claim goes on to its write: the delivery is not complete, its outcome   *)
(* not unknown, no live lease runs it, and its content is the one known.   *)
(* Otherwise claim returns or throws and nothing changes.                  *)
Claimable(m, h) ==
  doc[m] # NoDelivery =>
    /\ doc[m].hash = h
    /\ doc[m].status \notin {"complete", "external"}
    /\ doc[m].status = "running" => doc[m].lease = 0

-----------------------------------------------------------------------------
DeliveryInit ==
  /\ doc = [m \in Messages |-> NoDelivery]
  /\ pc = [w \in Workers |-> "idle"]
  /\ claim = [w \in Workers |-> NoDelivery]
  /\ applied = [m \in Messages |-> 0]
  /\ called = [m \in Messages |-> 0]

(* The worker lets go of its delivery.                                     *)
Release(w) ==
  /\ pc' = [pc EXCEPT ![w] = "idle"]
  /\ claim' = [claim EXCEPT ![w] = NoDelivery]

(* claim, first half: the ledger and the document are read, and the lease  *)
(* to be taken starts now.                                                 *)
ClaimRead(w, m, h) ==
  /\ pc[w] = "idle"
  /\ m \notin Legacy
  /\ Claimable(m, h)
  /\ Version(m) < MaxWrites
  /\ pc' = [pc EXCEPT ![w] = "claiming"]
  /\ claim' = [claim EXCEPT ![w] =
                 [message |-> m, hash |-> h, version |-> Version(m),
                  lease |-> LeaseMs, started |-> FALSE]]
  /\ UNCHANGED <<doc, applied, called>>

(* claim, second half: the document is written at the version read, or the *)
(* claim is lost to another worker (TransientConflict).                    *)
ClaimWrite(w) ==
  /\ pc[w] = "claiming"
  /\ IF Current(w)
     THEN /\ Put(w, "running")
          /\ pc' = [pc EXCEPT ![w] = "handling"]
          /\ claim' = [claim EXCEPT ![w].version = @ + 1]
     ELSE Release(w) /\ UNCHANGED doc
  /\ UNCHANGED <<applied, called>>

(* beforeExternal, first half: the lease must not have expired.            *)
ExternalCheck(w) ==
  /\ pc[w] = "handling"
  /\ ~claim[w].started
  /\ pc' = [pc EXCEPT ![w] = IF claim[w].lease > 0 THEN "intent" ELSE "failing"]
  /\ UNCHANGED <<doc, claim, applied, called>>

(* beforeExternal, second half: the intent is recorded under the token, or *)
(* the write is refused or its reply lost and the handler fails.           *)
ExternalIntent(w) ==
  /\ pc[w] = "intent"
  /\ \/ /\ Current(w)
        /\ Put(w, "external")
        /\ pc' = [pc EXCEPT ![w] = "external"]
        /\ claim' = [claim EXCEPT ![w].version = @ + 1, ![w].started = TRUE]
     \/ /\ IF Current(w) THEN Put(w, "external") ELSE UNCHANGED doc
        /\ pc' = [pc EXCEPT ![w] = "failing"]
        /\ UNCHANGED claim
  /\ UNCHANGED <<applied, called>>

(* The external effect runs; the handler goes on.                          *)
ExternalCall(w) ==
  /\ pc[w] = "external"
  /\ called' = [called EXCEPT ![claim[w].message] = @ + 1]
  /\ pc' = [pc EXCEPT ![w] = "handling"]
  /\ UNCHANGED <<doc, claim, applied>>

(* The handler's writes and the completion commit together, fenced by the  *)
(* token.  If the reply is lost the worker takes it for a failure.         *)
Complete(w) ==
  /\ pc[w] = "handling"
  /\ Current(w)
  /\ Put(w, "complete")
  /\ applied' = [applied EXCEPT ![claim[w].message] = @ + 1]
  /\ \/ Release(w)
     \/ pc' = [pc EXCEPT ![w] = "failing"] /\ UNCHANGED claim
  /\ UNCHANGED called

(* The handler or its commit fails: a business error, an external call's   *)
(* error, a guard of the commit, a token that was superseded.              *)
HandlerFailed(w) ==
  /\ pc[w] \in {"handling", "external"}
  /\ pc' = [pc EXCEPT ![w] = "failing"]
  /\ UNCHANGED <<doc, claim, applied, called>>

(* Mutant: a failed delivery is always made ready again.                   *)
FailedReopening(w) ==
  /\ pc[w] = "failing"
  /\ IF Current(w) THEN Put(w, "ready") ELSE UNCHANGED doc
  /\ Release(w)
  /\ UNCHANGED <<applied, called>>

(* failed: once the external intent is recorded the delivery stays as it   *)
(* is; otherwise it is made ready again, unless the token is superseded.   *)
Failed(w) ==
  /\ pc[w] = "failing"
  /\ IF ~claim[w].started /\ Current(w) THEN Put(w, "ready") ELSE UNCHANGED doc
  /\ Release(w)
  /\ UNCHANGED <<applied, called>>

(* The worker's process dies.                                              *)
Crash(w) ==
  /\ pc[w] # "idle"
  /\ Release(w)
  /\ UNCHANGED <<doc, applied, called>>

(* Time passes: every lease runs down.                                     *)
Tick ==
  LET down(n) == IF n > 0 THEN n - 1 ELSE 0
      run(x)  == IF x = NoDelivery THEN NoDelivery ELSE [x EXCEPT !.lease = down(@)]
  IN /\ doc' = [m \in Messages |-> run(doc[m])]
     /\ claim' = [w \in Workers |-> run(claim[w])]
     /\ UNCHANGED <<pc, applied, called>>

DeliveryNext ==
  \/ \E w \in Workers :
       \/ \E m \in Messages, h \in Contents : ClaimRead(w, m, h)
       \/ ClaimWrite(w)
       \/ ExternalCheck(w)
       \/ ExternalIntent(w)
       \/ ExternalCall(w)
       \/ Complete(w)
       \/ HandlerFailed(w)
       \/ Failed(w)
       \/ Crash(w)
  \/ Tick

DeliverySpec == DeliveryInit /\ [][DeliveryNext]_deliveryVars

-----------------------------------------------------------------------------
(* Properties                                                              *)

(* Every variable holds a value of its kind, and exactly the workers that  *)
(* are busy hold a delivery.                                               *)
DeliveryTypeOK ==
  /\ doc \in [Messages -> Document \cup {NoDelivery}]
  /\ pc \in [Workers -> {"idle", "claiming"} \cup Holding]
  /\ claim \in [Workers -> Claim \cup {NoDelivery}]
  /\ applied \in [Messages -> Nat]
  /\ called \in [Messages -> Nat]
  /\ \A w \in Workers : pc[w] = "idle" <=> claim[w] = NoDelivery

IsStatus(m, statuses) == doc[m] # NoDelivery /\ doc[m].status \in statuses

(* The handler's writes take effect at most once per message, and exactly  *)
(* when its delivery is complete, however often the message is delivered   *)
(* and whatever workers stop, time out or lose a reply.                    *)
AppliedOnce ==
  \A m \in Messages :
    applied[m] = IF IsStatus(m, {"complete"}) THEN 1 ELSE 0

(* An external effect is never repeated by redelivery: at most one         *)
(* delivery of a message reaches it, and the delivery remembers it.        *)
CalledOnce ==
  \A m \in Messages :
    /\ called[m] <= 1
    /\ called[m] = 1 => IsStatus(m, {"external", "complete"})

(* Two workers on one message never both hold the current token: after a   *)
(* lease expires and another worker claims, the slow one can write         *)
(* nothing.                                                                *)
OneTokenHolder ==
  \A v, w \in Workers :
    /\ v # w
    /\ pc[v] \in Holding
    /\ pc[w] \in Holding
    /\ claim[v].message = claim[w].message
    => ~(Current(v) /\ Current(w))

(* A settled delivery stays settled: complete is final, and an unknown     *)
(* outcome is only ever resolved by completion.  The content a message     *)
(* identity was first claimed with is the content it keeps.                *)
OutcomeSettled ==
  [][\A m \in Messages : doc[m] # NoDelivery =>
       /\ doc'[m] # NoDelivery
       /\ doc'[m].hash = doc[m].hash
       /\ doc[m].status = "complete" => doc'[m].status = "complete"
       /\ doc[m].status = "external" => doc'[m].status \in {"external", "complete"}]_deliveryVars

-----------------------------------------------------------------------------
(* The inductive invariant                                                 *)

(* A token never runs ahead of the document, and no two of them are        *)
(* current.                                                                *)
TokensFenced ==
  /\ \A w \in Workers : pc[w] # "idle" =>
       claim[w].version <= Version(claim[w].message)
  /\ OneTokenHolder

(* The document a current token was read or written at.                    *)
TokenDescribes(w) ==
  LET m == claim[w].message
  IN /\ pc[w] = "claiming" =>
          /\ ~claim[w].started
          /\ Current(w) => ~IsStatus(m, {"external", "complete"})
     /\ pc[w] = "intent" => ~claim[w].started
     /\ pc[w] \in Holding => doc[m] # NoDelivery
     /\ pc[w] \in Holding /\ Current(w) =>
          IsStatus(m, IF claim[w].started THEN {"external"} ELSE {"running"})
     /\ pc[w] \in {"handling", "external"} /\ claim[w].started => Current(w)
     /\ pc[w] = "external" => claim[w].started /\ called[m] = 0
     /\ doc[m] # NoDelivery /\ Current(w) => doc[m].hash = claim[w].hash

TokenStatus == \A w \in Workers : pc[w] # "idle" => TokenDescribes(w)

DeliveryInv ==
  /\ DeliveryTypeOK
  /\ AppliedOnce
  /\ CalledOnce
  /\ TokensFenced
  /\ TokenStatus
=============================================================================
