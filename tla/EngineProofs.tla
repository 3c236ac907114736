---------------------------- MODULE EngineProofs ----------------------------
(***************************************************************************)
(* Proofs about Engine, for every set of callers, ids, keys, statuses and  *)
(* operations.                                                             *)
(***************************************************************************)
EXTENDS Engine, TLAPS

(* A request callers send is well formed, and names a record unless it     *)
(* creates one.                                                            *)
LEMMA RequestsTyped ==
  \A req \in Requests :
    /\ req \in Request
    /\ req.op # "create" => req.id \in Ids
  <1> SUFFICES ASSUME NEW req \in Requests
               PROVE  req \in Request /\ (req.op # "create" => req.id \in Ids)
    OBVIOUS
  <1> USE LifecycleAssumption
      DEF Request, OptionalId, OptionalKey, MutationOps, WriteRequests
  <1>1. CASE req \in CreateRequests
    BY <1>1 DEF CreateRequests
  <1>2. CASE req \in WriteRequests({"update"}, {"key"}, OptionalKey, {None}, {Initial})
    BY <1>2
  <1>3. CASE req \in WriteRequests({"update"}, {"ref"}, {None}, OptionalId, {Initial})
    BY <1>3
  <1>4. CASE req \in WriteRequests({"delete", "restore"}, {}, {None}, {None}, {Initial})
    BY <1>4
  <1>5. CASE req \in WriteRequests({"transition"}, {}, {None}, {None},
                                   {t.to : t \in Transitions})
    BY <1>5
  <1> HIDE DEF WriteRequests
  <1> QED
    BY <1>1, <1>2, <1>3, <1>4, <1>5 DEF Requests

(* The claim of a record is a key of the unique field or null.             *)
LEMMA ClaimKeyTyped == \A rec \in Record : ClaimKey(rec) \in OptionalKey
  BY DEF Record, ClaimKey, OptionalKey

(* Every plan an operation builds is a well-formed CommitPlan for a record *)
(* that IdGen has just named or that the request names.                    *)
LEMMA PlansTyped ==
  ASSUME TypeOK, NEW req \in Requests, NEW p \in PlansFor(req)
  PROVE  /\ p \in CommitPlan
         /\ p.kind = req.op
         /\ p.hardDelete => p.before # None
  <1> USE DEF OptionalId, OptionalKey
  <1>1. /\ req \in Request
        /\ req.op # "create" => req.id \in Ids
    BY RequestsTyped
  <1>2. decorators.versioned \in BOOLEAN /\ decorators.softDelete \in BOOLEAN
    BY LifecycleAssumption DEF TypeOK
  <1>3. ASSUME req.op # "create", CurrentFor(req)
        PROVE  records[req.id] \in Record
    BY <1>1, <1>3 DEF TypeOK, CurrentFor, Exists
  <1>0. \A rec \in Record : NextVersion(rec) \in Nat
    BY DEF Record, NextVersion
  <1>4. CASE req.op = "create"
    <2>1. PICK id \in Ids \ issued : p = CreatePlan(req, id)
      BY <1>4 DEF PlansFor
    <2> DEFINE ref == ResolveSelf(req.ref, id)
               rec == [key |-> req.key, ref |-> ref, status |-> Initial,
                       deleted |-> FALSE,
                       version |-> IF decorators.versioned THEN 1 ELSE 0]
    <2>2. ref \in OptionalId
      BY <1>1 DEF Request, ResolveSelf
    <2>3. rec \in Record
      BY <1>1, <2>2, LifecycleAssumption DEF Request, Record
    <2>4. ClaimKey(rec) \in OptionalKey
      BY <2>3, ClaimKeyTyped
    <2>5. ReferenceGuards(req, id, ref) \in SUBSET Ids
      BY DEF ReferenceGuards
    <2> QED
      BY <1>4, <2>1, <2>3, <2>4, <2>5 DEF CreatePlan, CommitPlan, MutationOps
  <1>5. CASE req.op = "update"
    <2>1. p = UpdatePlan(req) /\ records[req.id] \in Record
      BY <1>3, <1>5 DEF PlansFor
    <2> DEFINE before == records[req.id]
               ref == IF "ref" \in req.changed
                      THEN ResolveSelf(req.ref, req.id) ELSE before.ref
               rec == [before EXCEPT
                         !.key = IF "key" \in req.changed THEN req.key ELSE @,
                         !.ref = ref,
                         !.version = NextVersion(before)]
    <2>2. ref \in OptionalId
      BY <1>1, <1>5, <2>1 DEF Request, ResolveSelf, Record
    <2>3. rec \in Record
      BY <1>0, <1>1, <2>1, <2>2 DEF Request, Record
    <2>4. ClaimKey(rec) \in OptionalKey /\ ClaimKey(before) \in OptionalKey
      BY <2>1, <2>3, ClaimKeyTyped
    <2>5. ReferenceGuards(req, req.id, ref) \in SUBSET Ids
      BY DEF ReferenceGuards
    <2> QED
      BY <1>1, <1>2, <1>5, <2>1, <2>3, <2>4, <2>5
      DEF UpdatePlan, CommitPlan, Request, MutationOps
  <1>6. CASE req.op = "delete"
    <2>1. p = DeletePlan(req) /\ records[req.id] \in Record
      BY <1>3, <1>6 DEF PlansFor
    <2> DEFINE before == records[req.id]
               rec == [before EXCEPT !.deleted = decorators.softDelete,
                                     !.version = NextVersion(before)]
    <2>2. rec \in Record
      BY <1>0, <1>2, <2>1 DEF Record
    <2>3. ClaimKey(before) \in OptionalKey /\ before # None
      BY <2>1, ClaimKeyTyped, NullAssumption
    <2> QED
      BY <1>1, <1>2, <1>6, <2>1, <2>2, <2>3
      DEF DeletePlan, CommitPlan, Request, MutationOps
  <1>7. CASE req.op = "restore"
    <2>1. p = RestorePlan(req) /\ records[req.id] \in Record
      BY <1>3, <1>7 DEF PlansFor
    <2> DEFINE before == records[req.id]
               rec == [before EXCEPT !.deleted = FALSE,
                                     !.version = NextVersion(before)]
    <2>2. rec \in Record
      BY <1>0, <1>2, <2>1 DEF Record
    <2> QED
      BY <1>1, <1>2, <1>7, <2>1, <2>2
      DEF RestorePlan, CommitPlan, Request, MutationOps
  <1>8. CASE req.op = "transition"
    <2>1. p = TransitionPlan(req) /\ records[req.id] \in Record
      BY <1>3, <1>8 DEF PlansFor
    <2> DEFINE before == records[req.id]
               rec == [before EXCEPT !.status = req.to,
                                     !.version = NextVersion(before)]
    <2>2. rec \in Record
      BY <1>0, <1>1, <2>1 DEF Record, Request
    <2>3. ClaimKey(rec) \in OptionalKey /\ ClaimKey(before) \in OptionalKey
      BY <2>1, <2>2, ClaimKeyTyped
    <2> QED
      BY <1>1, <1>2, <1>8, <2>1, <2>2, <2>3
      DEF TransitionPlan, CommitPlan, Request, MutationOps
  <1> QED
    BY <1>1, <1>4, <1>5, <1>6, <1>7, <1>8 DEF Request, MutationOps

(* A keyed request has a receipt key.                                      *)
LEMMA ReceiptKeyTyped ==
  \A req \in Requests : req.idem # None => ReceiptOf(req) \in ReceiptKey
  BY RequestsTyped DEF Request, ReceiptOf, ReceiptKey

(* The answer a plan gives is a response.                                  *)
LEMMA ResultTyped ==
  \A p \in CommitPlan :
    (p.hardDelete => p.before # None) => ResultOf(p) \in Response
  BY DEF CommitPlan, ResultOf, Response

(* Answering or rejecting a caller keeps the callers' state well typed.    *)
LEMMA CallerTyped ==
  ASSUME TypeOK, NEW c \in Clients,
         \/ Reject(c)
         \/ \E req \in Requests, response \in Response : Answer(c, req, response)
  PROVE  /\ pc' \in [Clients -> {"idle", "missed", "planned", "recheck"}]
         /\ request' \in [Clients -> Requests \cup {None}]
         /\ plan' \in [Clients -> CommitPlan \cup {None}]
         /\ reply' \in [Clients -> Response \cup {None}]
         /\ \A d \in Clients :
              /\ pc'[d] # "idle" => request'[d] # None
              /\ pc'[d] = "planned" <=> plan'[d] # None
              /\ pc'[d] = "planned" /\ plan'[d].hardDelete => plan'[d].before # None
              /\ pc'[d] = "recheck" => request'[d].idem # None
  BY DEF TypeOK, Reject, Answer

(* Replaying a stored receipt answers or rejects the caller.               *)
LEMMA ReplayAnswers ==
  ASSUME TypeOK, NEW c \in Clients, NEW req \in Requests, req.idem # None,
         receipts[ReceiptOf(req)] # None, Replay(c, req)
  PROVE  \/ Reject(c)
         \/ \E r \in Requests, response \in Response : Answer(c, r, response)
  <1>1. receipts[ReceiptOf(req)].response \in Response
    BY ReceiptKeyTyped DEF TypeOK, Receipt
  <1> QED
    BY <1>1 DEF Replay

(* Every step of the write path keeps the state well typed.                *)
LEMMA TypeStep ==
  ASSUME TypeOK, [Next]_vars
  PROVE  TypeOK'
  <1> USE DEF storage, callers, history
  <1>1. ASSUME NEW c \in Clients, NEW req \in Requests, Submit(c, req)
        PROVE  TypeOK'
    <2>1. CASE req.idem # None /\ receipts[ReceiptOf(req)] # None
      BY <1>1, <2>1, ReplayAnswers, CallerTyped DEF Submit, TypeOK
    <2>2. CASE ~(req.idem # None /\ receipts[ReceiptOf(req)] # None)
      <3>1. req # None
        BY RequestsTyped, NullAssumption
      <3> QED
        BY <1>1, <2>2, <3>1 DEF Submit, TypeOK
    <2> QED
      BY <2>1, <2>2
  <1>2. ASSUME NEW c \in Clients, AuthorizedPlan(c)
        PROVE  TypeOK'
    <2>1. request[c] \in Requests
      BY <1>2 DEF AuthorizedPlan, TypeOK
    <2>2. PICK p \in PlansFor(request[c]) :
            plan' = [plan EXCEPT ![c] = p] /\ issued' = issued \cup {p.id}
      BY <1>2 DEF AuthorizedPlan
    <2>3. p \in CommitPlan /\ (p.hardDelete => p.before # None) /\ p.id \in Ids
      BY <2>1, <2>2, PlansTyped DEF CommitPlan
    <2>4. p # None
      BY <2>3, NullAssumption
    <2> QED
      BY <1>2, <2>2, <2>3, <2>4 DEF AuthorizedPlan, TypeOK
  <1>3. ASSUME NEW c \in Clients, NEW conflict \in BOOLEAN, Fail(c, conflict),
               pc[c] \in {"missed", "planned"},
               UNCHANGED <<decorators, storage, issued, fenced, history>>
        PROVE  TypeOK'
    <2>1. CASE Reject(c)
      BY <1>3, <2>1, CallerTyped DEF TypeOK
    <2>2. CASE ~Reject(c)
      BY <1>3, <2>2 DEF Fail, TypeOK
    <2> QED
      BY <2>1, <2>2
  <1>4. ASSUME NEW c \in Clients, PlanRejected(c)
        PROVE  TypeOK'
    <2>1. CASE Reject(c)
      BY <1>4, <2>1, CallerTyped DEF PlanRejected, TypeOK
    <2>2. CASE ~Reject(c)
      BY <1>3, <1>4, <2>2 DEF PlanRejected, PlanVersionConflict
    <2> QED
      BY <2>1, <2>2
  <1>5. ASSUME NEW c \in Clients, Commit(c)
        PROVE  TypeOK'
    <2> DEFINE p == plan[c]
               req == request[c]
    <2>1. /\ p \in CommitPlan
          /\ p.hardDelete => p.before # None
          /\ req \in Requests
      BY <1>5 DEF Commit, TypeOK
    <2>2. ResultOf(p) \in Response
      BY <2>1, ResultTyped
    <2>3. \E r \in Requests, response \in Response : Answer(c, r, response)
      BY <1>5, <2>1, <2>2 DEF Commit
    <2>4. claims' \in [Keys -> OptionalId]
      BY <1>5, <2>1 DEF Commit, ClaimsAfter, TypeOK, CommitPlan, OptionalId
    <2>5. /\ records' \in [Ids -> Record \cup {None}]
          /\ events' \in [Ids -> Nat]
          /\ restored' \subseteq Ids
      BY <1>5, <2>1 DEF Commit, TypeOK, CommitPlan
    <2>6. /\ receipts' \in [ReceiptKey -> Receipt \cup {None}]
          /\ committed' \in [ReceiptKey -> Nat]
      BY <1>5, <2>1, <2>2, ReceiptKeyTyped, RequestsTyped
      DEF Commit, TypeOK, Receipt
    <2>7. UNCHANGED <<decorators, issued, fenced>>
      BY <1>5 DEF Commit
    <2> QED
      BY <2>3, <2>4, <2>5, <2>6, <2>7, CallerTyped DEF TypeOK
  <1>6. ASSUME NEW c \in Clients, CommitRejected(c)
        PROVE  TypeOK'
    BY <1>3, <1>6 DEF CommitRejected
  <1>7. ASSUME NEW c \in Clients, RecheckReceipt(c)
        PROVE  TypeOK'
    <2>1. request[c] \in Requests /\ request[c].idem # None
      BY <1>7 DEF RecheckReceipt, TypeOK
    <2>2. \/ Reject(c)
          \/ \E r \in Requests, response \in Response : Answer(c, r, response)
      BY <1>7, <2>1, ReplayAnswers DEF RecheckReceipt
    <2> QED
      BY <1>7, <2>2, CallerTyped DEF RecheckReceipt, TypeOK
  <1>8. ASSUME NEW c \in Clients, Crash(c)
        PROVE  TypeOK'
    BY <1>8, CallerTyped DEF Crash, TypeOK
  <1>9. ASSUME SetFence
        PROVE  TypeOK'
    BY <1>9 DEF SetFence, TypeOK
  <1>10. ASSUME UNCHANGED vars
         PROVE  TypeOK'
    BY <1>10 DEF vars, TypeOK
  <1> QED
    BY <1>1, <1>2, <1>4, <1>5, <1>6, <1>7, <1>8, <1>9, <1>10 DEF Next

(* Type correctness of the write path: at all times records, claims,       *)
(* receipts and the callers' plans are well formed.                        *)
THEOREM TypeCorrect == Spec => []TypeOK
  <1>1. ASSUME Init PROVE TypeOK
    <2>1. \A c \in Clients : pc[c] = "idle" /\ plan[c] = None
      BY <1>1 DEF Init
    <2>2. /\ receipts \in [ReceiptKey -> Receipt \cup {None}]
          /\ committed \in [ReceiptKey -> Nat]
      BY <1>1 DEF Init
    <2> QED
      BY <1>1, <2>1, <2>2 DEF Init, TypeOK, OptionalId
  <1> QED
    BY <1>1, TypeStep, PTL DEF Spec

-----------------------------------------------------------------------------
(* What every operation's plan says about the record it was built from.    *)
LEMMA PlansShaped ==
  ASSUME VersionedResource, TypeOK, NEW req \in Requests, NEW p \in PlansFor(req)
  PROVE  /\ WellShaped(p)
         /\ p.kind = "create" => p.id \in Ids \ issued
         /\ p.kind # "create" =>
              /\ Exists(p.id)
              /\ p.before = records[p.id]
              /\ p.expected = records[p.id].version
  <1>1. req \in Request /\ (req.op # "create" => req.id \in Ids)
    BY RequestsTyped
  <1>2. decorators.versioned
    BY DEF TypeOK, VersionedResource
  <1>3. ASSUME req.op # "create", CurrentFor(req)
        PROVE  /\ records[req.id] \in Record
               /\ Exists(req.id)
               /\ records[req.id].version = req.expected
               /\ records[req.id] # None
    BY <1>1, <1>2, <1>3, NullAssumption DEF TypeOK, CurrentFor, Exists
  <1>4. CASE req.op = "create"
    <2>1. PICK id \in Ids \ issued : p = CreatePlan(req, id)
      BY <1>4 DEF PlansFor
    <2> QED
      BY <1>2, <2>1 DEF CreatePlan, WellShaped
  <1>5. CASE req.op = "update"
    <2>1. p = UpdatePlan(req) /\ CurrentFor(req)
      BY <1>5 DEF PlansFor
    <2> QED
      BY <1>2, <1>3, <1>5, <2>1 DEF UpdatePlan, WellShaped, NextVersion, Record
  <1>6. CASE req.op = "delete"
    <2>1. p = DeletePlan(req) /\ CurrentFor(req)
      BY <1>6 DEF PlansFor
    <2> QED
      BY <1>2, <1>3, <1>6, <2>1
      DEF DeletePlan, WellShaped, NextVersion, Record, ClaimKey
  <1>7. CASE req.op = "restore"
    <2>1. p = RestorePlan(req) /\ CurrentFor(req)
      BY <1>7 DEF PlansFor
    <2> QED
      BY <1>2, <1>3, <1>7, <2>1
      DEF RestorePlan, WellShaped, NextVersion, Record, ClaimKey
  <1>8. CASE req.op = "transition"
    <2>1. p = TransitionPlan(req) /\ CurrentFor(req)
      BY <1>8 DEF PlansFor
    <2> QED
      BY <1>2, <1>3, <1>8, <2>1 DEF TransitionPlan, WellShaped, NextVersion, Record
  <1> QED
    BY <1>1, <1>4, <1>5, <1>6, <1>7, <1>8 DEF Request, MutationOps

(* A step that stores nothing and builds no plan keeps the invariant.      *)
LEMMA QuietStep ==
  ASSUME IInv, TypeOK',
         UNCHANGED <<decorators, records, claims, events, issued>>,
         \A c \in Clients : Planned(c)' => Planned(c) /\ plan'[c] = plan[c]
  PROVE  IInv'
  <1> USE DEF IInv, Exists, ClaimKey
  <1>1. ClaimsExact' /\ VersionCountsEvents'
    BY DEF ClaimsExact, VersionCountsEvents
  <1>2. IdsFresh'
    BY DEF IdsFresh
  <1>3. PlanShape'
    BY DEF PlanShape, WellShaped
  <1>4. PlanFresh'
    BY DEF PlanFresh
  <1> QED
    BY <1>1, <1>2, <1>3, <1>4

(* Building a plan from the records read now keeps the invariant.          *)
LEMMA PlanStep ==
  ASSUME VersionedResource, IInv, TypeOK', NEW c \in Clients, AuthorizedPlan(c)
  PROVE  IInv'
  <1> USE DEF Exists
  <1>1. request[c] \in Requests
    BY DEF AuthorizedPlan, IInv, TypeOK
  <1>2. PICK p \in PlansFor(request[c]) :
          plan' = [plan EXCEPT ![c] = p] /\ issued' = issued \cup {p.id}
    BY DEF AuthorizedPlan
  <1>3. /\ WellShaped(p)
        /\ p.kind = "create" => p.id \in Ids \ issued
        /\ p.kind # "create" =>
             /\ Exists(p.id)
             /\ p.before = records[p.id]
             /\ p.expected = records[p.id].version
    BY <1>1, PlansShaped DEF IInv
  <1>4. /\ p.id \in Ids
        /\ p.kind # "create" => records[p.id].version \in Nat
    BY <1>1, <1>3, PlansTyped DEF CommitPlan, IInv, TypeOK, Record
  <1>5. /\ UNCHANGED <<decorators, records, claims, events>>
        /\ pc' = [pc EXCEPT ![c] = "planned"]
        /\ pc[c] = "missed"
    BY DEF AuthorizedPlan, storage
  <1>6. /\ Planned(c)' /\ plan'[c] = p
        /\ \A d \in Clients \ {c} :
             /\ Planned(d)' <=> Planned(d)
             /\ plan'[d] = plan[d]
    BY <1>2, <1>5 DEF IInv, TypeOK, Planned
  <1> HIDE DEF Planned
  <1>7. ClaimsExact' /\ VersionCountsEvents'
    BY <1>5 DEF IInv, ClaimsExact, VersionCountsEvents, ClaimKey
  <1>8. IdsFresh'
    <2>1. /\ \A id \in Ids \ issued' : ~Exists(id)' /\ events'[id] = 0
          /\ \A id \in Ids : Exists(id)' => events'[id] > 0
          /\ \A d \in Clients : Planned(d)' => plan'[d].id \in issued'
      BY <1>2, <1>5, <1>6 DEF IInv, IdsFresh
    <2>2. ASSUME NEW d \in Clients, Planned(d)', plan'[d].kind = "create"
          PROVE  /\ records'[plan'[d].id] = None
                 /\ events'[plan'[d].id] = 0
                 /\ \A e \in Clients \ {d} : Planned(e)' => plan'[e].id # plan'[d].id
      <3>1. CASE d = c
        BY <1>3, <1>5, <1>6, <2>2, <3>1 DEF IInv, IdsFresh
      <3>2. CASE d # c
        <4>1. /\ Planned(d) /\ plan'[d] = plan[d] /\ plan[d].id \in issued
              /\ ~Exists(plan[d].id) /\ events[plan[d].id] = 0
          BY <1>6, <2>2, <3>2 DEF IInv, IdsFresh
        <4>2. p.id # plan[d].id
          BY <1>3, <4>1
        <4> QED
          BY <1>5, <1>6, <2>2, <3>2, <4>1, <4>2 DEF IInv, IdsFresh
      <3> QED
        BY <3>1, <3>2
    <2> QED
      BY <2>1, <2>2 DEF IdsFresh, Exists
  <1>9. PlanShape'
    BY <1>3, <1>6 DEF IInv, PlanShape, WellShaped, ClaimKey
  <1>10. PlanFresh'
    BY <1>3, <1>4, <1>5, <1>6 DEF IInv, PlanFresh, IdsFresh
  <1> QED
    BY <1>7, <1>8, <1>9, <1>10 DEF IInv

(* A plan the commit guards admit describes the stored record, so the      *)
(* claims it releases and takes are those of the record it replaces and    *)
(* of the record it stores.                                                *)
LEMMA CommitSeesCurrent ==
  ASSUME VersionedResource, IInv, NEW c \in Clients, Commit(c)
  PROVE  /\ plan[c] \in CommitPlan
         /\ WellShaped(plan[c])
         /\ plan[c].kind = "create" =>
              ~Exists(plan[c].id) /\ events[plan[c].id] = 0
         /\ plan[c].kind # "create" =>
              /\ Exists(plan[c].id)
              /\ plan[c].before = records[plan[c].id]
              /\ plan[c].expected = records[plan[c].id].version
         /\ ClaimFree(plan[c])
  <1>1. Planned(c) /\ plan[c] \in CommitPlan
    BY DEF Commit, Planned, IInv, TypeOK
  <1>2. WellShaped(plan[c])
    BY <1>1 DEF IInv, PlanShape
  <1>3. TargetHolds(plan[c]) /\ VersionHolds(plan[c]) /\ ClaimFree(plan[c])
    BY DEF Commit, CommitError
  <1>4. plan[c].kind = "create" => ~Exists(plan[c].id) /\ events[plan[c].id] = 0
    BY <1>1 DEF IInv, IdsFresh
  <1>5. plan[c].kind # "create" =>
          /\ Exists(plan[c].id)
          /\ plan[c].expected = records[plan[c].id].version
    BY <1>2, <1>3 DEF TargetHolds, VersionHolds, WellShaped
  <1> QED
    BY <1>1, <1>2, <1>3, <1>4, <1>5 DEF IInv, PlanFresh

(* A commit keeps the invariant.                                           *)
LEMMA CommitStep ==
  ASSUME VersionedResource, IInv, TypeOK', NEW c \in Clients, Commit(c)
  PROVE  IInv'
  <1> DEFINE p == plan[c]
             new == IF p.hardDelete THEN None ELSE p.after
  <1>1. /\ p \in CommitPlan
        /\ WellShaped(p)
        /\ p.kind = "create" => ~Exists(p.id) /\ events[p.id] = 0
        /\ p.kind # "create" =>
             /\ Exists(p.id)
             /\ p.before = records[p.id]
             /\ p.expected = records[p.id].version
        /\ ClaimFree(p)
    BY CommitSeesCurrent
  <1>2. /\ p.id \in Ids
        /\ p.after \in Record
        /\ p.after # None
        /\ p.kind # "create" => records[p.id] \in Record
    BY <1>1, NullAssumption DEF CommitPlan, Exists, IInv, TypeOK
  <1>3. /\ records' = [records EXCEPT ![p.id] = new]
        /\ claims' = ClaimsAfter(p)
        /\ events' = [events EXCEPT ![p.id] = @ + 1]
        /\ issued' = issued
        /\ decorators' = decorators
    BY DEF Commit
  <1>4. \A d \in Clients :
          Planned(d)' => d # c /\ Planned(d) /\ plan'[d] = plan[d]
    BY DEF Commit, Answer, Planned, IInv, TypeOK
  <1>5. /\ records'[p.id] = new
        /\ events'[p.id] = events[p.id] + 1
        /\ \A id \in Ids \ {p.id} :
             records'[id] = records[id] /\ events'[id] = events[id]
    BY <1>2, <1>3 DEF IInv, TypeOK
  <1>6. VersionCountsEvents'
    <2>1. decorators.versioned /\ events[p.id] \in Nat
      BY <1>2 DEF IInv, TypeOK, VersionedResource
    <2>2. new # None => new.version = events[p.id] + 1
      BY <1>1, <1>2, <2>1 DEF WellShaped, IInv, VersionCountsEvents
    <2> QED
      BY <1>2, <1>3, <1>5, <2>1, <2>2 DEF IInv, VersionCountsEvents, Exists
  <1>7. IdsFresh'
    <2>1. p.id \in issued
      BY DEF IInv, IdsFresh, Commit, Planned
    <2>2. /\ \A id \in Ids \ issued' : ~Exists(id)' /\ events'[id] = 0
          /\ \A id \in Ids : Exists(id)' => events'[id] > 0
          /\ \A d \in Clients : Planned(d)' => plan'[d].id \in issued'
      BY <1>2, <1>3, <1>4, <1>5, <2>1 DEF IInv, IdsFresh, Exists, TypeOK
    <2>3. ASSUME NEW d \in Clients, Planned(d)', plan'[d].kind = "create"
          PROVE  /\ records'[plan'[d].id] = None
                 /\ events'[plan'[d].id] = 0
                 /\ \A e \in Clients \ {d} : Planned(e)' => plan'[e].id # plan'[d].id
      <3>1. /\ d # c /\ Planned(d) /\ plan'[d] = plan[d]
            /\ Planned(c)
            /\ plan[d].id \in Ids
        BY <1>4, <2>3 DEF Commit, Planned, IInv, TypeOK, CommitPlan
      <3>2. /\ ~Exists(plan[d].id)
            /\ events[plan[d].id] = 0
            /\ \A e \in Clients \ {d} : Planned(e) => plan[e].id # plan[d].id
        BY <2>3, <3>1 DEF IInv, IdsFresh
      <3>3. plan[d].id # p.id
        BY <3>1, <3>2
      <3>4. records'[plan[d].id] = records[plan[d].id] /\ events'[plan[d].id] = 0
        BY <1>5, <3>1, <3>2, <3>3
      <3>5. \A e \in Clients \ {d} : Planned(e)' => plan'[e].id # plan'[d].id
        BY <1>4, <3>1, <3>2
      <3> QED
        BY <3>1, <3>2, <3>4, <3>5 DEF Exists
    <2> QED
      BY <2>2, <2>3 DEF IdsFresh, Exists
  <1>8. PlanShape'
    BY <1>4 DEF IInv, PlanShape, WellShaped, ClaimKey
  <1>9. PlanFresh'
    <2> SUFFICES ASSUME NEW d \in Clients, Planned(d)', plan'[d].kind # "create"
                 PROVE  /\ events'[plan'[d].id] > 0
                        /\ records'[plan'[d].id] # None =>
                             /\ plan'[d].expected <= records'[plan'[d].id].version
                             /\ plan'[d].expected = records'[plan'[d].id].version =>
                                  plan'[d].before = records'[plan'[d].id]
      BY DEF PlanFresh, Exists
    <2> DEFINE q == plan[d]
    <2>1. Planned(d) /\ plan'[d] = q /\ q \in CommitPlan
      BY <1>4 DEF Planned, IInv, TypeOK
    <2>2. /\ events[q.id] > 0
          /\ Exists(q.id) =>
               /\ q.expected <= records[q.id].version
               /\ q.expected = records[q.id].version => q.before = records[q.id]
      BY <2>1 DEF IInv, PlanFresh
    <2>3. CASE q.id # p.id
      BY <1>5, <2>1, <2>2, <2>3 DEF Exists, CommitPlan
    <2>4. CASE q.id = p.id
      <3>1. p.kind # "create"
        BY <1>1, <2>2, <2>4 DEF IInv, TypeOK
      <3>2. /\ Exists(q.id)
            /\ records[q.id].version \in Nat
            /\ p.after.version = records[q.id].version + 1
            /\ events[q.id] \in Nat
            /\ q.expected \in Nat
        BY <1>1, <1>2, <2>1, <2>4, <3>1 DEF WellShaped, Record, CommitPlan, IInv, TypeOK
      <3> QED
        BY <1>2, <1>5, <2>1, <2>2, <2>4, <3>2 DEF Exists
    <2> QED
      BY <2>3, <2>4
  <1>10. ClaimsExact'
    <2> DEFINE oldKey == IF p.kind = "create" THEN None ELSE ClaimKey(records[p.id])
               newKey == IF p.hardDelete THEN None ELSE ClaimKey(p.after)
    <2>1. /\ oldKey \in OptionalKey
          /\ newKey \in OptionalKey
      BY <1>2, ClaimKeyTyped DEF OptionalKey
    <2>2. \/ p.claimBefore = oldKey /\ p.claimAfter = newKey
          \/ p.claimBefore = None /\ p.claimAfter = None /\ oldKey = newKey
      BY <1>1 DEF WellShaped, CommitPlan, MutationOps
    <2>3. \A k \in Keys : claims[k] = p.id <=> oldKey = k
      <3>1. \A k \in Keys : k # None
        BY NullAssumption
      <3> QED
        BY <1>1, <1>2, <3>1, NullAssumption DEF IInv, ClaimsExact, Exists
    <2>4. newKey # None => claims[newKey] \in {None, p.id}
      <3>1. CASE newKey = oldKey
        BY <2>1, <2>3, <3>1 DEF OptionalKey
      <3>2. CASE newKey # oldKey
        BY <1>1, <2>2, <3>2 DEF ClaimFree
      <3> QED
        BY <3>1, <3>2
    <2>5. \A k \in Keys :
            claims'[k] = IF k = newKey THEN p.id
                         ELSE IF k = oldKey THEN None ELSE claims[k]
      BY <1>3, <2>1, <2>2, <2>3, NullAssumption DEF ClaimsAfter
    <2>6. ASSUME NEW k \in Keys, claims'[k] # None
          PROVE  records'[claims'[k]] # None /\ ClaimKey(records'[claims'[k]]) = k
      <3>1. CASE k = newKey
        <4>1. k # None
          BY NullAssumption
        <4> QED
          BY <1>2, <1>5, <2>5, <3>1, <4>1 DEF Exists
      <3>2. CASE k # newKey
        <4>1. claims'[k] = claims[k] /\ k # oldKey
          BY <2>5, <2>6, <3>2
        <4>2. claims[k] \in Ids \ {p.id}
          BY <2>3, <2>6, <4>1 DEF IInv, TypeOK, OptionalId
        <4> QED
          BY <1>5, <2>6, <4>1, <4>2 DEF IInv, ClaimsExact, Exists
      <3> QED
        BY <3>1, <3>2
    <2>7. ASSUME NEW id \in Ids, Exists(id)', ClaimKey(records'[id]) # None
          PROVE  claims'[ClaimKey(records'[id])] = id
      <3>1. CASE id = p.id
        <4>1. ClaimKey(records'[id]) = newKey /\ newKey \in Keys
          BY <1>5, <2>1, <2>7, <3>1 DEF Exists, OptionalKey
        <4> QED
          BY <2>5, <3>1, <4>1
      <3>2. CASE id # p.id
        <4> DEFINE k == ClaimKey(records[id])
        <4>1. records'[id] = records[id] /\ Exists(id) /\ records[id] \in Record
          BY <1>5, <2>7, <3>2 DEF Exists, IInv, TypeOK
        <4>2. k \in Keys /\ claims[k] = id
          BY <2>7, <4>1, ClaimKeyTyped DEF IInv, ClaimsExact, OptionalKey
        <4>3. k # newKey
          BY <2>4, <3>2, <4>2, NullAssumption
        <4>4. k # oldKey
          BY <2>3, <3>2, <4>2
        <4> QED
          BY <2>5, <4>1, <4>2, <4>3, <4>4
      <3> QED
        BY <3>1, <3>2
    <2> QED
      BY <2>6, <2>7 DEF ClaimsExact, ClaimKey, Exists
  <1> QED
    BY <1>6, <1>7, <1>8, <1>9, <1>10 DEF IInv

(* Every step of the write path keeps the invariant.                       *)
LEMMA InvariantStep ==
  ASSUME VersionedResource, IInv, [Next]_vars
  PROVE  IInv'
  <1> USE DEF storage, callers, history
  <1>0. TypeOK'
    BY TypeStep DEF IInv
  <1>1. ASSUME NEW c \in Clients, NEW req \in Requests, Submit(c, req)
        PROVE  IInv'
    <2>1. UNCHANGED <<decorators, records, claims, events, issued>>
      BY <1>1 DEF Submit
    <2>2. \A d \in Clients : Planned(d)' => Planned(d) /\ plan'[d] = plan[d]
      BY <1>1 DEF Submit, Replay, Answer, Reject, Planned, IInv, TypeOK
    <2> QED
      BY <1>0, <2>1, <2>2, QuietStep
  <1>2. ASSUME NEW c \in Clients, AuthorizedPlan(c)
        PROVE  IInv'
    BY <1>0, <1>2, PlanStep
  <1>3. ASSUME NEW c \in Clients, Commit(c)
        PROVE  IInv'
    BY <1>0, <1>3, CommitStep
  <1>4. ASSUME NEW c \in Clients,
               PlanRejected(c) \/ CommitRejected(c) \/ RecheckReceipt(c) \/ Crash(c)
        PROVE  IInv'
    <2>1. UNCHANGED <<decorators, records, claims, events, issued>>
      BY <1>4 DEF PlanRejected, CommitRejected, RecheckReceipt, Crash
    <2>2. \A d \in Clients : Planned(d)' => Planned(d) /\ plan'[d] = plan[d]
      BY <1>4 DEF PlanRejected, CommitRejected, RecheckReceipt, Crash, Fail,
                  Replay, Answer, Reject, Planned, IInv, TypeOK
    <2> QED
      BY <1>0, <2>1, <2>2, QuietStep
  <1>5. ASSUME SetFence \/ UNCHANGED vars
        PROVE  IInv'
    BY <1>0, <1>5, QuietStep DEF SetFence, vars, Planned
  <1> QED
    BY <1>1, <1>2, <1>3, <1>4, <1>5 DEF Next

(* The initial state satisfies the invariant.                              *)
LEMMA InvariantInit ==
  ASSUME Init, TypeOK
  PROVE  IInv
  BY DEF Init, IInv, ClaimsExact, VersionCountsEvents, IdsFresh, PlanShape,
         PlanFresh, Planned, Exists

(* The inductive invariant holds at all times on @versioned resources.     *)
LEMMA InvariantCorrect ==
  ASSUME VersionedResource
  PROVE  Spec => []IInv
  <1>1. Init /\ TypeOK => IInv
    BY InvariantInit
  <1>2. IInv /\ [Next]_vars => IInv'
    BY InvariantStep
  <1> QED
    BY <1>1, <1>2, TypeCorrect, PTL DEF Spec

(* On a @versioned resource the unique claims are exact, whatever updates, *)
(* transitions, deletes and restores race: none leaks and none is missing. *)
THEOREM ClaimsAreExact ==
  ASSUME VersionedResource
  PROVE  Spec => []ClaimsExact
  <1>1. IInv => ClaimsExact
    BY DEF IInv
  <1> QED
    BY <1>1, InvariantCorrect, PTL

(* On a @versioned resource no two stored records hold the same unique     *)
(* key: the promise ClaimsExact is there for.                              *)
THEOREM KeysAreUnique ==
  ASSUME VersionedResource
  PROVE  Spec => []UniqueKeys
  <1>1. IInv => UniqueKeys
    BY DEF IInv, ClaimsExact, UniqueKeys
  <1> QED
    BY <1>1, InvariantCorrect, PTL

(* On a @versioned resource no commit is lost: versions count commits.     *)
THEOREM NoLostCommit ==
  ASSUME VersionedResource
  PROVE  Spec => []VersionCountsEvents
  <1>1. IInv => VersionCountsEvents
    BY DEF IInv
  <1> QED
    BY <1>1, InvariantCorrect, PTL

(* On a @versioned resource a plan the version guard admits was built from *)
(* the record as it is stored now.                                         *)
THEOREM PlansSeeCurrent ==
  ASSUME VersionedResource
  PROVE  Spec => []PlanSeesCurrent
  <1>1. IInv => PlanSeesCurrent
    BY DEF IInv, PlanSeesCurrent, PlanFresh, PlanShape, WellShaped,
           TargetHolds, VersionHolds, Planned
  <1> QED
    BY <1>1, InvariantCorrect, PTL

-----------------------------------------------------------------------------
(* The plan of every operation changes the status legally.                 *)
LEMMA PlansAreLegal ==
  ASSUME TypeOK, NEW req \in Requests, NEW p \in PlansFor(req)
  PROVE  LegalChange(p)
  <1>1. req \in Request /\ (req.op # "create" => req.id \in Ids)
    BY RequestsTyped
  <1>2. ASSUME req.op # "create", CurrentFor(req)
        PROVE  records[req.id] \in Record
    BY <1>1, <1>2 DEF TypeOK, CurrentFor, Exists
  <1>3. CASE req.op = "create"
    <2>1. PICK id \in Ids \ issued : p = CreatePlan(req, id)
      BY <1>3 DEF PlansFor
    <2> QED
      BY <2>1 DEF CreatePlan, LegalChange
  <1>4. CASE req.op = "update"
    <2>1. p = UpdatePlan(req) /\ records[req.id] \in Record
      BY <1>2, <1>4 DEF PlansFor
    <2> QED
      BY <2>1 DEF UpdatePlan, LegalChange, Record
  <1>5. CASE req.op = "delete"
    <2>1. p = DeletePlan(req) /\ records[req.id] \in Record
      BY <1>2, <1>5 DEF PlansFor
    <2> QED
      BY <2>1 DEF DeletePlan, LegalChange, Record
  <1>6. CASE req.op = "restore"
    <2>1. p = RestorePlan(req) /\ records[req.id] \in Record
      BY <1>2, <1>6 DEF PlansFor
    <2> QED
      BY <2>1 DEF RestorePlan, LegalChange, Record
  <1>7. CASE req.op = "transition"
    <2>1. /\ p = TransitionPlan(req)
          /\ records[req.id] \in Record
          /\ ~records[req.id].deleted
          /\ \E t \in Transitions :
               t.to = req.to /\ records[req.id].status \in t.from
      BY <1>2, <1>7 DEF PlansFor
    <2> QED
      BY <2>1 DEF TransitionPlan, LegalChange, Record
  <1> QED
    BY <1>1, <1>3, <1>4, <1>5, <1>6, <1>7 DEF Request, MutationOps

(* Only authorizedPlan puts a plan in a caller's hands.                    *)
LEMMA PlansLegalStep ==
  ASSUME TypeOK, PlansLegal, [Next]_vars
  PROVE  PlansLegal'
  <1> USE DEF PlansLegal, LegalChange, Planned
  <1>1. ASSUME NEW c \in Clients, AuthorizedPlan(c)
        PROVE  PlansLegal'
    <2>1. request[c] \in Requests
      BY <1>1 DEF AuthorizedPlan, TypeOK
    <2>2. PICK p \in PlansFor(request[c]) : plan' = [plan EXCEPT ![c] = p]
      BY <1>1 DEF AuthorizedPlan
    <2>3. LegalChange(p)
      BY <2>1, PlansAreLegal
    <2> QED
      BY <1>1, <2>2, <2>3 DEF AuthorizedPlan, TypeOK
  <1>2. ASSUME \A d \in Clients : pc'[d] = "planned" =>
                 pc[d] = "planned" /\ plan'[d] = plan[d]
        PROVE  PlansLegal'
    BY <1>2
  <1>3. ASSUME NEW c \in Clients, NEW req \in Requests, Submit(c, req)
        PROVE  PlansLegal'
    BY <1>2, <1>3 DEF Submit, Replay, Answer, Reject, TypeOK
  <1>4. ASSUME NEW c \in Clients,
               \/ PlanRejected(c)
               \/ CommitRejected(c)
               \/ RecheckReceipt(c)
               \/ Crash(c)
               \/ Commit(c)
        PROVE  PlansLegal'
    BY <1>2, <1>4 DEF PlanRejected, CommitRejected, RecheckReceipt, Crash, Commit,
                      Fail, Replay, Answer, Reject, TypeOK
  <1>5. ASSUME SetFence \/ UNCHANGED vars
        PROVE  PlansLegal'
    BY <1>2, <1>5 DEF SetFence, vars, callers
  <1> QED
    BY <1>1, <1>3, <1>4, <1>5 DEF Next

(* On a @versioned resource a status only changes along a declared         *)
(* transition of a live record, although the engine checks the transition  *)
(* on a record it read before the commit.                                  *)
THEOREM LifecycleIsRespected ==
  ASSUME VersionedResource
  PROVE  Spec => LifecycleRespected
  <1> DEFINE Step ==
        \A id \in Ids :
          /\ Exists(id)
          /\ records'[id] # None
          /\ records'[id].status # records[id].status
          => /\ Live(id)
             /\ \E t \in Transitions :
                  /\ records[id].status \in t.from
                  /\ records'[id].status = t.to
  <1>1. ASSUME IInv, PlansLegal, [Next]_vars
        PROVE  [Step]_vars
    <2>1. ASSUME NEW c \in Clients, Commit(c)
          PROVE  Step
      <3> SUFFICES ASSUME NEW id \in Ids, Exists(id), records'[id] # None,
                          records'[id].status # records[id].status
                   PROVE  /\ Live(id)
                          /\ \E t \in Transitions :
                               /\ records[id].status \in t.from
                               /\ records'[id].status = t.to
        OBVIOUS
      <3>1. /\ plan[c] \in CommitPlan
            /\ plan[c].kind = "create" => ~Exists(plan[c].id)
            /\ plan[c].kind # "create" => plan[c].before = records[plan[c].id]
        BY <2>1, <1>1, CommitSeesCurrent
      <3>2. id = plan[c].id /\ records'[id] = plan[c].after
        BY <1>1, <2>1, <3>1 DEF Commit, IInv, TypeOK, CommitPlan
      <3>3. LegalChange(plan[c])
        BY <1>1, <2>1 DEF PlansLegal, Planned, Commit
      <3> QED
        BY <3>1, <3>2, <3>3 DEF LegalChange, Live
    <2>2. ASSUME ~(\E c \in Clients : Commit(c))
          PROVE  UNCHANGED records
      BY <1>1, <2>2 DEF Next, vars, storage, Submit, AuthorizedPlan, PlanRejected,
                        CommitRejected, RecheckReceipt, Crash, SetFence
    <2> QED
      BY <2>1, <2>2
  <1>2. Init => PlansLegal
    BY DEF Init, PlansLegal, Planned
  <1>3. TypeOK /\ PlansLegal /\ [Next]_vars => PlansLegal'
    BY PlansLegalStep
  <1>4. Spec => []PlansLegal
    BY <1>2, <1>3, TypeCorrect, PTL DEF Spec
  <1>5. Spec => [][Step]_vars
    BY <1>1, <1>4, InvariantCorrect, PTL DEF Spec
  <1> QED
    BY <1>5 DEF LifecycleRespected

-----------------------------------------------------------------------------
(* Every operation guards the reference it stores, or keeps the one its    *)
(* live record had.                                                        *)
LEMMA PlansReferOnlySafely ==
  ASSUME TypeOK, NEW req \in Requests, NEW p \in PlansFor(req)
  PROVE  RefersSafely(p)
  <1>1. req \in Request /\ (req.op # "create" => req.id \in Ids)
    BY RequestsTyped
  <1>2. ASSUME req.op # "create", CurrentFor(req)
        PROVE  records[req.id] \in Record
    BY <1>1, <1>2 DEF TypeOK, CurrentFor, Exists
  <1>3. CASE req.op = "create"
    <2>1. PICK id \in Ids \ issued : p = CreatePlan(req, id)
      BY <1>3 DEF PlansFor
    <2>2. req.changed = {"key", "ref"}
      BY <1>3, <1>1 DEF Requests, CreateRequests, WriteRequests
    <2>3. ResolveSelf(req.ref, id) \in Ids \cup {None}
      BY <1>1 DEF Request, ResolveSelf, OptionalId
    <2> QED
      BY <2>1, <2>2, <2>3 DEF CreatePlan, RefersSafely, ReferenceGuards
  <1>4. CASE req.op = "update"
    <2>1. p = UpdatePlan(req) /\ records[req.id] \in Record /\ ~records[req.id].deleted
      BY <1>2, <1>4 DEF PlansFor
    <2> DEFINE before == records[req.id]
               ref == IF "ref" \in req.changed THEN ResolveSelf(req.ref, req.id) ELSE before.ref
               rec == [before EXCEPT
                         !.key = IF "key" \in req.changed THEN req.key ELSE @,
                         !.ref = ref,
                         !.version = NextVersion(before)]
    <2>2. ResolveSelf(req.ref, req.id) \in Ids \cup {None}
      BY <1>1, <1>4 DEF Request, ResolveSelf, OptionalId
    <2>3. rec.ref = ref /\ rec.deleted = before.deleted
      BY <2>1 DEF Record
    <2>4. /\ p.kind = "update" /\ p.id = req.id /\ p.before = before /\ p.after = rec
          /\ p.guards = ReferenceGuards(req, req.id, ref) /\ ~p.hardDelete
      BY <2>1 DEF UpdatePlan
    <2> HIDE DEF rec
    <2>5. ref \in {None, req.id} \cup p.guards \/ ref = before.ref
      BY <2>2, <2>4 DEF ReferenceGuards
    <2> QED
      BY <2>1, <2>3, <2>4, <2>5 DEF RefersSafely
  <1>5. CASE req.op = "delete"
    <2>1. p = DeletePlan(req) /\ records[req.id] \in Record
      BY <1>2, <1>5 DEF PlansFor
    <2> QED
      BY <2>1 DEF DeletePlan, RefersSafely, Record
  <1>6. CASE req.op = "restore"
    <2>1. p = RestorePlan(req) /\ records[req.id] \in Record
      BY <1>2, <1>6 DEF PlansFor
    <2> QED
      BY <2>1 DEF RestorePlan, RefersSafely, Record
  <1>7. CASE req.op = "transition"
    <2>1. p = TransitionPlan(req) /\ records[req.id] \in Record /\ ~records[req.id].deleted
      BY <1>2, <1>7 DEF PlansFor
    <2> QED
      BY <2>1 DEF TransitionPlan, RefersSafely, Record
  <1> QED
    BY <1>1, <1>3, <1>4, <1>5, <1>6, <1>7 DEF Request, MutationOps

LEMMA PlansReferSafelyStep ==
  ASSUME TypeOK, PlansReferSafely, [Next]_vars
  PROVE  PlansReferSafely'
  <1> USE DEF PlansReferSafely, RefersSafely, Planned
  <1>1. ASSUME NEW c \in Clients, AuthorizedPlan(c)
        PROVE  PlansReferSafely'
    <2>1. request[c] \in Requests
      BY <1>1 DEF AuthorizedPlan, TypeOK
    <2>2. PICK p \in PlansFor(request[c]) : plan' = [plan EXCEPT ![c] = p]
      BY <1>1 DEF AuthorizedPlan
    <2>3. RefersSafely(p)
      BY <2>1, PlansReferOnlySafely
    <2> QED
      BY <1>1, <2>2, <2>3 DEF AuthorizedPlan, TypeOK
  <1>2. ASSUME \A d \in Clients : pc'[d] = "planned" =>
                 pc[d] = "planned" /\ plan'[d] = plan[d]
        PROVE  PlansReferSafely'
    BY <1>2
  <1>3. ASSUME NEW c \in Clients, NEW req \in Requests, Submit(c, req)
        PROVE  PlansReferSafely'
    BY <1>2, <1>3 DEF Submit, Replay, Answer, Reject, TypeOK
  <1>4. ASSUME NEW c \in Clients,
               \/ PlanRejected(c)
               \/ CommitRejected(c)
               \/ RecheckReceipt(c)
               \/ Crash(c)
               \/ Commit(c)
        PROVE  PlansReferSafely'
    BY <1>2, <1>4 DEF PlanRejected, CommitRejected, RecheckReceipt, Crash, Commit,
                      Fail, Replay, Answer, Reject, TypeOK
  <1>5. ASSUME SetFence \/ UNCHANGED vars
        PROVE  PlansReferSafely'
    BY <1>2, <1>5 DEF SetFence, vars, callers
  <1> QED
    BY <1>1, <1>3, <1>4, <1>5 DEF Next

(* A commit whose guards hold takes no referenced record away and stores   *)
(* no reference to one that is gone.                                       *)
LEMMA CommitKeepsReferences ==
  ASSUME VersionedResource, IInv, PlansReferSafely, DanglingOnlyByRestore,
         NEW c \in Clients, Commit(c)
  PROVE  DanglingOnlyByRestore'
  <1> DEFINE p == plan[c]
             new == IF p.hardDelete THEN None ELSE p.after
             Stays(id) == records'[id] # None /\ ~records'[id].deleted
  <1>1. /\ p \in CommitPlan /\ RefersSafely(p)
        /\ p.kind # "create" => Exists(p.id) /\ p.before = records[p.id]
        /\ ReferencesHold(p) /\ NoDependents(p)
    BY CommitSeesCurrent DEF Commit, CommitError, PlansReferSafely, Planned
  <1>2. /\ p.id \in Ids /\ p.guards \subseteq Ids /\ p.after # None
        /\ records \in [Ids -> Record \cup {None}]
    BY <1>1, NullAssumption DEF CommitPlan, IInv, TypeOK
  <1>3. /\ \A id \in Ids : records'[id] = IF id = p.id THEN new ELSE records[id]
        /\ restored \subseteq restored'
        /\ p.kind = "restore" => p.id \in restored'
    BY <1>2 DEF Commit
  <1>4. p.kind # "delete" => Stays(p.id)
    BY <1>1, <1>2, <1>3 DEF RefersSafely, Live, Exists
  <1>5. ASSUME NEW id \in Ids, Stays(id), records'[id].ref # None, ~Stays(records'[id].ref)
        PROVE  id \in restored'
    <2> DEFINE ref == records'[id].ref
    <2>1. ref \in Ids
      <3>1. records'[id] \in Record
        BY <1>1, <1>2, <1>3, <1>5 DEF CommitPlan, Live, Exists
      <3> QED
        BY <3>1, <1>5 DEF Record, OptionalId
    <2>2. CASE id # p.id
      <3>1. Live(id) /\ records[id].ref = ref
        BY <1>3, <1>5, <2>2 DEF Live, Exists
      <3>2. CASE Live(ref)
        <4>1. ref = p.id /\ p.kind = "delete"
          BY <1>3, <1>4, <1>5, <2>1, <3>2 DEF Live, Exists
        <4>2. id \in Dependents(p.id)
          BY <3>1, <4>1 DEF Dependents
        <4> QED
          BY <1>1, <4>1, <4>2 DEF NoDependents, RefersSafely
      <3>3. CASE ~Live(ref)
        BY <1>3, <1>5, <3>1, <3>3 DEF DanglingOnlyByRestore
      <3> QED
        BY <3>2, <3>3
    <2>3. CASE id = p.id /\ p.kind # "restore"
      <3>1. records'[id] = p.after /\ p.kind # "delete" /\ ref # p.id
        BY <1>1, <1>3, <1>4, <1>5, <2>3 DEF Live, Exists, RefersSafely
      <3>2. records'[ref] = records[ref] /\ ~Live(ref)
        BY <1>3, <1>5, <2>1, <3>1 DEF Live, Exists
      <3>3. ref \notin p.guards
        BY <1>1, <3>2 DEF ReferencesHold
      <3>4. Live(id) /\ records[id].ref = ref
        BY <1>1, <1>5, <2>3, <3>1, <3>3 DEF RefersSafely, Live
      <3> QED
        BY <1>3, <1>5, <3>2, <3>4 DEF DanglingOnlyByRestore
    <2>4. CASE id = p.id /\ p.kind = "restore"
      BY <1>3, <2>4
    <2> QED
      BY <2>2, <2>3, <2>4
  <1> QED
    BY <1>5 DEF DanglingOnlyByRestore, Live, Exists

(* On a @versioned resource creates, updates, transitions and deletes that *)
(* race each other never leave a live record with a dangling reference: it *)
(* takes a restore, which guards no reference.                             *)
THEOREM ReferencesHoldUnlessRestored ==
  ASSUME VersionedResource
  PROVE  Spec => []DanglingOnlyByRestore
  <1>1. Init => PlansReferSafely /\ DanglingOnlyByRestore
    BY DEF Init, PlansReferSafely, Planned, DanglingOnlyByRestore, Live, Exists
  <1>2. IInv /\ PlansReferSafely /\ DanglingOnlyByRestore /\ [Next]_vars =>
          PlansReferSafely' /\ DanglingOnlyByRestore'
    <2> SUFFICES ASSUME IInv, PlansReferSafely, DanglingOnlyByRestore, [Next]_vars
                 PROVE  DanglingOnlyByRestore'
      BY PlansReferSafelyStep DEF IInv
    <2>1. CASE \E c \in Clients : Commit(c)
      BY <2>1, CommitKeepsReferences
    <2>2. CASE UNCHANGED <<records, restored>>
      BY <2>2 DEF DanglingOnlyByRestore, Live, Exists
    <2> QED
      BY <2>1, <2>2 DEF Next, Submit, AuthorizedPlan, PlanRejected, CommitRejected,
         RecheckReceipt, Crash, SetFence, vars, storage, history
  <1> QED
    BY <1>1, <1>2, InvariantCorrect, PTL DEF Spec

-----------------------------------------------------------------------------
(* Every step keeps receipts, commits under them and replies in agreement. *)
LEMMA ReceiptStep ==
  ASSUME ReceiptInv, [Next]_vars
  PROVE  ReceiptInv'
  <1> USE DEF storage, callers, history
  <1>0. TypeOK'
    BY TypeStep DEF ReceiptInv
  <1>1. ASSUME UNCHANGED <<receipts, committed>>,
               NEW c \in Clients,
               \A d \in Clients \ {c} :
                 pc'[d] = pc[d] /\ request'[d] = request[d] /\ reply'[d] = reply[d],
               reply'[c] # None =>
                 /\ pc'[c] = "idle"
                 /\ request'[c] # None
                 /\ request'[c].idem # None
                 /\ LET receipt == receipts[ReceiptOf(request'[c])]
                    IN /\ receipt # None
                       /\ receipt.hash = request'[c]
                       /\ receipt.response = reply'[c]
        PROVE  ReceiptInv'
    <2>1. OneCommitPerReceipt'
      BY <1>1 DEF ReceiptInv, OneCommitPerReceipt
    <2>2. RepliesHeld' /\ RepliesAgree'
      BY <1>1 DEF ReceiptInv, RepliesHeld, RepliesAgree, ReceiptOf
    <2> QED
      BY <1>0, <2>1, <2>2 DEF ReceiptInv
  <1>2. ASSUME NEW c \in Clients, Reject(c), UNCHANGED <<receipts, committed>>
        PROVE  ReceiptInv'
    BY <1>1, <1>2 DEF Reject, ReceiptInv, TypeOK
  <1>3. ASSUME NEW c \in Clients, NEW req \in Requests, req.idem # None,
               receipts[ReceiptOf(req)] # None, Replay(c, req),
               UNCHANGED <<receipts, committed>>
        PROVE  ReceiptInv'
    <2>1. CASE Reject(c)
      BY <1>2, <1>3, <2>1
    <2>2. CASE ~Reject(c)
      <3>1. req # None
        BY RequestsTyped, NullAssumption
      <3> QED
        BY <1>1, <1>3, <2>2, <3>1 DEF Replay, Answer, ReceiptInv, TypeOK
    <2> QED
      BY <2>1, <2>2
  <1>4. ASSUME NEW c \in Clients, NEW req \in Requests, Submit(c, req)
        PROVE  ReceiptInv'
    <2>1. CASE req.idem # None /\ receipts[ReceiptOf(req)] # None
      BY <1>3, <1>4, <2>1 DEF Submit
    <2>2. CASE ~(req.idem # None /\ receipts[ReceiptOf(req)] # None)
      BY <1>1, <1>4, <2>2 DEF Submit, ReceiptInv, TypeOK
    <2> QED
      BY <2>1, <2>2
  <1>5. ASSUME NEW c \in Clients, AuthorizedPlan(c)
        PROVE  ReceiptInv'
    BY <1>1, <1>5 DEF AuthorizedPlan, ReceiptInv, RepliesHeld, TypeOK
  <1>6. ASSUME NEW c \in Clients, NEW conflict \in BOOLEAN, Fail(c, conflict),
               pc[c] # "idle", UNCHANGED <<receipts, committed>>
        PROVE  ReceiptInv'
    <2>1. CASE Reject(c)
      BY <1>2, <1>6, <2>1
    <2>2. CASE ~Reject(c)
      BY <1>1, <1>6, <2>2 DEF Fail, ReceiptInv, RepliesHeld, TypeOK
    <2> QED
      BY <2>1, <2>2
  <1>7. ASSUME NEW c \in Clients, PlanRejected(c) \/ CommitRejected(c) \/ Crash(c)
        PROVE  ReceiptInv'
    BY <1>2, <1>6, <1>7 DEF PlanRejected, CommitRejected, Crash, PlanVersionConflict
  <1>8. ASSUME NEW c \in Clients, RecheckReceipt(c)
        PROVE  ReceiptInv'
    <2>1. request[c] \in Requests /\ request[c].idem # None
      BY <1>8 DEF RecheckReceipt, ReceiptInv, TypeOK
    <2> QED
      BY <1>2, <1>3, <1>8, <2>1 DEF RecheckReceipt
  <1>9. ASSUME NEW c \in Clients, Commit(c)
        PROVE  ReceiptInv'
    <2> DEFINE req == request[c]
               rk == ReceiptOf(req)
    <2>1. req \in Requests /\ req # None /\ ReceiptFree(req)
      BY <1>9 DEF Commit, CommitError, ReceiptInv, TypeOK
    <2>2. CASE req.idem = None
      BY <1>1, <1>9, <2>1, <2>2 DEF Commit, Answer, ReceiptInv, TypeOK
    <2>3. CASE req.idem # None
      <3> DEFINE new == [hash |-> req, response |-> ResultOf(plan[c])]
      <3>1. /\ rk \in ReceiptKey
            /\ receipts[rk] = None
            /\ committed[rk] = 0
        BY <2>1, <2>3, ReceiptKeyTyped DEF ReceiptFree, ReceiptInv, OneCommitPerReceipt
      <3>2. new \in Receipt /\ new # None
        <4>1. ResultOf(plan[c]) \in Response
          BY <1>9, ResultTyped DEF Commit, ReceiptInv, TypeOK
        <4>2. new \in Receipt
          BY <2>1, <4>1, RequestsTyped DEF Receipt
        <4> QED
          BY <4>2, NullAssumption
      <3>3. /\ receipts' = [receipts EXCEPT ![rk] = new]
            /\ committed' = [committed EXCEPT ![rk] = @ + 1]
        BY <1>9, <2>3 DEF Commit
      <3>4. /\ receipts'[rk] = new /\ committed'[rk] = 1
            /\ \A k \in ReceiptKey \ {rk} :
                 receipts'[k] = receipts[k] /\ committed'[k] = committed[k]
        BY <3>1, <3>3 DEF ReceiptInv, TypeOK
      <3>5. OneCommitPerReceipt'
        BY <3>2, <3>4 DEF ReceiptInv, OneCommitPerReceipt
      <3>6. /\ pc'[c] = "idle" /\ request'[c] = req /\ reply'[c] = new.response
            /\ \A d \in Clients \ {c} :
                 pc'[d] = pc[d] /\ request'[d] = request[d] /\ reply'[d] = reply[d]
        BY <1>9, <2>3 DEF Commit, Answer, ReceiptInv, TypeOK
      <3>7. RepliesHeld'
        BY <2>1, <2>3, <3>6 DEF ReceiptInv, RepliesHeld
      <3>8. ASSUME NEW d \in Clients, pc'[d] = "idle", reply'[d] # None
            PROVE  /\ receipts'[ReceiptOf(request'[d])] # None
                   /\ receipts'[ReceiptOf(request'[d])].hash = request'[d]
                   /\ receipts'[ReceiptOf(request'[d])].response = reply'[d]
        <4>1. CASE d = c
          BY <3>2, <3>4, <3>6, <4>1 DEF ReceiptOf
        <4>2. CASE d # c
          <5>1. /\ request[d] \in Requests /\ request[d].idem # None
                /\ receipts[ReceiptOf(request[d])] # None
                /\ receipts[ReceiptOf(request[d])].hash = request[d]
                /\ receipts[ReceiptOf(request[d])].response = reply[d]
            BY <3>6, <3>8, <4>2 DEF ReceiptInv, RepliesHeld, RepliesAgree, TypeOK
          <5>2. ReceiptOf(request[d]) \in ReceiptKey \ {rk}
            BY <3>1, <5>1, ReceiptKeyTyped
          <5> QED
            BY <3>4, <3>6, <4>2, <5>1, <5>2
        <4> QED
          BY <4>1, <4>2
      <3>9. RepliesAgree'
        BY <3>8 DEF RepliesAgree, ReceiptOf
      <3> QED
        BY <1>0, <3>5, <3>7, <3>9 DEF ReceiptInv
    <2> QED
      BY <2>2, <2>3
  <1>10. ASSUME SetFence \/ UNCHANGED vars
         PROVE  ReceiptInv'
    BY <1>0, <1>10 DEF SetFence, vars, ReceiptInv, OneCommitPerReceipt, RepliesHeld,
                       RepliesAgree, ReceiptOf
  <1> QED
    BY <1>4, <1>5, <1>7, <1>8, <1>9, <1>10 DEF Next

(* The receipts are in agreement at all times, on every resource.          *)
LEMMA ReceiptsCorrect == Spec => []ReceiptInv
  <1>1. Init /\ TypeOK => ReceiptInv
    BY DEF Init, ReceiptInv, OneCommitPerReceipt, RepliesHeld, RepliesAgree
  <1>2. ReceiptInv /\ [Next]_vars => ReceiptInv'
    BY ReceiptStep
  <1> QED
    BY <1>1, <1>2, TypeCorrect, PTL DEF Spec

(* A keyed request takes effect at most once, however it is retried, and   *)
(* a receipt exists exactly when it did.                                   *)
THEOREM KeyedRequestsCommitOnce == Spec => []OneCommitPerReceipt
  <1>1. ReceiptInv => OneCommitPerReceipt
    BY DEF ReceiptInv
  <1> QED
    BY <1>1, ReceiptsCorrect, PTL

(* Every successful reply to a keyed request is the one response its only  *)
(* commit stored.                                                          *)
THEOREM KeyedRepliesAgree == Spec => []RepliesAgree
  <1>1. ReceiptInv => RepliesAgree
    BY DEF ReceiptInv
  <1> QED
    BY <1>1, ReceiptsCorrect, PTL

-----------------------------------------------------------------------------
(* The engine implements RecordStore                                       *)

(* A plan does what its request asks for, judged on the record it was      *)
(* built from, and guards what the rules of the resource say about others. *)
Answers(p, req, soft) ==
  /\ p.kind = req.op
  /\ p.hardDelete <=> p.kind = "delete" /\ ~soft
  /\ p.kind = "create" =>
       LET ref == ResolveSelf(req.ref, p.id)
       IN /\ p.after = [key |-> req.key, ref |-> ref, status |-> Initial,
                        deleted |-> FALSE, version |-> 1]
          /\ ref \in Ids \ {p.id} => ref \in p.guards
  /\ p.kind # "create" =>
       /\ p.id = req.id
       /\ p.expected = req.expected
       /\ p.before.deleted <=> p.kind = "restore"
  /\ p.kind = "update" =>
       /\ p.after = [[p.before EXCEPT
                        !.key = IF "key" \in req.changed THEN req.key ELSE @,
                        !.ref = IF "ref" \in req.changed THEN req.ref ELSE @]
                     EXCEPT !.version = @ + 1]
       /\ "ref" \in req.changed /\ req.ref \in Ids \ {p.id} => req.ref \in p.guards
  /\ p.kind = "delete" =>
       /\ p.dependents
       /\ soft =>
            p.after = [[p.before EXCEPT !.deleted = TRUE] EXCEPT !.version = @ + 1]
  /\ p.kind = "restore" =>
       /\ soft
       /\ p.after = [[p.before EXCEPT !.deleted = FALSE] EXCEPT !.version = @ + 1]
  /\ p.kind = "transition" =>
       /\ \E t \in Transitions : p.before.status \in t.from /\ req.to = t.to
       /\ p.after = [[p.before EXCEPT !.status = req.to] EXCEPT !.version = @ + 1]

PlansAnswer ==
  \A c \in Clients :
    Planned(c) => Answers(plan[c], request[c], decorators.softDelete)

(* An update never asks for "$self".                                       *)
LEMMA UpdatesNameIds ==
  \A req \in Requests : req.op = "update" => req.ref # Self
  BY NullAssumption DEF Requests, CreateRequests, WriteRequests, OptionalId

(* Every operation builds a plan that answers its request.                 *)
LEMMA PlansDoWhatIsAsked ==
  ASSUME VersionedResource, TypeOK, NEW req \in Requests, NEW p \in PlansFor(req)
  PROVE  Answers(p, req, decorators.softDelete)
  <1>1. req \in Request /\ (req.op # "create" => req.id \in Ids)
    BY RequestsTyped
  <1>2. /\ decorators.versioned
        /\ decorators.softDelete \in BOOLEAN
    BY LifecycleAssumption DEF TypeOK, VersionedResource
  <1>3. ASSUME req.op # "create", CurrentFor(req)
        PROVE  records[req.id] \in Record
    BY <1>1, <1>3 DEF TypeOK, CurrentFor, Exists
  <1>4. CASE req.op = "create"
    <2>1. PICK id \in Ids \ issued : p = CreatePlan(req, id)
      BY <1>4 DEF PlansFor
    <2>2. req.changed = {"key", "ref"}
      BY <1>4, <1>1 DEF Requests, CreateRequests, WriteRequests
    <2> QED
      BY <1>2, <1>4, <2>1, <2>2 DEF CreatePlan, Answers, ReferenceGuards
  <1>5. CASE req.op = "update"
    <2>1. p = UpdatePlan(req) /\ records[req.id] \in Record /\ ~records[req.id].deleted
      BY <1>3, <1>5 DEF PlansFor
    <2>2. ResolveSelf(req.ref, req.id) = req.ref
      BY <1>5, UpdatesNameIds DEF ResolveSelf
    <2> QED
      BY <1>2, <1>5, <2>1, <2>2
      DEF UpdatePlan, Answers, ReferenceGuards, NextVersion, Record
  <1>6. CASE req.op = "delete"
    <2>1. p = DeletePlan(req) /\ records[req.id] \in Record /\ ~records[req.id].deleted
      BY <1>3, <1>6 DEF PlansFor
    <2> QED
      BY <1>2, <1>6, <2>1 DEF DeletePlan, Answers, NextVersion, Record
  <1>7. CASE req.op = "restore"
    <2>1. /\ p = RestorePlan(req)
          /\ records[req.id] \in Record
          /\ records[req.id].deleted
          /\ decorators.softDelete
      BY <1>3, <1>7 DEF PlansFor
    <2> QED
      BY <1>2, <1>7, <2>1 DEF RestorePlan, Answers, NextVersion, Record
  <1>8. CASE req.op = "transition"
    <2>1. /\ p = TransitionPlan(req)
          /\ records[req.id] \in Record
          /\ ~records[req.id].deleted
          /\ \E t \in Transitions : t.to = req.to /\ records[req.id].status \in t.from
      BY <1>3, <1>8 DEF PlansFor
    <2> QED
      BY <1>2, <1>8, <2>1 DEF TransitionPlan, Answers, NextVersion, Record
  <1> QED
    BY <1>1, <1>4, <1>5, <1>6, <1>7, <1>8 DEF Request, MutationOps

(* A plan keeps answering its request until it is committed or dropped.    *)
LEMMA PlansAnswerStep ==
  ASSUME VersionedResource, TypeOK, PlansAnswer, [Next]_vars
  PROVE  PlansAnswer'
  <1> USE DEF PlansAnswer, Planned
  <1>1. ASSUME NEW c \in Clients, AuthorizedPlan(c)
        PROVE  PlansAnswer'
    <2>1. request[c] \in Requests
      BY <1>1 DEF AuthorizedPlan, TypeOK
    <2>2. PICK p \in PlansFor(request[c]) : plan' = [plan EXCEPT ![c] = p]
      BY <1>1 DEF AuthorizedPlan
    <2>3. Answers(p, request[c], decorators.softDelete)
      BY <2>1, PlansDoWhatIsAsked
    <2>4. UNCHANGED <<decorators, request>>
      BY <1>1 DEF AuthorizedPlan
    <2>5. plan'[c] = p /\ \A d \in Clients \ {c} :
            plan'[d] = plan[d] /\ pc'[d] = pc[d]
      BY <1>1, <2>2 DEF AuthorizedPlan, TypeOK
    <2> QED
      BY <2>3, <2>4, <2>5
  <1>2. ASSUME UNCHANGED decorators,
               \A d \in Clients : pc'[d] = "planned" =>
                 pc[d] = "planned" /\ plan'[d] = plan[d] /\ request'[d] = request[d]
        PROVE  PlansAnswer'
    BY <1>2
  <1>3. ASSUME NEW c \in Clients, NEW req \in Requests, Submit(c, req)
        PROVE  PlansAnswer'
    BY <1>2, <1>3 DEF Submit, Replay, Answer, Reject, TypeOK
  <1>4. ASSUME NEW c \in Clients,
               \/ PlanRejected(c)
               \/ CommitRejected(c)
               \/ RecheckReceipt(c)
               \/ Crash(c)
               \/ Commit(c)
        PROVE  PlansAnswer'
    BY <1>2, <1>4 DEF PlanRejected, CommitRejected, RecheckReceipt, Crash, Commit,
                      Fail, Replay, Answer, Reject, TypeOK
  <1>5. ASSUME SetFence \/ UNCHANGED vars
        PROVE  PlansAnswer'
    BY <1>2, <1>5 DEF SetFence, vars, callers
  <1> QED
    BY <1>1, <1>3, <1>4, <1>5 DEF Next

(* A commit stores what the plan says and answers with it, and a keyed     *)
(* request is answered the first time.                                     *)
LEMMA CommitServes ==
  ASSUME NEW c \in Clients, Commit(c)
  PROVE  LET p == plan[c]
         IN Store!Serve(request[c], p.id, IF p.hardDelete THEN None ELSE p.after,
                        IF p.hardDelete THEN p.before ELSE p.after)
  <1>1. ReceiptFree(request[c])
    BY DEF Commit, CommitError
  <1> QED
    BY <1>1 DEF Commit, ReceiptFree, ReceiptOf, ResultOf, Store!Serve

(* The claims speak for the records: a plan whose claim is free holds a    *)
(* key that no other record holds.                                         *)
LEMMA CommitKeyFree ==
  ASSUME VersionedResource, IInv, NEW c \in Clients, Commit(c),
         plan[c].kind \in {"create", "update", "transition"}
  PROVE  Store!KeyFree(plan[c].id, plan[c].after)
  <1> DEFINE p == plan[c]
             k == ClaimKey(p.after)
  <1>1. /\ WellShaped(p) /\ ClaimFree(p)
        /\ p.kind # "create" => Exists(p.id) /\ p.before = records[p.id]
    BY CommitSeesCurrent
  <1>2. p.id \in Ids
    BY CommitSeesCurrent DEF CommitPlan
  <1> SUFFICES ASSUME k # None, NEW x \in Ids \ {p.id}, Exists(x),
                      ClaimKey(records[x]) = k
               PROVE  FALSE
    BY DEF Store!KeyFree, Store!Holds, Store!Stored, ClaimKey, Exists
  <1>3. claims[k] = x /\ x # None
    BY NullAssumption DEF IInv, ClaimsExact
  <1>4. p.claimAfter = k
    BY <1>1 DEF WellShaped
  <1>5. CASE p.claimBefore = k
    <2>1. p.kind # "create" /\ ClaimKey(records[p.id]) = k
      BY <1>1, <1>5 DEF WellShaped
    <2>2. claims[k] = p.id
      BY <1>1, <1>2, <2>1 DEF IInv, ClaimsExact
    <2> QED
      BY <1>3, <2>2
  <1>6. CASE p.claimBefore # k
    BY <1>1, <1>3, <1>4, <1>6 DEF ClaimFree
  <1> QED
    BY <1>5, <1>6

(* No commit goes without a trace in the records.                          *)
LEMMA CommitLeavesTrace ==
  ASSUME VersionedResource, IInv, NEW c \in Clients, Commit(c)
  PROVE  records' # records
  <1> DEFINE p == plan[c]
             new == IF p.hardDelete THEN None ELSE p.after
  <1>1. /\ p \in CommitPlan /\ WellShaped(p)
        /\ p.kind = "create" => ~Exists(p.id)
        /\ p.kind # "create" =>
             Exists(p.id) /\ p.expected = records[p.id].version
    BY CommitSeesCurrent
  <1>2. p.id \in Ids /\ p.after # None /\ p.expected \in Nat
    BY <1>1, NullAssumption DEF CommitPlan
  <1>3. records'[p.id] = new
    BY <1>2 DEF Commit, IInv, TypeOK
  <1>4. new # records[p.id]
    BY <1>1, <1>2 DEF WellShaped, Exists
  <1> QED
    BY <1>3, <1>4

(* A commit does to the stored record what the request asks for, and what  *)
(* its guards find in the claims and records are the rules of the store.   *)
LEMMA CommitIsAtomic ==
  ASSUME VersionedResource, IInv, PlansAnswer, NEW c \in Clients, Commit(c)
  PROVE  Store!Next
  <1> DEFINE p == plan[c]
             req == request[c]
  <1>1. /\ p \in CommitPlan
        /\ p.kind = "create" => ~Exists(p.id)
        /\ p.kind # "create" =>
             /\ Exists(p.id)
             /\ p.before = records[p.id]
             /\ p.expected = records[p.id].version
    BY CommitSeesCurrent
  <1>2. Answers(p, req, decorators.softDelete) /\ req \in Requests
    BY DEF PlansAnswer, Planned, Commit, IInv, TypeOK
  <1>3. p.id \in Ids /\ (p.kind # "create" => records[p.id] \in Record)
    BY <1>1 DEF CommitPlan, Exists, IInv, TypeOK
  <1>4. ReferencesHold(p) /\ NoDependents(p)
    BY DEF Commit, CommitError
  <1>5. Store!Serve(req, p.id, IF p.hardDelete THEN None ELSE p.after,
                    IF p.hardDelete THEN p.before ELSE p.after)
    BY CommitServes
  <1>6. \A id \in Ids : Store!IsLive(id) <=> Live(id)
    BY DEF Store!IsLive, Store!Stored, Live, Exists
  <1>7. ASSUME p.kind # "create"
        PROVE  /\ req.id = p.id /\ p.before = records[req.id]
               /\ Store!Expected(req)
               /\ Store!IsLive(p.id) <=> p.kind # "restore"
    BY <1>1, <1>2, <1>3, <1>6, <1>7
    DEF Answers, Store!Expected, Store!Stored, Live, Exists
  <1>8. CASE p.kind = "create"
    <2> DEFINE ref == IF req.ref = Self THEN p.id ELSE req.ref
               rec == [key |-> req.key, ref |-> ref, status |-> Initial,
                       deleted |-> FALSE, version |-> 1]
    <2>1. p.after = rec /\ (ref \in Ids \ {p.id} => ref \in p.guards) /\ ~p.hardDelete
      BY <1>2, <1>8 DEF Answers, ResolveSelf
    <2>2. Store!MayRefer(p.id, ref)
      BY <1>4, <1>6, <2>1 DEF Store!MayRefer, ReferencesHold
    <2>3. Store!KeyFree(p.id, rec)
      BY <1>8, <2>1, CommitKeyFree
    <2>4. req.op = "create" /\ ~Store!Stored(p.id)
      BY <1>1, <1>2, <1>8 DEF Answers, Store!Stored, Exists
    <2>5. Store!Serve(req, p.id, rec, rec)
      BY <1>5, <2>1
    <2>6. Store!Create(req, p.id)
      BY <2>2, <2>3, <2>4, <2>5 DEF Store!Create
    <2> QED
      BY <1>2, <1>3, <2>6, CommitLeavesTrace DEF Store!Next
  <1>9. CASE p.kind = "update"
    <2> DEFINE rec == [records[req.id] EXCEPT
                         !.key = IF "key" \in req.changed THEN req.key ELSE @,
                         !.ref = IF "ref" \in req.changed THEN req.ref ELSE @]
    <2>1. /\ p.after = [rec EXCEPT !.version = @ + 1] /\ ~p.hardDelete
          /\ "ref" \in req.changed /\ req.ref \in Ids \ {p.id} => req.ref \in p.guards
          /\ req.op = "update"
      BY <1>2, <1>7, <1>9 DEF Answers
    <2>2. "ref" \in req.changed => Store!MayRefer(req.id, req.ref)
      BY <1>4, <1>6, <1>7, <1>9, <2>1 DEF Store!MayRefer, ReferencesHold
    <2>3. p.after.key = rec.key /\ p.after.status = rec.status
      BY <1>3, <1>7, <1>9, <2>1 DEF Record
    <2>4. Store!KeyFree(req.id, rec)
      BY <1>7, <1>9, <2>3, CommitKeyFree DEF Store!KeyFree, Store!Holds
    <2>5. Store!Change(req, rec)
      BY <1>5, <1>7, <1>9, <2>1 DEF Store!Change
    <2>6. Store!Update(req)
      BY <1>7, <1>9, <2>1, <2>2, <2>4, <2>5 DEF Store!Update
    <2> QED
      BY <1>2, <2>6, CommitLeavesTrace DEF Store!Next
  <1>10. CASE p.kind = "delete"
    <2>1. req.op = "delete" /\ p.dependents /\ (p.hardDelete <=> ~decorators.softDelete)
      BY <1>2, <1>10 DEF Answers
    <2>2. \A x \in Ids : Store!IsLive(x) => records[x].ref # req.id
      BY <1>4, <1>6, <1>7, <1>10, <2>1 DEF NoDependents, Dependents
    <2> DEFINE rec == [records[req.id] EXCEPT !.deleted = TRUE]
    <2>3. decorators.softDelete => p.after = [rec EXCEPT !.version = @ + 1]
      BY <1>2, <1>7, <1>10 DEF Answers
    <2>4. IF decorators.softDelete
          THEN Store!Change(req, rec)
          ELSE Store!Serve(req, req.id, None, records[req.id])
      BY <1>5, <1>7, <1>10, <2>1, <2>3 DEF Store!Change
    <2>5. Store!Delete(req)
      BY <1>7, <1>10, <2>1, <2>2, <2>4 DEF Store!Delete
    <2> QED
      BY <1>2, <2>5, CommitLeavesTrace DEF Store!Next
  <1>11. CASE p.kind = "restore"
    <2>1. req.op = "restore" /\ decorators.softDelete /\ ~p.hardDelete
      BY <1>2, <1>11 DEF Answers
    <2> DEFINE rec == [records[req.id] EXCEPT !.deleted = FALSE]
    <2>2. p.after = [rec EXCEPT !.version = @ + 1]
      BY <1>2, <1>7, <1>11 DEF Answers
    <2>3. Store!Change(req, rec)
      BY <1>5, <1>7, <1>11, <2>1, <2>2 DEF Store!Change
    <2>4. Store!Restore(req)
      BY <1>7, <1>11, <2>1, <2>3 DEF Store!Restore
    <2> QED
      BY <1>2, <2>4, CommitLeavesTrace DEF Store!Next
  <1>12. CASE p.kind = "transition"
    <2> DEFINE rec == [records[req.id] EXCEPT !.status = req.to]
    <2>1. /\ p.after = [rec EXCEPT !.version = @ + 1] /\ ~p.hardDelete
          /\ \E t \in Transitions : records[req.id].status \in t.from /\ req.to = t.to
          /\ req.op = "transition"
      BY <1>2, <1>7, <1>12 DEF Answers
    <2>2. p.after.key = rec.key /\ p.after.status = rec.status
      BY <1>3, <1>7, <1>12, <2>1 DEF Record
    <2>3. Store!KeyFree(req.id, rec)
      BY <1>7, <1>12, <2>2, CommitKeyFree DEF Store!KeyFree, Store!Holds
    <2>4. Store!Change(req, rec)
      BY <1>5, <1>7, <1>12, <2>1 DEF Store!Change
    <2>5. Store!Transition(req)
      BY <1>7, <1>12, <2>1, <2>3, <2>4 DEF Store!Transition
    <2> QED
      BY <1>2, <2>5, CommitLeavesTrace DEF Store!Next
  <1> QED
    BY <1>1, <1>8, <1>9, <1>10, <1>11, <1>12 DEF CommitPlan, MutationOps

(* Whatever the engine does other than commit leaves the store alone.      *)
LEMMA StepIsAtomic ==
  ASSUME VersionedResource, IInv, PlansAnswer, [Next]_vars
  PROVE  [Store!Next]_(Store!storeVars)
  <1>1. CASE \E c \in Clients : Commit(c)
    BY <1>1, CommitIsAtomic
  <1>2. CASE ~(\E c \in Clients : Commit(c))
    <2>1. UNCHANGED <<decorators, records, receipts>>
      BY <1>2 DEF Next, vars, storage, Submit, AuthorizedPlan, PlanRejected,
                  CommitRejected, RecheckReceipt, Crash, SetFence
    <2> QED
      BY <2>1 DEF Store!storeVars
  <1> QED
    BY <1>1, <1>2

(* On a @versioned resource every request takes effect in one step, on the *)
(* records as they are at that moment, by the rules judged on the records  *)
(* themselves: the engine, which reads first, plans in between and checks  *)
(* claims, versions and references last, implements RecordStore.           *)
THEOREM EngineImplementsStore ==
  ASSUME VersionedResource
  PROVE  Spec => RequestsAreAtomic
  <1>1. Init => Store!Init /\ PlansAnswer
    BY LifecycleAssumption DEF Init, Store!Init, ReceiptKey, PlansAnswer, Planned
  <1>2. TypeOK /\ PlansAnswer /\ [Next]_vars => PlansAnswer'
    BY PlansAnswerStep
  <1>3. IInv /\ PlansAnswer /\ [Next]_vars => [Store!Next]_(Store!storeVars)
    BY StepIsAtomic
  <1>4. Spec => []PlansAnswer
    BY <1>1, <1>2, TypeCorrect, PTL DEF Spec
  <1> QED
    BY <1>1, <1>3, <1>4, InvariantCorrect, PTL DEF Spec, RequestsAreAtomic, Store!Spec
=============================================================================
