------------------------------- MODULE Engine -------------------------------
(***************************************************************************)
(* The write path of the ForgeGraph runtime: EngineCore plans a mutation   *)
(* from what it reads, then hands the plan to a storage adapter that       *)
(* re-checks every guard and applies the plan in one atomic commit.        *)
(* Between the receipt lookup, the planning reads and the commit other     *)
(* callers run (every one of them is an awaited storage or authorizer      *)
(* call), so a plan may be stale when it is committed.                     *)
(*                                                                         *)
(* One tenant and one resource are modelled.  The resource has a unique    *)
(* field (key), a reference to its own kind (ref), a lifecycle (status)    *)
(* and the decorators @versioned and @softDelete on or off.  It has no     *)
(* effective dating and no hierarchy, so a plan carries neither an         *)
(* interval nor a tree guard.  The adapter is MemoryStorage, the semantic  *)
(* model every other adapter is compared against.                          *)
(***************************************************************************)
EXTENDS Naturals, FiniteSets

CONSTANTS
  Clients,      \* concurrent callers of the engine
  Ids,          \* record ids IdGen can hand out
  Keys,         \* values of the unique field
  IdemKeys,     \* Idempotency-Key values callers send
  Statuses,     \* lifecycle states
  Initial,      \* the lifecycle's initial state
  Transitions,  \* the lifecycle's actions: records [from, to]
  ClaimedIn,    \* states in which the unique's condition holds
  Operations,   \* the operations in use: mutations, and the operator's "fence"
  Decorators,   \* the decorator sets to consider: [versioned, softDelete]
  MaxCommits,   \* bound: no new request for a record with this many commits
  None,         \* null
  Self          \* the "$self" reference input

(* The compiled model: transitions stay inside the lifecycle, and a        *)
(* conditional unique is only accepted on a @versioned resource.           *)
ASSUME LifecycleAssumption ==
  /\ Initial \in Statuses
  /\ ClaimedIn \subseteq Statuses
  /\ Transitions \subseteq [from : SUBSET Statuses, to : Statuses]
  /\ Decorators \subseteq [versioned : BOOLEAN, softDelete : BOOLEAN]
  /\ (\E d \in Decorators : ~d.versioned) => ClaimedIn = Statuses
  /\ Operations \subseteq
       {"create", "update", "delete", "restore", "transition", "fence"}
  /\ MaxCommits \in Nat

OptionalId  == Ids \cup {None}
OptionalKey == Keys \cup {None}
MutationOps == {"create", "update", "delete", "restore", "transition"}

(* A stored record.  version is 0 on a resource without @versioned.        *)
Record ==
  [key : OptionalKey, ref : OptionalId, status : Statuses,
   deleted : BOOLEAN, version : Nat]

(* What a caller sends: the operation, the record, If-Match, the patched   *)
(* fields and their values, the lifecycle target, the Idempotency-Key.     *)
Request ==
  [op : MutationOps, id : OptionalId, expected : Nat,
   changed : SUBSET {"key", "ref"}, key : OptionalKey,
   ref : OptionalId \cup {Self}, to : Statuses, idem : IdemKeys \cup {None}]

(* A CommitPlan.  claimBefore and claimAfter are the one ClaimChange of    *)
(* the one unique (null for an operation that plans no claims), guards the *)
(* ids of the reference guards.                                            *)
CommitPlan ==
  [kind : MutationOps, id : Ids, expected : Nat, checked : BOOLEAN,
   before : Record \cup {None}, after : Record,
   claimBefore : OptionalKey, claimAfter : OptionalKey,
   guards : SUBSET Ids, dependents : BOOLEAN, hardDelete : BOOLEAN]

(* An idempotency receipt, keyed by operation and key: the request hash is *)
(* abstracted to the request, the response to the record it describes.     *)
ReceiptKey == MutationOps \X IdemKeys
Response   == [id : Ids, rec : Record]
Receipt    == [hash : Request, response : Response]

ASSUME NullAssumption ==
  /\ None \notin Ids \cup Keys \cup IdemKeys
  /\ Self \notin Ids \cup {None}
  /\ None \notin Record
  /\ None \notin CommitPlan
  /\ None \notin Request
  /\ None \notin Receipt
  /\ None \notin Response

VARIABLES
  decorators,  \* the resource's decorators, fixed at compile time
  records,     \* [Ids -> Record or None], the table
  claims,      \* [Keys -> id or None], the unique claims
  receipts,    \* [ReceiptKey -> Receipt or None]
  events,      \* [Ids -> Nat], audit entries (and change events) per record
  issued,      \* ids IdGen has handed out
  fenced,      \* the write fence of provider cutover
  pc,          \* [Clients -> "idle", "missed", "planned", "recheck"]
  request,     \* [Clients -> Request or None]
  plan,        \* [Clients -> CommitPlan or None]
  reply,       \* [Clients -> Response or None], the last reply to a request
               \* with an Idempotency-Key, while request still holds it
  committed,   \* history: [ReceiptKey -> Nat], commits under each receipt key
  restored     \* history: ids that were restored from soft deletion

storage == <<records, claims, receipts, events>>
history == <<committed, restored>>
callers == <<pc, request, plan, reply>>
vars == <<decorators, storage, issued, fenced, callers, history>>

-----------------------------------------------------------------------------
(* Records, claims and guards                                              *)

Exists(id) == records[id] # None
Live(id)   == Exists(id) /\ ~records[id].deleted

(* The claim a record holds: none when the unique's condition fails on the *)
(* record or the field is null.                                            *)
ClaimKey(rec) == IF rec.status \in ClaimedIn THEN rec.key ELSE None

(* Restrict-delete: live records, this one included, that reference id.    *)
Dependents(id) == {d \in Ids : Live(d) /\ records[d].ref = id}

(* Reference guards: the reference fields the request sets, except a       *)
(* record referencing itself.                                              *)
ReferenceGuards(req, id, ref) ==
  IF "ref" \in req.changed /\ ref \in Ids /\ ref # id THEN {ref} ELSE {}

(* "$self" becomes the id of the written record.                           *)
ResolveSelf(ref, id) == IF ref = Self THEN id ELSE ref

ReceiptOf(req) == <<req.op, req.idem>>

NextVersion(rec) ==
  IF decorators.versioned THEN rec.version + 1 ELSE rec.version

(* Precondition shared by every operation on a stored record: it exists    *)
(* and, on a @versioned resource, has the version the caller expects.      *)
CurrentFor(req) ==
  /\ Exists(req.id)
  /\ decorators.versioned => records[req.id].version = req.expected

(* The requests callers send.  If-Match carries a version some reader has  *)
(* seen; the fields an operation does not use are null.                    *)
CreateRequests ==
  [op : {"create"}, id : {None}, expected : {0},
   changed : {{"key", "ref"}}, key : OptionalKey, ref : OptionalId \cup {Self},
   to : {Initial}, idem : IdemKeys \cup {None}]

WriteRequests(ops, changed, keys, refs, targets) ==
  [op : ops, id : Ids, expected : 1 .. MaxCommits, changed : {changed},
   key : keys, ref : refs, to : targets, idem : IdemKeys \cup {None}]

Requests ==
  {req \in UNION {
     CreateRequests,
     WriteRequests({"update"}, {"key"}, OptionalKey, {None}, {Initial}),
     WriteRequests({"update"}, {"ref"}, {None}, OptionalId, {Initial}),
     WriteRequests({"delete", "restore"}, {}, {None}, {None}, {Initial}),
     WriteRequests({"transition"}, {}, {None}, {None}, {t.to : t \in Transitions})} :
   req.op \in Operations}

-----------------------------------------------------------------------------
(* Planning: what each operation builds from the state it reads            *)

CreatePlan(req, id) ==
  LET ref  == ResolveSelf(req.ref, id)
      rec  == [key |-> req.key, ref |-> ref, status |-> Initial,
               deleted |-> FALSE,
               version |-> IF decorators.versioned THEN 1 ELSE 0]
  IN [kind |-> "create", id |-> id, expected |-> 0, checked |-> FALSE,
      before |-> None, after |-> rec,
      claimBefore |-> None, claimAfter |-> ClaimKey(rec),
      guards |-> ReferenceGuards(req, id, ref),
      dependents |-> FALSE, hardDelete |-> FALSE]

UpdatePlan(req) ==
  LET before == records[req.id]
      ref    == IF "ref" \in req.changed
                THEN ResolveSelf(req.ref, req.id) ELSE before.ref
      rec    == [before EXCEPT
                   !.key = IF "key" \in req.changed THEN req.key ELSE @,
                   !.ref = ref,
                   !.version = NextVersion(before)]
  IN [kind |-> "update", id |-> req.id, expected |-> req.expected,
      checked |-> decorators.versioned,
      before |-> before, after |-> rec,
      claimBefore |-> ClaimKey(before), claimAfter |-> ClaimKey(rec),
      guards |-> ReferenceGuards(req, req.id, ref),
      dependents |-> FALSE, hardDelete |-> FALSE]

DeletePlan(req) ==
  LET before == records[req.id]
      hard   == ~decorators.softDelete
      rec    == [before EXCEPT !.deleted = decorators.softDelete,
                               !.version = NextVersion(before)]
  IN [kind |-> "delete", id |-> req.id, expected |-> req.expected,
      checked |-> decorators.versioned,
      before |-> before, after |-> rec,
      claimBefore |-> IF hard THEN ClaimKey(before) ELSE None,
      claimAfter |-> None, guards |-> {},
      dependents |-> TRUE, hardDelete |-> hard]

RestorePlan(req) ==
  LET before == records[req.id]
      rec    == [before EXCEPT !.deleted = FALSE,
                               !.version = NextVersion(before)]
  IN [kind |-> "restore", id |-> req.id, expected |-> req.expected,
      checked |-> decorators.versioned,
      before |-> before, after |-> rec,
      claimBefore |-> None, claimAfter |-> None, guards |-> {},
      dependents |-> FALSE, hardDelete |-> FALSE]

TransitionPlan(req) ==
  LET before == records[req.id]
      rec    == [before EXCEPT !.status = req.to,
                               !.version = NextVersion(before)]
  IN [kind |-> "transition", id |-> req.id, expected |-> req.expected,
      checked |-> decorators.versioned,
      before |-> before, after |-> rec,
      claimBefore |-> ClaimKey(before), claimAfter |-> ClaimKey(rec),
      guards |-> {}, dependents |-> FALSE, hardDelete |-> FALSE]

(* The plans an operation can build now: none when it fails while planning *)
(* (NotFound, VersionConflict, ReferenceMissing, AlreadyDeleted, ...).  A  *)
(* create takes any id IdGen has not handed out.                           *)
PlansFor(req) ==
  LET current == CurrentFor(req)
      admitted(p) == \A g \in p.guards : Live(g)
  IN CASE req.op = "create" ->
            {p \in {CreatePlan(req, id) : id \in Ids \ issued} : admitted(p)}
       [] req.op = "update" ->
            IF current /\ ~records[req.id].deleted
            THEN {p \in {UpdatePlan(req)} : admitted(p)} ELSE {}
       [] req.op = "delete" ->
            IF current /\ ~records[req.id].deleted /\ Dependents(req.id) = {}
            THEN {DeletePlan(req)} ELSE {}
       [] req.op = "restore" ->
            IF current /\ decorators.softDelete /\ records[req.id].deleted
            THEN {RestorePlan(req)} ELSE {}
       [] req.op = "transition" ->
            IF /\ current
               /\ ~records[req.id].deleted
               /\ \E t \in Transitions :
                    t.to = req.to /\ records[req.id].status \in t.from
            THEN {TransitionPlan(req)} ELSE {}

(* Planning fails with VersionConflict: the only error that makes          *)
(* withIdempotency look the receipt up again.                              *)
PlanVersionConflict(req) ==
  /\ req.op # "create"
  /\ decorators.versioned
  /\ Exists(req.id)
  /\ records[req.id].version # req.expected

-----------------------------------------------------------------------------
(* The commit guards, in the order commitSync evaluates them               *)

(* Mutant: the commit does not look for a receipt.                         *)
ReceiptUnchecked(req) == TRUE

ReceiptFree(req) ==
  req.idem # None => receipts[ReceiptOf(req)] = None

TargetHolds(p) == IF p.kind = "create" THEN ~Exists(p.id) ELSE Exists(p.id)

(* Mutant: the version is only checked while planning.                     *)
VersionUnchecked(p) == TRUE

VersionHolds(p) == p.checked => records[p.id].version = p.expected

ClaimFree(p) ==
  p.claimAfter # None /\ p.claimAfter # p.claimBefore =>
    claims[p.claimAfter] \in {None, p.id}

(* Mutant: references are only checked while planning.                     *)
ReferencesUnchecked(p) == TRUE

ReferencesHold(p) == \A g \in p.guards : Live(g)

NoDependents(p) == p.dependents => Dependents(p.id) = {}

CommitError(p, req) ==
  IF ~ReceiptFree(req) THEN "UniqueConflict"
  ELSE IF ~TargetHolds(p)
       THEN IF p.kind = "create" THEN "TransientConflict" ELSE "NotFound"
  ELSE IF ~VersionHolds(p)   THEN "VersionConflict"
  ELSE IF ~ClaimFree(p)      THEN "UniqueConflict"
  ELSE IF ~ReferencesHold(p) THEN "ReferenceMissing"
  ELSE IF ~NoDependents(p)   THEN "HasDependents"
  ELSE "ok"

(* Mutant: the old key stays claimed.                                      *)
ClaimsKeepingOld(p) ==
  [k \in Keys |-> IF k = p.claimAfter THEN p.id ELSE claims[k]]

(* The claims after the plan: the old key is released, whoever holds it,   *)
(* then the new one is set.                                                *)
ClaimsAfter(p) ==
  [k \in Keys |->
     IF k = p.claimAfter THEN p.id
     ELSE IF k = p.claimBefore THEN None
     ELSE claims[k]]

(* What a committed plan answers: the record it deleted for good, or the   *)
(* record it stored.                                                       *)
ResultOf(p) ==
  [id |-> p.id, rec |-> IF p.hardDelete THEN p.before ELSE p.after]

-----------------------------------------------------------------------------
Init ==
  /\ decorators \in Decorators
  /\ records = [id \in Ids |-> None]
  /\ claims = [k \in Keys |-> None]
  /\ receipts = [r \in ReceiptKey |-> None]
  /\ events = [id \in Ids |-> 0]
  /\ issued = {}
  /\ fenced = FALSE
  /\ pc = [c \in Clients |-> "idle"]
  /\ request = [c \in Clients |-> None]
  /\ plan = [c \in Clients |-> None]
  /\ reply = [c \in Clients |-> None]
  /\ committed = [r \in ReceiptKey |-> 0]
  /\ restored = {}

(* The caller is answered with an error: nothing was stored.               *)
Reject(c) ==
  /\ pc' = [pc EXCEPT ![c] = "idle"]
  /\ request' = [request EXCEPT ![c] = None]
  /\ plan' = [plan EXCEPT ![c] = None]
  /\ reply' = [reply EXCEPT ![c] = None]

(* The caller is answered with a response; it is remembered, with the      *)
(* request it answers, only when it can be replayed.                       *)
Answer(c, req, response) ==
  /\ pc' = [pc EXCEPT ![c] = "idle"]
  /\ plan' = [plan EXCEPT ![c] = None]
  /\ request' = [request EXCEPT ![c] = IF req.idem = None THEN None ELSE req]
  /\ reply' = [reply EXCEPT ![c] = IF req.idem = None THEN None ELSE response]

(* Mutant: the request hash is not compared before a replay.               *)
ReplayUnhashed(c, req) == Answer(c, req, receipts[ReceiptOf(req)].response)

(* withIdempotency's replay: the stored response, unless the key was       *)
(* reused for a different request.                                         *)
Replay(c, req) ==
  LET existing == receipts[ReceiptOf(req)]
  IN IF existing.hash = req THEN Answer(c, req, existing.response) ELSE Reject(c)

(* A caller submits a mutation.  With an Idempotency-Key the receipt is    *)
(* looked up: a hit replays it, a miss runs the mutation.                  *)
Submit(c, req) ==
  /\ pc[c] = "idle"
  /\ req.id # None => events[req.id] < MaxCommits
  /\ IF req.idem # None /\ receipts[ReceiptOf(req)] # None
     THEN Replay(c, req)
     ELSE /\ pc' = [pc EXCEPT ![c] = "missed"]
          /\ request' = [request EXCEPT ![c] = req]
          /\ reply' = [reply EXCEPT ![c] = None]
          /\ UNCHANGED plan
  /\ UNCHANGED <<decorators, storage, issued, fenced, history>>

(* authorizedPlan: the write fence is read, then the operation reads the   *)
(* records it needs and builds its plan.                                   *)
AuthorizedPlan(c) ==
  /\ pc[c] = "missed"
  /\ ~fenced
  /\ \E p \in PlansFor(request[c]) :
       /\ plan' = [plan EXCEPT ![c] = p]
       /\ issued' = issued \cup {p.id}
  /\ pc' = [pc EXCEPT ![c] = "planned"]
  /\ UNCHANGED <<decorators, storage, fenced, request, reply, history>>

(* An error goes to the caller, except that a VersionConflict of a request *)
(* with an Idempotency-Key is checked against the receipt once more.       *)
Fail(c, conflict) ==
  IF conflict /\ request[c].idem # None
  THEN /\ pc' = [pc EXCEPT ![c] = "recheck"]
       /\ plan' = [plan EXCEPT ![c] = None]
       /\ UNCHANGED <<request, reply>>
  ELSE Reject(c)

(* Planning fails: the fence is up, or a read refutes the operation.  The  *)
(* id of a failed create is lost.                                          *)
PlanRejected(c) ==
  /\ pc[c] = "missed"
  /\ \/ fenced /\ Reject(c)
     \/ /\ ~fenced
        /\ PlansFor(request[c]) = {}
        /\ Fail(c, PlanVersionConflict(request[c]))
  /\ UNCHANGED <<decorators, storage, issued, fenced, history>>

(* storage.commit succeeds: claims, record, audit, change event and        *)
(* receipt are stored together.                                            *)
Commit(c) ==
  LET p   == plan[c]
      req == request[c]
      rk  == ReceiptOf(req)
  IN /\ pc[c] = "planned"
     /\ CommitError(p, req) = "ok"
     /\ claims' = ClaimsAfter(p)
     /\ records' = [records EXCEPT
                      ![p.id] = IF p.hardDelete THEN None ELSE p.after]
     /\ events' = [events EXCEPT ![p.id] = @ + 1]
     /\ IF req.idem # None
        THEN /\ receipts' = [receipts EXCEPT
                               ![rk] = [hash |-> req, response |-> ResultOf(p)]]
             /\ committed' = [committed EXCEPT ![rk] = @ + 1]
        ELSE UNCHANGED <<receipts, committed>>
     /\ restored' = IF p.kind = "restore" THEN restored \cup {p.id} ELSE restored
     /\ Answer(c, req, ResultOf(p))
     /\ UNCHANGED <<decorators, issued, fenced>>

(* storage.commit refuses the plan: nothing is stored.                     *)
CommitRejected(c) ==
  /\ pc[c] = "planned"
  /\ CommitError(plan[c], request[c]) # "ok"
  /\ Fail(c, CommitError(plan[c], request[c]) = "VersionConflict")
  /\ UNCHANGED <<decorators, storage, issued, fenced, history>>

(* After a VersionConflict the receipt tells a replay from a stale         *)
(* request.                                                                *)
RecheckReceipt(c) ==
  /\ pc[c] = "recheck"
  /\ IF receipts[ReceiptOf(request[c])] # None
     THEN Replay(c, request[c])
     ELSE Reject(c)
  /\ UNCHANGED <<decorators, storage, issued, fenced, history>>

(* The operator raises or lowers the write fence.                          *)
SetFence ==
  /\ "fence" \in Operations
  /\ fenced' = ~fenced
  /\ UNCHANGED <<decorators, storage, issued, callers, history>>

(* The process serving a caller dies: its request and plan are gone.       *)
Crash(c) ==
  /\ pc[c] # "idle"
  /\ Reject(c)
  /\ UNCHANGED <<decorators, storage, issued, fenced, history>>

Next ==
  \/ \E c \in Clients, req \in Requests : Submit(c, req)
  \/ \E c \in Clients :
       \/ AuthorizedPlan(c)
       \/ PlanRejected(c)
       \/ Commit(c)
       \/ CommitRejected(c)
       \/ RecheckReceipt(c)
       \/ Crash(c)
  \/ SetFence

Spec == Init /\ [][Next]_vars
-----------------------------------------------------------------------------
(* Properties                                                              *)

(* Every variable holds a value of its kind, a plan is only held by a      *)
(* caller about to commit, and the decorators are the compiled ones.       *)
TypeOK ==
  /\ decorators \in Decorators
  /\ records \in [Ids -> Record \cup {None}]
  /\ claims \in [Keys -> OptionalId]
  /\ receipts \in [ReceiptKey -> Receipt \cup {None}]
  /\ events \in [Ids -> Nat]
  /\ issued \subseteq Ids
  /\ fenced \in BOOLEAN
  /\ pc \in [Clients -> {"idle", "missed", "planned", "recheck"}]
  /\ request \in [Clients -> Requests \cup {None}]
  /\ plan \in [Clients -> CommitPlan \cup {None}]
  /\ reply \in [Clients -> Response \cup {None}]
  /\ committed \in [ReceiptKey -> Nat]
  /\ restored \subseteq Ids
  /\ \A c \in Clients :
       /\ pc[c] # "idle" => request[c] # None
       /\ pc[c] = "planned" <=> plan[c] # None
       /\ pc[c] = "planned" /\ plan[c].hardDelete => plan[c].before # None
       /\ pc[c] = "recheck" => request[c].idem # None

(* Unique claims are exact: a key is claimed by a record if and only if    *)
(* the record stored now (soft-deleted ones included) holds that key       *)
(* under the unique's condition.  No claim is leaked by an update, a       *)
(* transition or a delete, and none is missing.                            *)
ClaimsExact ==
  /\ \A k \in Keys : claims[k] # None =>
       Exists(claims[k]) /\ ClaimKey(records[claims[k]]) = k
  /\ \A id \in Ids : Exists(id) /\ ClaimKey(records[id]) # None =>
       claims[ClaimKey(records[id])] = id

(* No two stored records hold the same unique key.                         *)
UniqueKeys ==
  \A a, b \in Ids :
    /\ a # b
    /\ Exists(a)
    /\ Exists(b)
    /\ ClaimKey(records[a]) # None
    => ClaimKey(records[a]) # ClaimKey(records[b])

(* A live record can only reference a record that is not live after it was *)
(* itself restored: creates, updates and deletes racing each other never   *)
(* leave a dangling reference.                                             *)
DanglingOnlyByRestore ==
  \A id \in Ids :
    Live(id) /\ records[id].ref # None /\ ~Live(records[id].ref) =>
      id \in restored

(* No update is lost: a stored version counts the audit entries and change *)
(* events of its record, so every commit is visible in exactly one version *)
(* step and no two commits produced the same version.                      *)
VersionCountsEvents ==
  decorators.versioned =>
    \A id \in Ids : Exists(id) => records[id].version = events[id]

(* A plan that the version guard would admit was built from the record as  *)
(* it is stored now: what the engine decided on its earlier read (status,  *)
(* claims to release, unpatched fields) still describes the record.        *)
PlanSeesCurrent ==
  \A c \in Clients :
    /\ pc[c] = "planned"
    /\ plan[c].kind # "create"
    /\ TargetHolds(plan[c])
    /\ VersionHolds(plan[c])
    => plan[c].before = records[plan[c].id]

(* One commit per receipt: however often and however concurrently a keyed  *)
(* request is sent, it takes effect at most once, and a receipt exists     *)
(* exactly when it took effect.                                            *)
OneCommitPerReceipt ==
  \A rk \in ReceiptKey :
    committed[rk] = IF receipts[rk] = None THEN 0 ELSE 1

(* Every successful reply to a keyed request, first or replayed, is the    *)
(* response stored by the one commit of that same request.                 *)
RepliesAgree ==
  \A c \in Clients :
    pc[c] = "idle" /\ reply[c] # None =>
      LET receipt == receipts[ReceiptOf(request[c])]
      IN /\ receipt # None
         /\ receipt.hash = request[c]
         /\ receipt.response = reply[c]

(* A record's status only changes along a declared transition, and only    *)
(* while the record is live: two transitions planned from the same status  *)
(* cannot both take effect.                                                *)
LifecycleRespected ==
  [][\A id \in Ids :
       /\ Exists(id)
       /\ records'[id] # None
       /\ records'[id].status # records[id].status
       => /\ Live(id)
          /\ \E t \in Transitions :
               /\ records[id].status \in t.from
               /\ records'[id].status = t.to]_vars

(* Requests are atomic: every step of the engine is one step of a store on *)
(* which requests take effect one at a time, or changes nothing there,     *)
(* although plans are built from earlier reads, beside each other and in   *)
(* another order than they commit.                                         *)
Store == INSTANCE RecordStore
           WITH soft <- decorators.softDelete, db <- records, answers <- receipts

RequestsAreAtomic == Store!Spec

-----------------------------------------------------------------------------
(* The inductive invariant behind ClaimsExact, VersionCountsEvents and     *)
(* PlanSeesCurrent on a @versioned resource                                *)

Planned(c) == pc[c] = "planned"

(* An id that has not been handed out names no record, and one handed out  *)
(* to a create not yet committed belongs to that create alone.             *)
IdsFresh ==
  /\ \A id \in Ids \ issued : ~Exists(id) /\ events[id] = 0
  /\ \A id \in Ids : Exists(id) => events[id] > 0
  /\ \A c \in Clients : Planned(c) => plan[c].id \in issued
  /\ \A c \in Clients : Planned(c) /\ plan[c].kind = "create" =>
       /\ ~Exists(plan[c].id)
       /\ events[plan[c].id] = 0
       /\ \A d \in Clients \ {c} : Planned(d) => plan[d].id # plan[c].id

(* What a plan carries follows from the record it was built from.          *)
WellShaped(p) ==
  /\ p.checked <=> p.kind # "create"
  /\ p.kind = "create" =>
       /\ p.after.version = 1
       /\ p.claimBefore = None
       /\ p.claimAfter = ClaimKey(p.after)
       /\ ~p.hardDelete
  /\ p.kind # "create" =>
       /\ p.before # None
       /\ p.before.version = p.expected
       /\ p.after.version = p.expected + 1
  /\ p.kind \in {"update", "transition"} =>
       /\ p.claimBefore = ClaimKey(p.before)
       /\ p.claimAfter = ClaimKey(p.after)
       /\ ~p.hardDelete
  /\ p.kind \in {"delete", "restore"} =>
       /\ p.claimAfter = None
       /\ p.hardDelete => p.claimBefore = ClaimKey(p.before)
       /\ ~p.hardDelete =>
            /\ p.claimBefore = None
            /\ ClaimKey(p.after) = ClaimKey(p.before)

PlanShape == \A c \in Clients : Planned(c) => WellShaped(plan[c])

(* A planned change is stale or describes the stored record: the stored    *)
(* version never falls behind the one the plan was built from, and the     *)
(* same version is the same record.                                        *)
PlanFresh ==
  \A c \in Clients : Planned(c) /\ plan[c].kind # "create" =>
    /\ events[plan[c].id] > 0
    /\ Exists(plan[c].id) =>
         /\ plan[c].expected <= records[plan[c].id].version
         /\ plan[c].expected = records[plan[c].id].version =>
              plan[c].before = records[plan[c].id]

(* Every resource considered has optimistic concurrency.                   *)
VersionedResource == \A d \in Decorators : d.versioned

IInv ==
  /\ TypeOK
  /\ ClaimsExact
  /\ VersionCountsEvents
  /\ IdsFresh
  /\ PlanShape
  /\ PlanFresh

(* A planned change of status follows a declared transition of a live      *)
(* record.                                                                 *)
LegalChange(p) ==
  p.kind # "create" /\ p.after.status # p.before.status =>
    /\ ~p.before.deleted
    /\ \E t \in Transitions :
         p.before.status \in t.from /\ p.after.status = t.to

PlansLegal == \A c \in Clients : Planned(c) => LegalChange(plan[c])

(* A plan leaves its record live unless it deletes it, and then looks for  *)
(* dependents; a reference it stores is guarded, or is the one the live    *)
(* record had.                                                             *)
RefersSafely(p) ==
  /\ p.kind = "delete" => p.dependents /\ (p.hardDelete \/ p.after.deleted)
  /\ p.kind # "delete" => ~p.hardDelete /\ ~p.after.deleted
  /\ p.kind \notin {"delete", "restore"} =>
       \/ p.after.ref \in {None, p.id} \cup p.guards
       \/ p.kind # "create" /\ ~p.before.deleted /\ p.after.ref = p.before.ref

PlansReferSafely == \A c \in Clients : Planned(c) => RefersSafely(plan[c])

(* Only an idle caller that sent an Idempotency-Key holds a reply.         *)
RepliesHeld ==
  \A c \in Clients : reply[c] # None =>
    pc[c] = "idle" /\ request[c] # None /\ request[c].idem # None

ReceiptInv ==
  /\ TypeOK
  /\ OneCommitPerReceipt
  /\ RepliesHeld
  /\ RepliesAgree
=============================================================================
