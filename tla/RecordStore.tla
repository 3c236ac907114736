---------------------------- MODULE RecordStore ----------------------------
(***************************************************************************)
(* What the engine promises of a @versioned resource: a store on which     *)
(* requests take effect one at a time.  Whatever a caller read before, a   *)
(* request that succeeds does in one step what it asks for on the record   *)
(* as it is stored at that moment, with every rule of the resource judged  *)
(* on the records themselves; and a request with an Idempotency-Key leaves *)
(* its answer behind and is not served a second time.  There are no plans, *)
(* no claims and no guards here.                                           *)
(***************************************************************************)
EXTENDS Naturals

CONSTANTS
  Ids, IdemKeys,
  Initial, Transitions,  \* the lifecycle
  ClaimedIn,             \* states in which the unique's condition holds
  MutationOps, Requests, \* what callers send
  None, Self

VARIABLES
  soft,     \* whether the resource is @softDelete
  db,       \* [Ids -> the record, or None]
  answers   \* [MutationOps \X IdemKeys -> what was asked and answered, or None]

storeVars == <<soft, db, answers>>

Stored(id) == db[id] # None
IsLive(id) == Stored(id) /\ ~db[id].deleted

Holds(rec) == IF rec.status \in ClaimedIn THEN rec.key ELSE None

(* No other record, deleted ones included, holds the key of rec.           *)
KeyFree(id, rec) ==
  Holds(rec) # None => \A x \in Ids \ {id} : Stored(x) => Holds(db[x]) # Holds(rec)

(* The record may refer to ref: nothing, itself or a live record.          *)
MayRefer(id, ref) == ref \in Ids /\ ref # id => IsLive(ref)

(* The record is there in the version that the caller has seen.            *)
Expected(req) == Stored(req.id) /\ db[req.id].version = req.expected

(* The request leaves rec at id and is answered with the record shown.     *)
Serve(req, id, rec, shown) ==
  /\ db' = [db EXCEPT ![id] = rec]
  /\ IF req.idem = None
     THEN UNCHANGED answers
     ELSE /\ answers[<<req.op, req.idem>>] = None
          /\ answers' = [answers EXCEPT ![<<req.op, req.idem>>] =
                           [hash |-> req, response |-> [id |-> id, rec |-> shown]]]
  /\ UNCHANGED soft

(* The request leaves the record changed to rec, a version later.          *)
Change(req, rec) ==
  LET new == [rec EXCEPT !.version = @ + 1]
  IN Serve(req, req.id, new, new)

Create(req, id) ==
  LET ref == IF req.ref = Self THEN id ELSE req.ref
      rec == [key |-> req.key, ref |-> ref, status |-> Initial, deleted |-> FALSE, version |-> 1]
  IN /\ req.op = "create"
     /\ ~Stored(id)
     /\ MayRefer(id, ref)
     /\ KeyFree(id, rec)
     /\ Serve(req, id, rec, rec)

(* A reference that is not part of the request stays, whatever became of   *)
(* the record it names.                                                    *)
Update(req) ==
  LET rec == [db[req.id] EXCEPT !.key = IF "key" \in req.changed THEN req.key ELSE @,
                                !.ref = IF "ref" \in req.changed THEN req.ref ELSE @]
  IN /\ req.op = "update"
     /\ Expected(req) /\ IsLive(req.id)
     /\ "ref" \in req.changed => MayRefer(req.id, req.ref)
     /\ KeyFree(req.id, rec)
     /\ Change(req, rec)

Delete(req) ==
  /\ req.op = "delete"
  /\ Expected(req) /\ IsLive(req.id)
  /\ \A x \in Ids : IsLive(x) => db[x].ref # req.id
  /\ IF soft
     THEN Change(req, [db[req.id] EXCEPT !.deleted = TRUE])
     ELSE Serve(req, req.id, None, db[req.id])

Restore(req) ==
  /\ req.op = "restore"
  /\ soft /\ Expected(req) /\ ~IsLive(req.id)
  /\ Change(req, [db[req.id] EXCEPT !.deleted = FALSE])

Transition(req) ==
  LET rec == [db[req.id] EXCEPT !.status = req.to]
  IN /\ req.op = "transition"
     /\ Expected(req) /\ IsLive(req.id)
     /\ \E t \in Transitions : db[req.id].status \in t.from /\ req.to = t.to
     /\ KeyFree(req.id, rec)
     /\ Change(req, rec)

Init ==
  /\ soft \in BOOLEAN
  /\ db = [id \in Ids |-> None]
  /\ answers = [k \in MutationOps \X IdemKeys |-> None]

(* No request is served without a trace: a record comes, goes or gets      *)
(* another version.                                                        *)
Next ==
  /\ db' # db
  /\ \E req \in Requests :
       \/ \E id \in Ids : Create(req, id)
       \/ Update(req) \/ Delete(req) \/ Restore(req) \/ Transition(req)

Spec == Init /\ [][Next]_storeVars

=============================================================================
