----------------------------- MODULE Rollouts -------------------------------
(***************************************************************************)
(* The deployment ledger: one rollout document, its lease with a fencing   *)
(* token, and the controllers that take the lease in turn and work through *)
(* the steps.  A controller does one operation at a time, besides renewing *)
(* its lease; every operation loads the document, checks it, and writes it *)
(* back with a compare-and-swap on its version.                            *)
(*                                                                         *)
(* A version appears as the flag fresh of each controller: nobody wrote    *)
(* the document since it was loaded.  A fresh copy is the document, so no  *)
(* copy is kept.  Time appears as the flag lapsed: the lease's until has   *)
(* passed.  activateGrantOnce, rollback and complete read the clock once,  *)
(* at their call, so their later checks are of the token alone.            *)
(*                                                                         *)
(* LeaseProofs extends this module beside WorkQueue, hence the names with  *)
(* Rollout in them.                                                        *)
(***************************************************************************)
EXTENDS Naturals

CONSTANTS
  Controllers,  \* the controllers of the rollout
  NSteps,       \* the plan's steps, in their order
  NUnits,       \* what a step does between two checkpoints, so many times
  Grants,       \* the grants to activate
  MaxTokens,    \* bound: leases ever granted
  Null          \* null

ASSUME RolloutsAssumption ==
  /\ NSteps \in Nat /\ NUnits \in Nat /\ MaxTokens \in Nat
  /\ Null \notin Controllers

Steps == 1 .. NSteps
Units == 0 .. NUnits
Tokens == 0 .. MaxTokens

(* The lease names its controller and its fencing token; token 0 is none.  *)
Lease == [controller : Controllers \cup {Null}, token : Tokens]
NoLease == [controller |-> Null, token |-> 0]
Step == [status : {"pending", "running", "done", "failed"}, checkpoint : Units]
Document ==
  [steps : [Steps -> Step], lease : Lease, fence : Tokens,
   activated : [Grants -> Nat], state : {"open", "complete", "rolled-back"}]

(* The locals of a controller: the token it got, whether its load is still *)
(* current, the step in hand and the units of it done, the grant in hand.  *)
Locals ==
  [token : Tokens, fresh : BOOLEAN, step : Steps \cup {0}, unit : Units,
   grant : Grants \cup {Null}]

VARIABLES
  doc,      \* the rollout document
  lapsed,   \* the lease has expired
  pc,       \* [Controllers -> where the controller is]
  own       \* [Controllers -> Locals]

rolloutVars == <<doc, lapsed, pc, own>>

AtRest(token) == [token |-> token, fresh |-> FALSE, step |-> 0, unit |-> 0, grant |-> Null]

-----------------------------------------------------------------------------
(* open, by whoever came first: later ones return what they find.          *)
RolloutInit ==
  /\ doc = [steps |-> [s \in Steps |-> [status |-> "pending", checkpoint |-> 0]],
            lease |-> NoLease, fence |-> 0, activated |-> [g \in Grants |-> 0],
            state |-> "open"]
  /\ lapsed = FALSE
  /\ pc = [c \in Controllers |-> "idle"]
  /\ own = [c \in Controllers |-> AtRest(0)]

(* guard, the token: the lease is this controller's.                       *)
Holds(c) == own[c].token # 0 /\ doc.lease.token = own[c].token

(* load, going on with locals l.                                           *)
Load(c, l) == own' = [own EXCEPT ![c] = [l EXCEPT !.fresh = TRUE]]

(* Mutant: a write that compares no version.                               *)
PutBlindly(c, d, l) ==
  /\ doc' = d
  /\ own' = [x \in Controllers |-> [(IF x = c THEN l ELSE own[x]) EXCEPT !.fresh = FALSE]]

(* put: the write succeeds, going on with locals l, and every other load   *)
(* is out of date; or another write came between and it is refused.        *)
Put(c, d, l) ==
  IF own[c].fresh
  THEN /\ doc' = d
       /\ own' = [x \in Controllers |-> [(IF x = c THEN l ELSE own[x]) EXCEPT !.fresh = FALSE]]
  ELSE /\ own' = [own EXCEPT ![c] = AtRest(own[c].token)]
       /\ UNCHANGED doc

(* The controller goes on at label, or its operation ends with an error.   *)
Goto(c, label) == pc' = [pc EXCEPT ![c] = IF own[c].fresh THEN label ELSE "idle"]

(* The operation ends without a write.                                     *)
Abandon(c) ==
  /\ pc' = [pc EXCEPT ![c] = "idle"]
  /\ own' = [own EXCEPT ![c] = AtRest(own[c].token)]
  /\ UNCHANGED <<doc, lapsed>>

-----------------------------------------------------------------------------
(* acquire: the lease is free, expired or this controller's own.           *)
AcquireLoad(c) ==
  /\ pc[c] = "idle" /\ doc.fence < MaxTokens
  /\ doc.lease.token = 0 \/ lapsed \/ doc.lease.controller = c
  /\ Load(c, own[c])
  /\ pc' = [pc EXCEPT ![c] = "acquire"]
  /\ UNCHANGED <<doc, lapsed>>

(* Its write hands out the next token, unless the race is lost.            *)
AcquirePut(c) ==
  LET token == doc.fence + 1
  IN /\ pc[c] = "acquire"
     /\ Put(c, [doc EXCEPT !.fence = token, !.lease = [controller |-> c, token |-> token]],
            AtRest(token))
     /\ lapsed' = (lapsed /\ ~own[c].fresh)
     /\ pc' = [pc EXCEPT ![c] = "idle"]

(* renew, beside whatever the controller is doing: the load and the write  *)
(* in one, because a refused write changes nothing.  It makes the          *)
(* controller's own load out of date too, and revives an expired lease.    *)
Renew(c) ==
  /\ Holds(c) /\ doc.lease.controller = c
  /\ own' = [x \in Controllers |-> [own[x] EXCEPT !.fresh = FALSE]]
  /\ lapsed' = FALSE
  /\ UNCHANGED <<doc, pc>>

-----------------------------------------------------------------------------
(* Mutant: the steps before are not looked at.                             *)
ReadyAlways(s) == doc.steps[s].status # "done"

(* The step is not done and all before it are.                             *)
Ready(s) ==
  /\ doc.steps[s].status # "done"
  /\ \A p \in 1 .. (s - 1) : doc.steps[p].status = "done"

(* run: under the lease, a step that is ready; what the last controller    *)
(* checkpointed is where the action will start.                            *)
RunLoad(c, s) ==
  /\ pc[c] = "idle" /\ Holds(c) /\ ~lapsed /\ Ready(s)
  /\ Load(c, [own[c] EXCEPT !.step = s, !.unit = doc.steps[s].checkpoint])
  /\ pc' = [pc EXCEPT ![c] = "run"]
  /\ UNCHANGED <<doc, lapsed>>

RunPut(c) ==
  /\ pc[c] = "run"
  /\ Put(c, [doc EXCEPT !.steps[own[c].step].status = "running"], own[c])
  /\ Goto(c, "acting")
  /\ UNCHANGED <<lapsed>>

(* The action did one more unit and calls save, which loads the document   *)
(* and checks the lease: a stale controller has to stop.                   *)
SaveLoad(c) ==
  /\ pc[c] = "acting" /\ own[c].unit < NUnits
  /\ \/ /\ Holds(c) /\ ~lapsed
        /\ Load(c, own[c])
        /\ pc' = [pc EXCEPT ![c] = "save"]
        /\ UNCHANGED <<doc, lapsed>>
     \/ /\ ~Holds(c) \/ lapsed
        /\ Abandon(c)

(* The save is durable; refused, it throws inside the action, which may    *)
(* fail, or save again.                                                    *)
SavePut(c) ==
  LET saved == own[c].unit + 1
  IN /\ pc[c] = "save"
     /\ IF own[c].fresh
        THEN Put(c, [doc EXCEPT !.steps[own[c].step].checkpoint = saved],
                 [own[c] EXCEPT !.unit = saved])
        ELSE UNCHANGED <<doc, own>>
     /\ pc' = [pc EXCEPT ![c] = "acting"]
     /\ UNCHANGED <<lapsed>>

(* The action fails: the failure is recorded if the token is still the     *)
(* lease's, expired or not.                                                *)
FailLoad(c) ==
  /\ pc[c] = "acting"
  /\ \/ /\ Holds(c)
        /\ Load(c, own[c])
        /\ pc' = [pc EXCEPT ![c] = "fail"]
        /\ UNCHANGED <<doc, lapsed>>
     \/ ~Holds(c) /\ Abandon(c)

FailPut(c) ==
  /\ pc[c] = "fail"
  /\ Put(c, [doc EXCEPT !.steps[own[c].step].status = "failed"], AtRest(own[c].token))
  /\ pc' = [pc EXCEPT ![c] = "idle"]
  /\ UNCHANGED <<lapsed>>

(* The action returns: only the controller that still owns the rollout     *)
(* records it as done.                                                     *)
DoneLoad(c) ==
  /\ pc[c] = "acting" /\ own[c].unit = NUnits
  /\ \/ /\ Holds(c) /\ ~lapsed
        /\ Load(c, own[c])
        /\ pc' = [pc EXCEPT ![c] = "done"]
        /\ UNCHANGED <<doc, lapsed>>
     \/ /\ ~Holds(c) \/ lapsed
        /\ Abandon(c)

DonePut(c) ==
  /\ pc[c] = "done"
  /\ Put(c, [doc EXCEPT !.steps[own[c].step].status = "done"], AtRest(own[c].token))
  /\ pc' = [pc EXCEPT ![c] = "idle"]
  /\ UNCHANGED <<lapsed>>

-----------------------------------------------------------------------------
(* activateGrantOnce: a grant not recorded yet is activated ...            *)
ActivateLoad(c, g) ==
  /\ pc[c] = "idle" /\ Holds(c) /\ ~lapsed
  /\ doc.activated[g] = 0
  /\ own' = [own EXCEPT ![c].grant = g]
  /\ pc' = [pc EXCEPT ![c] = "activate"]
  /\ UNCHANGED <<doc, lapsed>>

(* ... or the activation fails (one of a rollback's as well) ...           *)
ActivateFails(c) == pc[c] \in {"activate", "rollback"} /\ Abandon(c)

(* Mutant: the lease is not checked again after the activation.            *)
ActivatedUnguarded(c) ==
  /\ pc[c] = "activate"
  /\ Load(c, own[c])
  /\ pc' = [pc EXCEPT ![c] = "record"]
  /\ UNCHANGED <<doc, lapsed>>

(* ... then the document is loaded again for the record ...                *)
Activated(c) ==
  /\ pc[c] = "activate"
  /\ \/ /\ Holds(c)
        /\ Load(c, own[c])
        /\ pc' = [pc EXCEPT ![c] = "record"]
        /\ UNCHANGED <<doc, lapsed>>
     \/ ~Holds(c) /\ Abandon(c)

(* ... to which the grant is appended.                                     *)
ActivatePut(c) ==
  /\ pc[c] = "record"
  /\ Put(c, [doc EXCEPT !.activated[own[c].grant] = @ + 1], AtRest(own[c].token))
  /\ pc' = [pc EXCEPT ![c] = "idle"]
  /\ UNCHANGED <<lapsed>>

(* rollback: under the lease, the grants that the authority does not       *)
(* report as revoked are activated again, which may fail ...               *)
RollbackLoad(c) ==
  /\ pc[c] = "idle" /\ Holds(c) /\ ~lapsed
  /\ pc' = [pc EXCEPT ![c] = "rollback"]
  /\ UNCHANGED <<doc, lapsed, own>>

(* ... and the outcome is recorded by the controller that still holds the  *)
(* lease.                                                                  *)
RolledLoad(c) ==
  /\ pc[c] = "rollback"
  /\ \/ /\ Holds(c)
        /\ Load(c, own[c])
        /\ pc' = [pc EXCEPT ![c] = "rolled"]
        /\ UNCHANGED <<doc, lapsed>>
     \/ ~Holds(c) /\ Abandon(c)

RolledPut(c) ==
  /\ pc[c] = "rolled"
  /\ Put(c, [doc EXCEPT !.state = "rolled-back"], AtRest(own[c].token))
  /\ pc' = [pc EXCEPT ![c] = "idle"]
  /\ UNCHANGED <<lapsed>>

(* complete: with every step done the lease is given up for good.          *)
CompleteLoad(c) ==
  /\ pc[c] = "idle" /\ Holds(c) /\ ~lapsed
  /\ \A s \in Steps : doc.steps[s].status = "done"
  /\ Load(c, own[c])
  /\ pc' = [pc EXCEPT ![c] = "complete"]
  /\ UNCHANGED <<doc, lapsed>>

CompletePut(c) ==
  /\ pc[c] = "complete"
  /\ Put(c, [doc EXCEPT !.state = "complete", !.lease = NoLease], AtRest(own[c].token))
  /\ pc' = [pc EXCEPT ![c] = "idle"]
  /\ UNCHANGED <<lapsed>>

-----------------------------------------------------------------------------
(* The controller's process dies; it comes back without a token.           *)
Crash(c) ==
  /\ own[c].token # 0
  /\ pc' = [pc EXCEPT ![c] = "idle"]
  /\ own' = [own EXCEPT ![c] = AtRest(0)]
  /\ UNCHANGED <<doc, lapsed>>

(* The lease runs out.                                                     *)
Expire ==
  /\ doc.lease.token # 0 /\ ~lapsed
  /\ lapsed' = TRUE
  /\ UNCHANGED <<doc, pc, own>>

RolloutNext ==
  \/ \E c \in Controllers :
       \/ AcquireLoad(c) \/ AcquirePut(c) \/ Renew(c)
       \/ \E s \in Steps : RunLoad(c, s)
       \/ RunPut(c) \/ SaveLoad(c) \/ SavePut(c) \/ FailLoad(c) \/ FailPut(c)
       \/ DoneLoad(c) \/ DonePut(c)
       \/ \E g \in Grants : ActivateLoad(c, g)
       \/ ActivateFails(c) \/ Activated(c) \/ ActivatePut(c)
       \/ RollbackLoad(c) \/ RolledLoad(c) \/ RolledPut(c)
       \/ CompleteLoad(c) \/ CompletePut(c) \/ Crash(c)
  \/ Expire

RolloutSpec == RolloutInit /\ [][RolloutNext]_rolloutVars

-----------------------------------------------------------------------------
(* Properties                                                              *)

Labels ==
  {"idle", "acquire", "run", "acting", "save", "fail", "done", "activate", "record",
   "rollback", "rolled", "complete"}

(* Every variable holds a value of its kind.                               *)
RolloutTypeOK ==
  /\ doc \in Document
  /\ lapsed \in BOOLEAN
  /\ pc \in [Controllers -> Labels]
  /\ own \in [Controllers -> Locals]

(* The plan's order: a step that was ever started has all steps before it  *)
(* done, and a complete rollout has all steps done, whichever controllers  *)
(* lost their lease in the middle of a step and went on writing.           *)
StepsInOrder ==
  /\ \A s \in Steps : doc.steps[s].status # "pending" =>
       \A p \in 1 .. (s - 1) : doc.steps[p].status = "done"
  /\ doc.state = "complete" => \A s \in Steps : doc.steps[s].status = "done"

(* Recorded work is kept: a done step never changes again, a checkpoint    *)
(* never goes back, a recorded grant stays recorded, and the steps change  *)
(* only while a lease is held that no later one has superseded.            *)
WorkKept ==
  [][/\ \A s \in Steps :
          /\ doc.steps[s].status = "done" => doc'.steps[s] = doc.steps[s]
          /\ doc'.steps[s].checkpoint >= doc.steps[s].checkpoint
     /\ \A g \in Grants : doc'.activated[g] >= doc.activated[g]
     /\ doc'.steps # doc.steps => doc.lease.token = doc.fence]_rolloutVars

(* The controller that holds the lease never repeats what the ledger has:  *)
(* it works from the last recorded checkpoint on a step not done, and it   *)
(* activates only a grant not recorded; no grant is recorded twice.  A     *)
(* crash or a lost lease between activation and record does repeat it.     *)
HolderKnows ==
  /\ \A c \in Controllers : Holds(c) =>
       /\ pc[c] \in {"acting", "save", "fail", "done"} =>
            /\ doc.steps[own[c].step].status = "running"
            /\ doc.steps[own[c].step].checkpoint = own[c].unit
       /\ pc[c] \in {"activate", "record"} => doc.activated[own[c].grant] = 0
  /\ \A g \in Grants : doc.activated[g] <= 1

=============================================================================
