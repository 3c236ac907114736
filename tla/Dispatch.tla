------------------------------ MODULE Dispatch ------------------------------
(***************************************************************************)
(* The outbox and its dispatchers.  A commit leaves pending outbox rows;   *)
(* Dispatcher.sweep leases rows, sends each to the subscriptions not yet   *)
(* served, records every success at once and settles the row as delivered  *)
(* or dead.  Sweeps run concurrently (cron and after each request), sweeps *)
(* of one Dispatcher share its owner name, and a sweep works with the row  *)
(* and the clock it read at its start.                                     *)
(*                                                                         *)
(* One tenant and one channel are modelled.  A lease is represented by     *)
(* leaseUntil minus the present time, a sweep's clock by the time since    *)
(* the sweep began.                                                        *)
(***************************************************************************)
EXTENDS Integers

CONSTANTS
  Sweeps,       \* sweeps that may be in flight at once
  Owners,       \* owner names of dispatchers
  OwnerOf,      \* [Sweeps -> Owners]
  Rows,         \* outbox rows
  Subs,         \* the channel's subscriptions
  LeaseMs,      \* duration of a lease
  MaxAttempts,  \* the dispatcher's maxAttempts
  MaxLag,       \* bound: longest time a sweep may run
  MaxCrashes,   \* bound: sweeps that die
  None          \* null

ASSUME DispatchAssumption ==
  /\ OwnerOf \in [Sweeps -> Owners]
  /\ LeaseMs \in Nat
  /\ MaxLag \in Nat
  /\ MaxAttempts \in Nat \ {0}
  /\ MaxCrashes \in Nat
  /\ None \notin Owners \cup Rows \cup Subs \cup Int

(* leaseUntil - now.  Below -MaxLag a lease has expired for every sweep in *)
(* flight, so smaller values need not be told apart.                       *)
LeaseLeft == (-(MaxLag + 1)) .. LeaseMs

(* An outbox row.  attempts is only compared with maxAttempts and stops    *)
(* counting there.                                                         *)
Row ==
  [status : {"absent", "pending", "delivered", "dead"}, attempts : 0 .. MaxAttempts,
   owner : Owners \cup {None}, lease : LeaseLeft \cup {None},
   delivered : SUBSET Subs]

VARIABLES
  rows,     \* [Rows -> Row], the outbox
  pc,       \* [Sweeps -> "idle", "sweeping", "sending", "progress"]
  sweep,    \* [Sweeps -> the sweep's local variables]
  sent,     \* history: [Rows -> SUBSET Subs], what the transport was given
  crashes   \* history: number of sweeps that died

vars == <<rows, pc, sweep, sent, crashes>>

(* A sweep's locals: rows still to visit, as it read them; the row in hand *)
(* and what it knows to be served (done), tried this time and failed; the  *)
(* time since it read the clock.                                           *)
Snapshot == [attempts : 0 .. MaxAttempts, delivered : SUBSET Subs]
Locals ==
  [todo : SUBSET Rows, read : [Rows -> Snapshot], row : Rows \cup {None},
   done : SUBSET Subs, failed : SUBSET Subs, sub : Subs \cup {None}, lag : 0 .. MaxLag]

AtRest ==
  [todo |-> {},
   read |-> [r \in Rows |-> [attempts |-> 0, delivered |-> {}]],
   row |-> None, done |-> {}, failed |-> {}, sub |-> None, lag |-> 0]

-----------------------------------------------------------------------------
(* The outbox operations of the storage adapter                            *)

(* Mutant: a lease never runs out.                                         *)
HeldForever(r, lag) == rows[r].lease # None

(* The lease has not expired by a clock read lag ago.                      *)
Held(r, lag) == rows[r].lease # None /\ rows[r].lease + lag >= 0

(* outboxSweep's and outboxClaim's condition on a row.                     *)
Available(r, lag) == rows[r].status = "pending" /\ ~Held(r, lag)

(* outboxClaim of an available row.                                        *)
Claimed(r, s) ==
  [rows[r] EXCEPT
     !.owner = OwnerOf[s],
     !.lease = LeaseMs - sweep[s].lag,
     !.attempts = IF @ < MaxAttempts THEN @ + 1 ELSE @]

(* outboxProgress goes through: the row is pending and leased to the       *)
(* sweep's owner, expired or not.                                          *)
MayProgress(r, s) ==
  rows[r].status = "pending" /\ rows[r].owner = OwnerOf[s]

(* Mutant: whatever failed, the row is settled as delivered.               *)
SettledAsDelivered(r, s) ==
  [rows[r] EXCEPT !.status = "delivered", !.owner = None, !.lease = None]

(* The final outboxProgress: done when nothing failed, dead when the       *)
(* attempts read at the start of the sweep were the last but one, else the *)
(* row keeps its lease until it expires.                                   *)
Settled(r, s) ==
  LET dead == sweep[s].read[r].attempts + 1 >= MaxAttempts
  IN IF sweep[s].failed = {}
     THEN [rows[r] EXCEPT !.status = "delivered", !.owner = None, !.lease = None]
     ELSE IF dead
     THEN [rows[r] EXCEPT !.status = "dead", !.owner = None, !.lease = None]
     ELSE rows[r]

-----------------------------------------------------------------------------
Init ==
  /\ rows = [r \in Rows |->
               [status |-> "absent", attempts |-> 0, owner |-> None,
                lease |-> None, delivered |-> {}]]
  /\ pc = [s \in Sweeps |-> "idle"]
  /\ sweep = [s \in Sweeps |-> AtRest]
  /\ sent = [r \in Rows |-> {}]
  /\ crashes = 0

(* A commit stores an outbox row.                                          *)
Publish(r) ==
  /\ rows[r].status = "absent"
  /\ rows' = [rows EXCEPT ![r].status = "pending"]
  /\ UNCHANGED <<pc, sweep, sent, crashes>>

(* A sweep begins: the clock and the available rows are read.  A sweep     *)
(* that finds none changes nothing.                                        *)
Start(s) ==
  LET found == {r \in Rows : Available(r, 0)}
  IN /\ pc[s] = "idle"
     /\ found # {}
     /\ pc' = [pc EXCEPT ![s] = "sweeping"]
     /\ sweep' = [sweep EXCEPT
          ![s].todo = found,
          ![s].read = [r \in Rows |->
             IF r \in found
             THEN [attempts |-> rows[r].attempts, delivered |-> rows[r].delivered]
             ELSE AtRest.read[r]]]
     /\ UNCHANGED <<rows, sent, crashes>>

(* The next row is claimed, judged by the clock of the sweep's start, or   *)
(* passed over because it no longer is available.                          *)
ClaimRow(s, r) ==
  /\ pc[s] = "sweeping"
  /\ r \in sweep[s].todo
  /\ IF Available(r, sweep[s].lag)
     THEN /\ rows' = [rows EXCEPT ![r] = Claimed(r, s)]
          /\ pc' = [pc EXCEPT ![s] = "sending"]
          /\ sweep' = [sweep EXCEPT ![s].todo = @ \ {r}, ![s].row = r,
                                    ![s].done = sweep[s].read[r].delivered]
     ELSE /\ sweep' = [sweep EXCEPT ![s].todo = @ \ {r}]
          /\ UNCHANGED <<rows, pc>>
  /\ UNCHANGED <<sent, crashes>>

(* The envelope is sent to a subscription not served yet.  A send that     *)
(* reports failure may have reached the queue.                             *)
Send(s, sub) ==
  /\ pc[s] = "sending"
  /\ sub \notin sweep[s].done \cup sweep[s].failed
  /\ \/ /\ sent' = [sent EXCEPT ![sweep[s].row] = @ \cup {sub}]
        /\ pc' = [pc EXCEPT ![s] = "progress"]
        /\ sweep' = [sweep EXCEPT ![s].sub = sub, ![s].done = @ \cup {sub}]
     \/ /\ sent' = [sent EXCEPT ![sweep[s].row] = @ \cup {sub}] \/ UNCHANGED sent
        /\ sweep' = [sweep EXCEPT ![s].failed = @ \cup {sub}]
        /\ UNCHANGED pc
  /\ UNCHANGED <<rows, crashes>>

(* The delivery is recorded, if the row is still leased to this owner.     *)
Progress(s) ==
  LET r == sweep[s].row
  IN /\ pc[s] = "progress"
     /\ rows' = IF MayProgress(r, s)
                THEN [rows EXCEPT ![r].delivered = @ \cup {sweep[s].sub}]
                ELSE rows
     /\ pc' = [pc EXCEPT ![s] = "sending"]
     /\ sweep' = [sweep EXCEPT ![s].sub = None]
     /\ UNCHANGED <<sent, crashes>>

(* Every subscription was served or failed: the row is settled, if it is   *)
(* still leased to this owner, and the sweep goes on to the next row.      *)
Settle(s) ==
  LET r == sweep[s].row
  IN /\ pc[s] = "sending"
     /\ sweep[s].done \cup sweep[s].failed = Subs
     /\ rows' = IF MayProgress(r, s) THEN [rows EXCEPT ![r] = Settled(r, s)] ELSE rows
     /\ pc' = [pc EXCEPT ![s] = "sweeping"]
     /\ sweep' = [sweep EXCEPT ![s].row = None, ![s].done = {}, ![s].failed = {}]
     /\ UNCHANGED <<sent, crashes>>

(* The sweep has visited every row it found.                               *)
Finish(s) ==
  /\ pc[s] = "sweeping"
  /\ sweep[s].todo = {}
  /\ pc' = [pc EXCEPT ![s] = "idle"]
  /\ sweep' = [sweep EXCEPT ![s] = AtRest]
  /\ UNCHANGED <<rows, sent, crashes>>

(* The process running the sweep dies; its lease stays.                    *)
Crash(s) ==
  /\ pc[s] # "idle"
  /\ crashes < MaxCrashes
  /\ crashes' = crashes + 1
  /\ pc' = [pc EXCEPT ![s] = "idle"]
  /\ sweep' = [sweep EXCEPT ![s] = AtRest]
  /\ UNCHANGED <<rows, sent>>

(* Mutant: a redriven row starts over.                                     *)
RedriveForgetting(r) ==
  /\ rows[r].status = "dead"
  /\ rows' = [rows EXCEPT ![r].status = "pending", ![r].attempts = 0,
                          ![r].delivered = {}]
  /\ UNCHANGED <<pc, sweep, sent, crashes>>

(* The operator redrives a dead row.                                       *)
Redrive(r) ==
  /\ rows[r].status = "dead"
  /\ rows' = [rows EXCEPT ![r].status = "pending", ![r].attempts = 0]
  /\ UNCHANGED <<pc, sweep, sent, crashes>>

(* Time passes, while no sweep is at the end of its running time.          *)
Tick ==
  LET floor == -(MaxLag + 1)
      run(l) == IF l = None \/ l = floor THEN l ELSE l - 1
  IN /\ \A s \in Sweeps : sweep[s].lag < MaxLag
     /\ rows' = [r \in Rows |-> [rows[r] EXCEPT !.lease = run(@)]]
     /\ sweep' = [s \in Sweeps |->
                    IF pc[s] = "idle" THEN sweep[s]
                    ELSE [sweep[s] EXCEPT !.lag = @ + 1]]
     /\ UNCHANGED <<pc, sent, crashes>>

(* What a sweep does of its own accord.                                    *)
Step(s) ==
  \/ \E r \in Rows : ClaimRow(s, r)
  \/ \E sub \in Subs : Send(s, sub)
  \/ Progress(s)
  \/ Settle(s)
  \/ Finish(s)

Next ==
  \/ \E r \in Rows : Publish(r) \/ Redrive(r)
  \/ \E s \in Sweeps : Start(s) \/ Step(s) \/ Crash(s)
  \/ Tick

Spec == Init /\ [][Next]_vars

(* Hosts start sweeps on a schedule, a running sweep goes on until it ends *)
(* or dies, and time passes.                                               *)
Fairness ==
  /\ \A s \in Sweeps : WF_vars(Start(s)) /\ WF_vars(Step(s))
  /\ WF_vars(Tick)

FairSpec == Spec /\ Fairness

-----------------------------------------------------------------------------
(* Properties                                                              *)

(* Every variable holds a value of its kind, and a sweep has a row in hand *)
(* exactly while it is sending it.                                         *)
TypeOK ==
  /\ rows \in [Rows -> Row]
  /\ pc \in [Sweeps -> {"idle", "sweeping", "sending", "progress"}]
  /\ sweep \in [Sweeps -> Locals]
  /\ sent \in [Rows -> SUBSET Subs]
  /\ crashes \in 0 .. MaxCrashes
  /\ \A s \in Sweeps :
       /\ pc[s] \in {"sending", "progress"} <=> sweep[s].row # None
       /\ pc[s] = "progress" <=> sweep[s].sub # None

(* At least once: a row is only settled as delivered after the transport   *)
(* was given it for every subscription, and a subscription is only         *)
(* recorded as served after it was, whichever sweeps shared the work, lost *)
(* their lease, died, or were undone by a redrive.                         *)
DeliveredEverywhere ==
  \A r \in Rows :
    /\ rows[r].delivered \subseteq sent[r]
    /\ rows[r].status = "delivered" => sent[r] = Subs

(* Settled work stays settled: recorded deliveries are never forgotten, a  *)
(* delivered row never changes, and a dead row only becomes pending.       *)
ProgressKept ==
  [][\A r \in Rows :
       /\ rows[r].delivered \subseteq rows'[r].delivered
       /\ rows[r].status = "delivered" => rows'[r] = rows[r]
       /\ rows[r].status = "dead" => rows'[r].status \in {"dead", "pending"}]_vars

(* Every published row is eventually delivered or dead: whatever fails and *)
(* whichever sweep dies, a lease left behind is taken over.                *)
EveryRowSettles ==
  \A r \in Rows :
    rows[r].status = "pending" ~> rows[r].status \in {"delivered", "dead"}

-----------------------------------------------------------------------------
(* The inductive invariant behind DeliveredEverywhere and ProgressKept     *)

(* What a sweep read or did is covered by what the transport was given.    *)
SweepsHonest ==
  \A s \in Sweeps :
    /\ \A r \in Rows : sweep[s].read[r].delivered \subseteq sent[r]
    /\ sweep[s].row # None => sweep[s].done \subseteq sent[sweep[s].row]
    /\ sweep[s].sub # None => sweep[s].sub \in sweep[s].done

(* A settled row is leased to nobody.                                      *)
SettledUnleased ==
  \A r \in Rows : rows[r].status = "delivered" => rows[r].lease = None

IInv ==
  /\ TypeOK
  /\ DeliveredEverywhere
  /\ SweepsHonest
  /\ SettledUnleased
=============================================================================
