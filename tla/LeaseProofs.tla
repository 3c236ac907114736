---------------------------- MODULE LeaseProofs ----------------------------
(***************************************************************************)
(* Proofs about the two components that give out leases: WorkQueue, for    *)
(* every set of tasks and runners, every lease, every number of attempts   *)
(* and every lag of the clock; and below it Rollouts, whose leases carry   *)
(* fencing tokens, for any number of controllers, steps, units and grants. *)
(***************************************************************************)
EXTENDS WorkQueue, Rollouts, TLAPS

(* A lease runs from the write that gave it, so the time the board has not *)
(* been written is gone from it: a heartbeat that judges the board by an   *)
(* old clock never shortens it.                                            *)
LeaseBound ==
  \A t \in Tasks : task[t].lease # None => task[t].lease <= LeaseMs - quiet

(* A task that is not in the queue yet was never tried.                    *)
AbsentUntried ==
  \A t \in Tasks : task[t].status = "absent" => task[t].attempts = 0

IInv == TypeOK /\ AttemptsLeft /\ AbsentUntried /\ LeaseBound /\ BeliefIsTrue

-----------------------------------------------------------------------------
(* What an entry of evidence leaves alone.                                 *)
LEMMA WitnessFields ==
  ASSUME NEW t \in Task, NEW kind \in Kinds
  PROVE  LET w == Witness(t, kind)
         IN /\ w \in Task
            /\ w.status = t.status /\ w.generation = t.generation /\ w.attempts = t.attempts
            /\ w.runner = t.runner /\ w.lease = t.lease
            /\ w.history = Append(t.history, [kind |-> kind, generation |-> t.generation,
                                              runner |-> t.runner])
  <1>1. [kind |-> kind, generation |-> t.generation, runner |-> t.runner] \in Evidence
    BY DEF Task, Evidence
  <1>2. Append(t.history, [kind |-> kind, generation |-> t.generation, runner |-> t.runner])
          \in Seq(Evidence)
    BY <1>1 DEF Task
  <1> QED
    BY <1>2 DEF Task, Witness

(* What giving a task back does to it.                                     *)
LEMMA RequeuedFields ==
  ASSUME NEW t \in Task, NEW kind \in {"retry", "lease-expired"}
  PROVE  LET q == Requeued(t, kind)
         IN /\ q \in Task
            /\ q.status = IF t.attempts >= MaxAttempts THEN "failed" ELSE "queued"
            /\ q.generation = t.generation /\ q.attempts = t.attempts
            /\ q.runner = t.runner /\ q.lease = None
            /\ q.history = Append(t.history,
                 [kind |-> IF t.attempts >= MaxAttempts THEN "exhausted" ELSE kind,
                  generation |-> t.generation, runner |-> t.runner])
  <1>1. ASSUME NEW st \in {"failed", "queued"}, NEW k \in {"exhausted", "retry", "lease-expired"}
        PROVE  LET u == [t EXCEPT !.status = st, !.lease = None]
                   w == Witness(u, k)
               IN /\ w \in Task /\ w.status = st
                  /\ w.generation = t.generation /\ w.attempts = t.attempts
                  /\ w.runner = t.runner /\ w.lease = None
                  /\ w.history = Append(t.history, [kind |-> k, generation |-> t.generation,
                                                    runner |-> t.runner])
    <2> DEFINE u == [t EXCEPT !.status = st, !.lease = None]
    <2>1. /\ u \in Task /\ u.status = st /\ u.generation = t.generation
          /\ u.attempts = t.attempts /\ u.runner = t.runner /\ u.lease = None
          /\ u.history = t.history
      BY DEF Task, Terminal, Active
    <2>2. k \in Kinds
      BY DEF Kinds
    <2> HIDE DEF u
    <2>3. /\ Witness(u, k) \in Task
          /\ Witness(u, k).status = st
      BY <2>1, <2>2, WitnessFields
    <2>4. /\ Witness(u, k).generation = t.generation
          /\ Witness(u, k).attempts = t.attempts
          /\ Witness(u, k).runner = t.runner
          /\ Witness(u, k).lease = None
      BY <2>1, <2>2, WitnessFields
    <2>5. Witness(u, k).history = Append(t.history, [kind |-> k, generation |-> t.generation,
                                                    runner |-> t.runner])
      BY <2>1, <2>2, WitnessFields
    <2> QED
      BY <2>3, <2>4, <2>5 DEF u
  <1>2. CASE t.attempts >= MaxAttempts
    BY <1>1, <1>2 DEF Requeued
  <1>3. CASE ~(t.attempts >= MaxAttempts)
    BY <1>1, <1>3 DEF Requeued
  <1> QED
    BY <1>2, <1>3

(* A clock read at most quiet ago gives a lease within its bounds.         *)
LEMMA FreshLease ==
  ASSUME quiet \in 0 .. MaxLag, NEW lag \in Lags
  PROVE  LeaseMs - lag \in Left /\ lag \in Nat /\ LeaseMs - lag <= LeaseMs
  BY WorkQueueAssumption DEF Lags, Left

-----------------------------------------------------------------------------
(* The board's part of a step that changes one task, writes the board, and *)
(* keeps or forgets beliefs in it.                                         *)
LEMMA OneTask ==
  ASSUME IInv, NEW t \in Tasks, NEW new \in Task,
         task' = [task EXCEPT ![t] = new], quiet' = 0,
         runner' \in [Runners -> Runner \cup {None}],
         hand' \in [Tasks -> [Generations -> Claim \cup {None}]],
         \A u \in Tasks \ {t} : hand'[u] = hand[u],
         (new.lease # None) <=> (new.status \in Active),
         new.generation = new.attempts,
         new.status = "queued" => new.attempts < MaxAttempts,
         new.status # "absent",
         \A g \in Generations :
           hand'[t][g] # None /\ hand'[t][g].left > 0 /\ new.status # "cancelled" =>
             /\ new.status \in Active
             /\ new.generation = g
             /\ new.runner = hand'[t][g].runner
             /\ new.lease >= hand'[t][g].left
  PROVE  IInv'
  <1> USE WorkQueueAssumption
  <1>0. task \in [Tasks -> Task] /\ quiet \in 0 .. MaxLag
    BY DEF IInv, TypeOK
  <1>1. task'[t] = new /\ \A u \in Tasks \ {t} : task'[u] = task[u]
    BY <1>0
  <1>2. TypeOK'
    BY <1>0, <1>1 DEF IInv, TypeOK
  <1>3. AttemptsLeft' /\ AbsentUntried'
    BY <1>1 DEF IInv, AttemptsLeft, AbsentUntried
  <1>4. LeaseBound'
    <2> SUFFICES ASSUME NEW u \in Tasks, task'[u].lease # None
                 PROVE  task'[u].lease <= LeaseMs
      BY DEF LeaseBound
    <2>1. task'[u].lease \in Left
      BY <1>2 DEF TypeOK, Task
    <2> QED
      BY <2>1 DEF Left
  <1>5. BeliefIsTrue'
    <2> SUFFICES ASSUME NEW u \in Tasks, NEW g \in Generations,
                        hand'[u][g] # None, hand'[u][g].left > 0,
                        task'[u].status # "cancelled"
                 PROVE  /\ task'[u].status \in Active
                        /\ task'[u].generation = g
                        /\ task'[u].runner = hand'[u][g].runner
                        /\ task'[u].lease >= hand'[u][g].left
      BY DEF BeliefIsTrue
    <2>1. CASE u = t
      BY <2>1, <1>1
    <2>2. CASE u # t
      BY <2>2, <1>1 DEF IInv, BeliefIsTrue
    <2> QED
      BY <2>1, <2>2
  <1> QED
    BY <1>2, <1>3, <1>4, <1>5 DEF IInv

(* A callback that is let through comes from the holder of the task, and   *)
(* no other generation of the task is still believed in.                   *)
LEMMA FencedHolder ==
  ASSUME IInv, NEW t \in Tasks, NEW g \in Generations, NEW lag \in Lags,
         hand[t][g] # None, Fenced(t, hand[t][g].runner, g, lag)
  PROVE  /\ task[t] \in Task /\ task[t].status \in Active /\ task[t].generation = g
         /\ task[t].lease \in Left /\ task[t].lease <= LeaseMs - lag
         /\ hand[t][g] \in Claim
         /\ \A f \in Generations \ {g} : hand[t][f] # None => ~(hand[t][f].left > 0)
  <1>1. task[t] \in Task /\ task[t].status \in Active /\ task[t].generation = g
    BY DEF IInv, TypeOK, Fenced
  <1>2. task[t].lease # None /\ task[t].lease \in Left
    BY <1>1 DEF IInv, TypeOK, Task
  <1>3. task[t].lease <= LeaseMs - quiet
    BY <1>2 DEF IInv, LeaseBound
  <1>4. task[t].lease <= LeaseMs - lag
    BY <1>2, <1>3, WorkQueueAssumption DEF IInv, TypeOK, Lags, Left
  <1>5. \A f \in Generations \ {g} : hand[t][f] # None => ~(hand[t][f].left > 0)
    BY <1>1 DEF IInv, BeliefIsTrue, Active
  <1>6. hand[t][g] \in Claim
    BY DEF IInv, TypeOK
  <1> QED
    BY <1>1, <1>2, <1>4, <1>5, <1>6

-----------------------------------------------------------------------------
(* One lemma per operation.                                                *)
LEMMA EnqueueStep ==
  ASSUME IInv, NEW t \in Tasks, Enqueue(t)
  PROVE  IInv'
  <1> DEFINE u == [task[t] EXCEPT !.status = "queued"]
             new == Witness(u, "enqueued")
  <1>1. /\ task[t] \in Task /\ task[t].status = "absent" /\ task[t].lease = None
        /\ task[t].attempts = 0 /\ task[t].generation = 0
    BY DEF IInv, TypeOK, Enqueue, Active, AttemptsLeft, AbsentUntried
  <1>2. u \in Task /\ u.status = "queued" /\ u.lease = None /\ u.attempts = 0 /\ u.generation = 0
    BY <1>1 DEF Task
  <1>3. "enqueued" \in Kinds
    BY DEF Kinds
  <1>4. task' = [task EXCEPT ![t] = new] /\ quiet' = 0 /\ UNCHANGED <<runner, hand>>
    BY DEF Enqueue
  <1> HIDE DEF u
  <1>5. /\ new \in Task /\ new.status = "queued" /\ new.lease = None
        /\ new.attempts = 0 /\ new.generation = 0
    BY <1>2, <1>3, WitnessFields
  <1>6. \A g \in Generations : hand[t][g] # None => ~(hand[t][g].left > 0)
    BY <1>1 DEF IInv, BeliefIsTrue, Active
  <1>7. /\ runner' \in [Runners -> Runner \cup {None}]
        /\ hand' \in [Tasks -> [Generations -> Claim \cup {None}]]
    BY <1>4 DEF IInv, TypeOK
  <1> HIDE DEF new
  <1>8. /\ (new.lease # None) <=> (new.status \in Active)
        /\ new.generation = new.attempts
        /\ new.status = "queued" => new.attempts < MaxAttempts
        /\ new.status # "absent"
    BY <1>5, WorkQueueAssumption DEF Active
  <1>9. \A g \in Generations : hand'[t][g] # None => ~(hand'[t][g].left > 0)
    BY <1>4, <1>6
  <1> QED
    BY <1>4, <1>5, <1>7, <1>8, <1>9, OneTask

LEMMA CancelStep ==
  ASSUME IInv, NEW t \in Tasks, Cancel(t)
  PROVE  IInv'
  <1> DEFINE u == [task[t] EXCEPT !.status = "cancelled", !.lease = None]
             new == Witness(u, "cancelled")
  <1>1. task[t] \in Task /\ task[t].generation = task[t].attempts
    BY DEF IInv, TypeOK, AttemptsLeft
  <1>2. /\ u \in Task /\ u.status = "cancelled" /\ u.lease = None
        /\ u.attempts = u.generation
    BY <1>1 DEF Task, Terminal
  <1>3. "cancelled" \in Kinds
    BY DEF Kinds
  <1>4. task' = [task EXCEPT ![t] = new] /\ quiet' = 0 /\ UNCHANGED <<runner, hand>>
    BY DEF Cancel
  <1> HIDE DEF u
  <1>5. /\ new \in Task /\ new.status = "cancelled" /\ new.lease = None
        /\ new.attempts = new.generation
    BY <1>2, <1>3, WitnessFields
  <1>7. /\ runner' \in [Runners -> Runner \cup {None}]
        /\ hand' \in [Tasks -> [Generations -> Claim \cup {None}]]
    BY <1>4 DEF IInv, TypeOK
  <1> HIDE DEF new
  <1> QED
    BY <1>4, <1>5, <1>7, OneTask DEF Active

(* No claim of a queued task is believed in, so the next one is alone.     *)
LEMMA ClaimNextStep ==
  ASSUME IInv, NEW r \in Runners, NEW t \in Tasks, NEW lag \in Lags, ClaimNext(r, t, lag)
  PROVE  IInv'
  <1> DEFINE g == task[t].generation + 1
             left == LeaseMs - lag
             u == [task[t] EXCEPT !.status = "claimed", !.runner = r, !.generation = g,
                                  !.attempts = @ + 1, !.lease = left]
             new == Witness(u, "claimed")
             told == [hand EXCEPT ![t][g] = [runner |-> r, left |-> left]]
  <1>1. /\ task[t] \in Task /\ task[t].status = "queued"
        /\ task[t].generation = task[t].attempts /\ task[t].attempts < MaxAttempts
        /\ task[t].generation \in 0 .. MaxAttempts
    BY DEF IInv, TypeOK, AttemptsLeft, ClaimNext, Candidates, Task
  <1>2. left \in Left /\ left # None
    BY FreshLease, WorkQueueAssumption DEF IInv, TypeOK, Left
  <1>3. g \in Generations /\ g \in 0 .. MaxAttempts
    BY <1>1, WorkQueueAssumption DEF Generations
  <1>4. /\ task' = [task EXCEPT ![t] = new] /\ quiet' = 0 /\ UNCHANGED runner
        /\ hand' = told \/ hand' = hand
    BY DEF ClaimNext
  <1>5. /\ u \in Task /\ u.status = "claimed" /\ u.lease = left /\ u.runner = r
        /\ u.attempts = g /\ u.generation = g
    BY <1>1, <1>2, <1>3 DEF Task, Active
  <1>6. "claimed" \in Kinds
    BY DEF Kinds
  <1> HIDE DEF u
  <1>7. /\ new \in Task /\ new.status = "claimed" /\ new.lease = left /\ new.runner = r
        /\ new.attempts = g /\ new.generation = g
    BY <1>5, <1>6, WitnessFields
  <1> HIDE DEF new, left
  <1>8. \A f \in Generations : hand[t][f] # None => ~(hand[t][f].left > 0)
    BY <1>1 DEF IInv, BeliefIsTrue, Active
  <1>9. /\ [runner |-> r, left |-> left] \in Claim
        /\ hand \in [Tasks -> [Generations -> Claim \cup {None}]]
        /\ runner' \in [Runners -> Runner \cup {None}]
    BY <1>2, <1>4 DEF Claim, IInv, TypeOK
  <1> HIDE DEF g
  <1>10. told \in [Tasks -> [Generations -> Claim \cup {None}]]
    BY <1>3, <1>9
  <1>11. told[t][g] = [runner |-> r, left |-> left]
    BY <1>3, <1>9
  <1>12. \A f \in Generations \ {g} : told[t][f] = hand[t][f]
    BY <1>9
  <1>13. \A v \in Tasks \ {t} : told[v] = hand[v]
    BY <1>9
  <1> HIDE DEF told
  <1>14. /\ hand' \in [Tasks -> [Generations -> Claim \cup {None}]]
         /\ \A v \in Tasks \ {t} : hand'[v] = hand[v]
    BY <1>4, <1>9, <1>10, <1>13
  <1>15. \A f \in Generations :
           hand'[t][f] # None /\ hand'[t][f].left > 0 =>
             /\ new.generation = f /\ new.runner = hand'[t][f].runner
             /\ new.lease = hand'[t][f].left
    <2>1. CASE hand' = hand
      BY <2>1, <1>8
    <2>2. CASE hand' = told
      BY <2>2, <1>7, <1>8, <1>11, <1>12
    <2> QED
      BY <2>1, <2>2, <1>4
  <1>16. new.lease # None /\ new.lease \in Int
    BY <1>2, <1>7 DEF Left
  <1>17. \A f \in Generations :
           hand'[t][f] # None /\ hand'[t][f].left > 0 /\ new.status # "cancelled" =>
             /\ new.status \in Active /\ new.generation = f
             /\ new.runner = hand'[t][f].runner /\ new.lease >= hand'[t][f].left
    BY <1>7, <1>15, <1>16 DEF Active
  <1>18. /\ (new.lease # None) <=> (new.status \in Active)
         /\ new.generation = new.attempts
         /\ new.status = "queued" => new.attempts < MaxAttempts
         /\ new.status # "absent"
    BY <1>7, <1>16 DEF Active
  <1> QED
    BY <1>4, <1>7, <1>9, <1>14, <1>17, <1>18, OneTask

LEMMA StartStep ==
  ASSUME IInv, NEW t \in Tasks, NEW g \in Generations, NEW lag \in Lags, Start(t, g, lag)
  PROVE  IInv'
  <1> DEFINE u == [task[t] EXCEPT !.status = "running"]
             new == IF task[t].status = "claimed" THEN Witness(u, "started") ELSE task[t]
  <1>1. hand[t][g] # None /\ Fenced(t, hand[t][g].runner, g, lag)
    BY DEF Start
  <1>2. /\ task[t] \in Task /\ task[t].status \in Active /\ task[t].generation = g
        /\ task[t].generation = task[t].attempts
        /\ task[t].lease \in Left
    BY <1>1, FencedHolder DEF IInv, AttemptsLeft
  <1>3. /\ u \in Task /\ u.status = "running" /\ u.lease = task[t].lease /\ u.runner = task[t].runner
        /\ u.attempts = task[t].attempts /\ u.generation = task[t].generation
    BY <1>2 DEF Task, Active
  <1>4. "started" \in Kinds
    BY DEF Kinds
  <1>5. task' = [task EXCEPT ![t] = new] /\ quiet' = 0 /\ UNCHANGED <<runner, hand>>
    BY DEF Start
  <1> HIDE DEF u
  <1>6. /\ new \in Task /\ new.status \in Active /\ new.lease = task[t].lease
        /\ new.runner = task[t].runner
        /\ new.attempts = task[t].attempts /\ new.generation = task[t].generation
    <2>1. CASE task[t].status = "claimed"
      BY <2>1, <1>3, <1>4, WitnessFields DEF Active
    <2>2. CASE task[t].status # "claimed"
      BY <2>2, <1>2
    <2> QED
      BY <2>1, <2>2
  <1>7. /\ runner' \in [Runners -> Runner \cup {None}]
        /\ hand' \in [Tasks -> [Generations -> Claim \cup {None}]]
    BY <1>5 DEF IInv, TypeOK
  <1> HIDE DEF new
  <1>8. /\ (new.lease # None) <=> (new.status \in Active)
        /\ new.generation = new.attempts
        /\ new.status = "queued" => new.attempts < MaxAttempts
        /\ new.status # "absent"
    BY <1>2, <1>6, WorkQueueAssumption DEF Active, Left
  <1>9. \A f \in Generations : hand'[t][f] # None /\ hand'[t][f].left > 0 =>
          /\ new.status \in Active /\ new.generation = f
          /\ new.runner = hand'[t][f].runner /\ new.lease >= hand'[t][f].left
    <2>1. task[t].status # "cancelled"
      BY <1>2 DEF Active
    <2> QED
      BY <2>1, <1>5, <1>6 DEF IInv, BeliefIsTrue
  <1> QED
    BY <1>5, <1>6, <1>7, <1>8, <1>9, OneTask

(* A heartbeat never shortens the lease, nor what its runner believes.     *)
LEMMA HeartbeatStep ==
  ASSUME IInv, NEW t \in Tasks, NEW g \in Generations, NEW lag \in Lags, Heartbeat(t, g, lag)
  PROVE  IInv'
  <1> DEFINE left == LeaseMs - lag
             new == [task[t] EXCEPT !.lease = left]
             told == [hand EXCEPT ![t][g].left = left]
             r == hand[t][g].runner
  <1>1. hand[t][g] # None /\ Fenced(t, r, g, lag)
    BY DEF Heartbeat
  <1>2. /\ task[t] \in Task /\ task[t].status \in Active /\ task[t].generation = g
        /\ task[t].generation = task[t].attempts
        /\ task[t].lease \in Left /\ task[t].lease <= left
        /\ hand[t][g] \in Claim /\ task[t].runner = r
        /\ \A f \in Generations \ {g} : hand[t][f] # None => ~(hand[t][f].left > 0)
    BY <1>1, FencedHolder DEF IInv, AttemptsLeft, Fenced
  <1>3. left \in Left /\ left # None /\ left \in Int
    BY FreshLease, WorkQueueAssumption DEF IInv, TypeOK, Left
  <1>4. /\ task' = [task EXCEPT ![t] = new] /\ quiet' = 0
        /\ runner' = IF runner[r] = None THEN runner ELSE [runner EXCEPT ![r].seen = left]
        /\ hand' = told \/ hand' = hand
    BY DEF Heartbeat, IInv, TypeOK
  <1>5. /\ new \in Task /\ new.status = task[t].status /\ new.lease = left
        /\ new.runner = r /\ new.attempts = g /\ new.generation = g
    BY <1>2, <1>3 DEF Task
  <1> HIDE DEF new, left
  <1>6. runner' \in [Runners -> Runner \cup {None}]
    <2>1. r \in Runners /\ runner \in [Runners -> Runner \cup {None}]
      BY <1>2 DEF Claim, IInv, TypeOK
    <2>2. CASE runner[r] = None
      BY <2>1, <2>2, <1>4
    <2>3. CASE runner[r] # None
      <3>1. [runner[r] EXCEPT !.seen = left] \in Runner
        BY <2>1, <2>3, <1>3 DEF Runner
      <3> QED
        BY <2>1, <2>3, <3>1, <1>4
    <2> QED
      BY <2>2, <2>3
  <1>7. hand \in [Tasks -> [Generations -> Claim \cup {None}]]
    BY DEF IInv, TypeOK
  <1>8. /\ told[t][g] = [hand[t][g] EXCEPT !.left = left]
        /\ \A f \in Generations \ {g} : told[t][f] = hand[t][f]
        /\ \A v \in Tasks \ {t} : told[v] = hand[v]
    BY <1>7
  <1>9. /\ told[t][g] \in Claim /\ told[t][g].left = left /\ told[t][g].runner = r
    BY <1>2, <1>3, <1>8 DEF Claim
  <1>10. told \in [Tasks -> [Generations -> Claim \cup {None}]]
    BY <1>2, <1>3, <1>7 DEF Claim
  <1> HIDE DEF told
  <1>11. /\ hand' \in [Tasks -> [Generations -> Claim \cup {None}]]
         /\ \A v \in Tasks \ {t} : hand'[v] = hand[v]
    BY <1>4, <1>7, <1>8, <1>10
  <1>12. \A f \in Generations : hand'[t][f] # None /\ hand'[t][f].left > 0 =>
           /\ f = g /\ hand'[t][f].runner = r /\ left >= hand'[t][f].left
    <2>1. CASE hand' = hand
      <3>1. hand[t][g].left > 0 => left >= hand[t][g].left
        <4>1. task[t].status # "cancelled"
          BY <1>2 DEF Active
        <4>2. hand[t][g].left > 0 => task[t].lease >= hand[t][g].left
          BY <4>1, <1>1 DEF IInv, BeliefIsTrue
        <4> QED
          BY <4>2, <1>2, <1>3 DEF Claim, Left
      <3> QED
        BY <2>1, <3>1, <1>2
    <2>2. CASE hand' = told
      BY <2>2, <1>2, <1>3, <1>8, <1>9
    <2> QED
      BY <2>1, <2>2, <1>4
  <1>13. \A f \in Generations : hand'[t][f] # None /\ hand'[t][f].left > 0 =>
           /\ new.status \in Active /\ new.generation = f
           /\ new.runner = hand'[t][f].runner /\ new.lease >= hand'[t][f].left
    BY <1>2, <1>5, <1>12
  <1>14. /\ (new.lease # None) <=> (new.status \in Active)
         /\ new.generation = new.attempts
         /\ new.status = "queued" => new.attempts < MaxAttempts
         /\ new.status # "absent"
    BY <1>2, <1>3, <1>5 DEF Active
  <1>15. task' = [task EXCEPT ![t] = new] /\ quiet' = 0
    BY <1>4
  <1> HIDE DEF r
  <1> QED
    BY <1>5, <1>6, <1>11, <1>13, <1>14, <1>15, OneTask

(* The holder gives its claim up, with the task completed or given back.   *)
LEMMA GiveUp ==
  ASSUME IInv, NEW t \in Tasks, NEW g \in Generations, NEW lag \in Lags,
         hand[t][g] # None, Fenced(t, hand[t][g].runner, g, lag),
         NEW new \in Task, task' = [task EXCEPT ![t] = new],
         hand' = [hand EXCEPT ![t][g] = None], quiet' = 0, UNCHANGED runner,
         new.status \notin Active \cup {"absent"}, new.lease = None,
         new.generation = new.attempts, new.status = "queued" => new.attempts < MaxAttempts
  PROVE  IInv'
  <1>1. /\ hand \in [Tasks -> [Generations -> Claim \cup {None}]]
        /\ runner' \in [Runners -> Runner \cup {None}]
    BY DEF IInv, TypeOK
  <1>2. \A f \in Generations \ {g} : hand[t][f] # None => ~(hand[t][f].left > 0)
    BY FencedHolder
  <1>3. /\ hand'[t][g] = None
        /\ \A f \in Generations \ {g} : hand'[t][f] = hand[t][f]
        /\ \A v \in Tasks \ {t} : hand'[v] = hand[v]
    BY <1>1
  <1>4. hand' \in [Tasks -> [Generations -> Claim \cup {None}]]
    BY <1>1
  <1>5. \A f \in Generations : hand'[t][f] # None => ~(hand'[t][f].left > 0)
    BY <1>2, <1>3
  <1> QED
    BY <1>1, <1>3, <1>4, <1>5, OneTask

LEMMA CompleteStep ==
  ASSUME IInv, NEW t \in Tasks, NEW g \in Generations, NEW lag \in Lags, Complete(t, g, lag)
  PROVE  IInv'
  <1> DEFINE u == [task[t] EXCEPT !.status = "completed", !.lease = None]
             new == Witness(u, "completed")
  <1>1. task[t] \in Task /\ task[t].generation = task[t].attempts
    BY DEF IInv, TypeOK, AttemptsLeft
  <1>2. u \in Task /\ u.status = "completed" /\ u.lease = None /\ u.attempts = u.generation
    BY <1>1 DEF Task, Terminal
  <1>3. "completed" \in Kinds
    BY DEF Kinds
  <1>4. /\ task' = [task EXCEPT ![t] = new] /\ quiet' = 0 /\ UNCHANGED runner
        /\ hand' = [hand EXCEPT ![t][g] = None]
        /\ hand[t][g] # None /\ Fenced(t, hand[t][g].runner, g, lag)
    BY DEF Complete
  <1> HIDE DEF u
  <1>5. new \in Task /\ new.status = "completed" /\ new.lease = None /\ new.attempts = new.generation
    BY <1>2, <1>3, WitnessFields
  <1> HIDE DEF new
  <1> QED
    BY <1>4, <1>5, GiveUp DEF Active

LEMMA FailStep ==
  ASSUME IInv, NEW t \in Tasks, NEW g \in Generations, NEW lag \in Lags, Fail(t, g, lag)
  PROVE  IInv'
  <1> DEFINE new == Requeued(task[t], "retry")
  <1>1. /\ task[t] \in Task /\ task[t].generation = task[t].attempts
        /\ task[t].attempts \in 0 .. MaxAttempts
    BY DEF IInv, TypeOK, AttemptsLeft, Task
  <1>2. /\ task' = [task EXCEPT ![t] = new] /\ quiet' = 0 /\ UNCHANGED runner
        /\ hand' = [hand EXCEPT ![t][g] = None]
        /\ hand[t][g] # None /\ Fenced(t, hand[t][g].runner, g, lag)
    BY DEF Fail
  <1>3. /\ new \in Task /\ new.lease = None /\ new.attempts = new.generation
        /\ new.status \in {"failed", "queued"}
        /\ new.status = "queued" => new.attempts < MaxAttempts
    <2>1. /\ new \in Task /\ new.lease = None /\ new.attempts = task[t].attempts
          /\ new.generation = task[t].generation
          /\ new.status = IF task[t].attempts >= MaxAttempts THEN "failed" ELSE "queued"
      BY <1>1, RequeuedFields
    <2> HIDE DEF new
    <2> QED
      BY <2>1, <1>1, WorkQueueAssumption
  <1> HIDE DEF new
  <1> QED
    BY <1>2, <1>3, GiveUp DEF Active

(* A lease the reaper finds over is not believed in any more.              *)
LEMMA ReapStep ==
  ASSUME IInv, NEW lag \in Lags, ReapExpired(lag)
  PROVE  IInv'
  <1> DEFINE expired == {t \in Tasks : task[t].status \in Active /\ task[t].lease + lag <= 0}
  <1>1. /\ task' = [t \in Tasks |->
                     IF t \in expired THEN Requeued(task[t], "lease-expired") ELSE task[t]]
        /\ quiet' = 0 /\ UNCHANGED <<runner, hand>>
    BY DEF ReapExpired
  <1>2. ASSUME NEW t \in expired
        PROVE  /\ task'[t] \in Task /\ task'[t].lease = None
               /\ task'[t].generation = task'[t].attempts
               /\ task'[t].status \in {"failed", "queued"}
               /\ task'[t].status = "queued" => task'[t].attempts < MaxAttempts
               /\ \A g \in Generations : hand[t][g] # None => ~(hand[t][g].left > 0)
    <2>1. /\ task[t] \in Task /\ task[t].generation = task[t].attempts
          /\ task[t].attempts \in 0 .. MaxAttempts
      BY DEF IInv, TypeOK, AttemptsLeft, Task
    <2>2. task'[t] = Requeued(task[t], "lease-expired")
      BY <1>1
    <2>3. task[t].lease \in Left /\ lag \in Nat
      <3>1. task[t].lease # None
        BY DEF IInv, TypeOK
      <3> QED
        BY <2>1, <3>1 DEF Task, Lags, IInv, TypeOK
    <2>4. ~(task[t].lease > 0)
      BY <2>3 DEF Left
    <2>5. \A g \in Generations : hand[t][g] # None => ~(hand[t][g].left > 0)
      <3> SUFFICES ASSUME NEW g \in Generations, hand[t][g] # None, hand[t][g].left > 0
                   PROVE  FALSE
        OBVIOUS
      <3>1. hand[t][g] \in Claim
        BY DEF IInv, TypeOK
      <3>2. task[t].lease >= hand[t][g].left
        BY DEF IInv, BeliefIsTrue, Active
      <3> QED
        BY <3>1, <3>2, <2>3, <2>4 DEF Claim, Left
    <2> HIDE DEF expired
    <2> DEFINE new == Requeued(task[t], "lease-expired")
    <2>6. /\ new \in Task /\ new.lease = None /\ new.attempts = task[t].attempts
          /\ new.generation = task[t].generation
          /\ new.status = IF task[t].attempts >= MaxAttempts THEN "failed" ELSE "queued"
      BY <2>1, RequeuedFields
    <2>7. task'[t] = new
      BY <2>2
    <2> HIDE DEF new
    <2> QED
      BY <2>1, <2>5, <2>6, <2>7, WorkQueueAssumption
  <1>3. \A t \in Tasks \ expired : task'[t] = task[t]
    BY <1>1
  <1>4. DOMAIN task' = Tasks /\ task' = [t \in Tasks |-> task'[t]]
    BY <1>1
  <1>5. expired \subseteq Tasks
    OBVIOUS
  <1> HIDE DEF expired
  <1>6. TypeOK'
    <2>1. \A t \in Tasks : task'[t] \in Task
      BY <1>2, <1>3 DEF IInv, TypeOK
    <2>2. task' \in [Tasks -> Task]
      BY <2>1, <1>4
    <2>3. \A t \in Tasks : (task'[t].lease # None) <=> (task'[t].status \in Active)
      BY <1>2, <1>3 DEF IInv, TypeOK, Active
    <2> QED
      BY <2>2, <2>3, <1>1, WorkQueueAssumption DEF IInv, TypeOK
  <1>7. AttemptsLeft' /\ AbsentUntried'
    BY <1>2, <1>3 DEF IInv, AttemptsLeft, AbsentUntried
  <1>8. LeaseBound'
    <2> SUFFICES ASSUME NEW t \in Tasks, task'[t].lease # None
                 PROVE  task'[t].lease <= LeaseMs
      BY <1>1, WorkQueueAssumption DEF LeaseBound
    <2>1. task'[t].lease \in Left
      BY <1>6 DEF TypeOK, Task
    <2> QED
      BY <2>1, WorkQueueAssumption DEF Left
  <1>9. BeliefIsTrue'
    BY <1>1, <1>2, <1>3 DEF IInv, BeliefIsTrue
  <1> QED
    BY <1>6, <1>7, <1>8, <1>9 DEF IInv

LEMMA RegisterStep ==
  ASSUME IInv, NEW r \in Runners, NEW lag \in Lags, Register(r, lag)
  PROVE  IInv'
  <1>1. LeaseMs - lag \in Left
    BY FreshLease DEF IInv, TypeOK
  <1>2. PICK caps \in SUBSET Capabilities, online \in BOOLEAN :
          runner' = [runner EXCEPT ![r] = [caps |-> caps, online |-> online, seen |-> LeaseMs - lag]]
    BY DEF Register
  <1>3. [caps |-> caps, online |-> online, seen |-> LeaseMs - lag] \in Runner
    BY <1>1 DEF Runner
  <1>4. runner' \in [Runners -> Runner \cup {None}]
    BY <1>2, <1>3 DEF IInv, TypeOK
  <1>5. quiet' = 0 /\ UNCHANGED <<task, hand>>
    BY DEF Register
  <1>6. TypeOK' /\ AttemptsLeft' /\ AbsentUntried' /\ BeliefIsTrue'
    BY <1>4, <1>5, WorkQueueAssumption DEF IInv, TypeOK, AttemptsLeft, AbsentUntried, BeliefIsTrue
  <1>7. LeaseBound'
    <2> SUFFICES ASSUME NEW t \in Tasks, task'[t].lease # None
                 PROVE  task'[t].lease <= LeaseMs
      BY <1>5, WorkQueueAssumption DEF LeaseBound
    <2>1. task'[t].lease \in Left
      BY <1>6 DEF TypeOK, Task
    <2> QED
      BY <2>1, WorkQueueAssumption DEF Left
  <1> QED
    BY <1>6, <1>7 DEF IInv

LEMMA ForgetStep ==
  ASSUME IInv, NEW t \in Tasks, NEW g \in Generations, Forget(t, g)
  PROVE  IInv'
  <1>1. /\ hand \in [Tasks -> [Generations -> Claim \cup {None}]]
        /\ hand' = [hand EXCEPT ![t][g] = None] /\ UNCHANGED <<task, runner, quiet>>
    BY DEF Forget, IInv, TypeOK
  <1>2. hand' \in [Tasks -> [Generations -> Claim \cup {None}]]
    BY <1>1
  <1>3. \A u \in Tasks, f \in Generations : hand'[u][f] # None => hand'[u][f] = hand[u][f]
    BY <1>1
  <1>4. TypeOK' /\ AttemptsLeft' /\ AbsentUntried' /\ LeaseBound'
    BY <1>1, <1>2 DEF IInv, TypeOK, AttemptsLeft, AbsentUntried, LeaseBound
  <1>5. BeliefIsTrue'
    BY <1>1, <1>3 DEF IInv, BeliefIsTrue
  <1> QED
    BY <1>4, <1>5 DEF IInv

(* Time takes as much from a lease as from the belief in it.               *)
LEMMA TickStep ==
  ASSUME IInv, Tick
  PROVE  IInv'
  <1> USE WorkQueueAssumption
  <1>0. \A left \in Left : Sooner(left) \in Left
    BY DEF Left, Sooner
  <1>1. \A t \in Tasks :
          /\ task'[t] \in Task
          /\ task'[t].status = task[t].status /\ task'[t].generation = task[t].generation
          /\ task'[t].attempts = task[t].attempts /\ task'[t].runner = task[t].runner
          /\ task[t].lease = None => task'[t].lease = None
          /\ task[t].lease # None => task'[t].lease = Sooner(task[t].lease)
          /\ task[t].lease # None => task[t].lease \in Left
    <2> SUFFICES ASSUME NEW t \in Tasks
                 PROVE  /\ task'[t] \in Task
                        /\ task'[t].status = task[t].status
                        /\ task'[t].generation = task[t].generation
                        /\ task'[t].attempts = task[t].attempts
                        /\ task'[t].runner = task[t].runner
                        /\ task[t].lease = None => task'[t].lease = None
                        /\ task[t].lease # None => task'[t].lease = Sooner(task[t].lease)
                        /\ task[t].lease # None => task[t].lease \in Left
      OBVIOUS
    <2>1. task[t] \in Task
      BY DEF IInv, TypeOK
    <2>2. task'[t] = [task[t] EXCEPT !.lease = IF @ = None THEN None ELSE Sooner(@)]
      BY DEF Tick
    <2> QED
      BY <2>1, <2>2, <1>0 DEF Task
  <1>2. \A t \in Tasks, g \in Generations :
          /\ hand[t][g] = None => hand'[t][g] = None
          /\ hand[t][g] # None => /\ hand[t][g] \in Claim /\ hand'[t][g] \in Claim
                                  /\ hand'[t][g].runner = hand[t][g].runner
                                  /\ hand'[t][g].left = Sooner(hand[t][g].left)
    <2> SUFFICES ASSUME NEW t \in Tasks, NEW g \in Generations
                 PROVE  /\ hand[t][g] = None => hand'[t][g] = None
                        /\ hand[t][g] # None =>
                             /\ hand[t][g] \in Claim /\ hand'[t][g] \in Claim
                             /\ hand'[t][g].runner = hand[t][g].runner
                             /\ hand'[t][g].left = Sooner(hand[t][g].left)
      OBVIOUS
    <2>1. hand'[t][g] = IF hand[t][g] = None THEN None ELSE [hand[t][g] EXCEPT !.left = Sooner(@)]
      BY DEF Tick
    <2>2. hand[t][g] \in Claim \cup {None}
      BY DEF IInv, TypeOK
    <2> QED
      BY <2>1, <2>2, <1>0 DEF Claim
  <1>3. \A r \in Runners : runner'[r] \in Runner \cup {None}
    <2> SUFFICES ASSUME NEW r \in Runners, runner[r] # None PROVE runner'[r] \in Runner
      BY DEF Tick
    <2>1. runner[r] \in Runner /\ runner'[r] = [runner[r] EXCEPT !.seen = Sooner(@)]
      BY DEF Tick, IInv, TypeOK
    <2> QED
      BY <2>1, <1>0 DEF Runner
  <1>4. quiet \in 0 .. MaxLag /\ quiet' = IF quiet < MaxLag THEN quiet + 1 ELSE quiet
    BY DEF Tick, IInv, TypeOK
  <1>5. TypeOK'
    <2>1. task' \in [Tasks -> Task]
      BY <1>1 DEF Tick
    <2>2. runner' \in [Runners -> Runner \cup {None}]
      BY <1>3 DEF Tick
    <2>3. hand' \in [Tasks -> [Generations -> Claim \cup {None}]]
      <3>1. \A t \in Tasks, g \in Generations : hand'[t][g] \in Claim \cup {None}
        BY <1>2
      <3> QED
        BY <3>1 DEF Tick
    <2>4. \A t \in Tasks : (task'[t].lease # None) <=> (task'[t].status \in Active)
      <3> SUFFICES ASSUME NEW t \in Tasks
                   PROVE  (task'[t].lease # None) <=> (task'[t].status \in Active)
        OBVIOUS
      <3>1. (task[t].lease # None) <=> (task[t].status \in Active)
        BY DEF IInv, TypeOK
      <3>2. task[t].lease # None => task'[t].lease \in Int
        BY <1>0, <1>1 DEF Left
      <3> QED
        BY <3>1, <3>2, <1>1
    <2> QED
      BY <2>1, <2>2, <2>3, <2>4, <1>4 DEF TypeOK
  <1>6. AttemptsLeft' /\ AbsentUntried'
    BY <1>1 DEF IInv, AttemptsLeft, AbsentUntried
  <1>7. LeaseBound'
    <2> SUFFICES ASSUME NEW t \in Tasks, task'[t].lease # None
                 PROVE  task'[t].lease <= LeaseMs - quiet'
      BY DEF LeaseBound
    <2>1. task[t].lease # None /\ task[t].lease \in Left /\ task'[t].lease = Sooner(task[t].lease)
      BY <1>1
    <2>2. task[t].lease <= LeaseMs - quiet
      BY <2>1 DEF IInv, LeaseBound
    <2> QED
      BY <2>1, <2>2, <1>4 DEF Sooner, Left
  <1>8. BeliefIsTrue'
    <2> SUFFICES ASSUME NEW t \in Tasks, NEW g \in Generations,
                        hand'[t][g] # None, hand'[t][g].left > 0, task'[t].status # "cancelled"
                 PROVE  /\ task'[t].status \in Active
                        /\ task'[t].generation = g
                        /\ task'[t].runner = hand'[t][g].runner
                        /\ task'[t].lease >= hand'[t][g].left
      BY DEF BeliefIsTrue
    <2>1. /\ hand[t][g] # None /\ hand[t][g] \in Claim
          /\ hand'[t][g].left = Sooner(hand[t][g].left)
          /\ hand'[t][g].runner = hand[t][g].runner
      BY <1>2
    <2>2. hand[t][g].left \in Left /\ hand[t][g].left > 0
      BY <2>1 DEF Claim, Left, Sooner
    <2>3. /\ task[t].status \in Active /\ task[t].generation = g
          /\ task[t].runner = hand[t][g].runner /\ task[t].lease >= hand[t][g].left
      BY <2>1, <2>2, <1>1 DEF IInv, BeliefIsTrue
    <2>4. task[t].lease # None
      BY <2>3 DEF IInv, TypeOK
    <2>5. task'[t].lease = Sooner(task[t].lease) /\ task[t].lease \in Left
      BY <2>4, <1>1
    <2>6. task'[t].lease >= hand'[t][g].left
      BY <2>1, <2>2, <2>3, <2>5 DEF Sooner, Left
    <2> QED
      BY <2>1, <2>3, <2>6, <1>1
  <1> QED
    BY <1>5, <1>6, <1>7, <1>8 DEF IInv

-----------------------------------------------------------------------------
LEMMA Inductive ==
  ASSUME IInv, [Next]_vars
  PROVE  IInv'
  <1>1. CASE UNCHANGED vars
    BY <1>1 DEF vars, IInv, TypeOK, AttemptsLeft, AbsentUntried, LeaseBound, BeliefIsTrue
  <1>2. CASE Next
    BY <1>2, TickStep, EnqueueStep, CancelStep, ForgetStep, ReapStep, RegisterStep, ClaimNextStep,
       StartStep, HeartbeatStep, CompleteStep, FailStep DEF Next
  <1> QED
    BY <1>1, <1>2

LEMMA InitInv == Init => IInv
  <1> SUFFICES ASSUME Init PROVE IInv
    OBVIOUS
  <1> USE WorkQueueAssumption DEF Init
  <1>1. NoTask \in Task
    BY DEF NoTask, Task
  <1>2. TypeOK
    BY <1>1 DEF TypeOK, NoTask, Active
  <1>3. AttemptsLeft /\ AbsentUntried /\ LeaseBound /\ BeliefIsTrue
    BY DEF AttemptsLeft, AbsentUntried, LeaseBound, BeliefIsTrue, NoTask
  <1> QED
    BY <1>2, <1>3 DEF IInv

LEMMA Invariance == Spec => []IInv
  <1> QED
    BY InitInv, Inductive, PTL DEF Spec

(* Type correctness of the board; a task has a lease exactly while it is   *)
(* claimed or running.                                                     *)
THEOREM TypeCorrect == Spec => []TypeOK
  <1>1. IInv => TypeOK
    BY DEF IInv
  <1> QED
    BY <1>1, Invariance, PTL

(* fail and reapExpired never put a task back that has used its attempts.  *)
THEOREM AttemptsBounded == Spec => []AttemptsLeft
  <1>1. IInv => AttemptsLeft
    BY DEF IInv
  <1> QED
    BY <1>1, Invariance, PTL

(* Leases exclude: a runner that believes in its lease holds the task, so  *)
(* two never work on one task at a time, whatever answers are lost and     *)
(* however late the clock was read.                                        *)
THEOREM LeasesExclude == Spec => []BeliefIsTrue
  <1>1. IInv => BeliefIsTrue
    BY DEF IInv
  <1> QED
    BY <1>1, Invariance, PTL

-----------------------------------------------------------------------------
LEMMA TerminalStep ==
  ASSUME TypeOK, [Next]_vars, NEW t \in Tasks, task[t].status \in Terminal
  PROVE  task'[t] = task[t]
  <1> USE DEF Active, Terminal
  <1>0. task \in [Tasks -> Task] /\ task[t] \in Task /\ task[t].lease = None
    BY DEF TypeOK
  <1>1. CASE UNCHANGED vars
    BY <1>1 DEF vars
  <1>2. CASE Tick
    <2>1. task'[t] = [task[t] EXCEPT !.lease = IF @ = None THEN None ELSE Sooner(@)]
      BY <1>2 DEF Tick
    <2> QED
      BY <2>1, <1>0 DEF Task
  <1>3. ASSUME NEW u \in Tasks, Enqueue(u) \/ Cancel(u)
        PROVE  task'[t] = task[t]
    <2>1. u # t
      BY <1>3 DEF Enqueue, Cancel
    <2> QED
      BY <1>0, <1>3, <2>1 DEF Enqueue, Cancel
  <1>4. ASSUME NEW lag \in Lags, ReapExpired(lag)
        PROVE  task'[t] = task[t]
    BY <1>4 DEF ReapExpired
  <1>5. ASSUME NEW lag \in Lags, NEW r \in Runners, NEW u \in Tasks, ClaimNext(r, u, lag)
        PROVE  task'[t] = task[t]
    <2>1. u # t
      BY <1>5 DEF ClaimNext, Candidates
    <2> QED
      BY <1>0, <1>5, <2>1 DEF ClaimNext
  <1>6. ASSUME NEW lag \in Lags, NEW u \in Tasks, NEW g \in Generations,
               Start(u, g, lag) \/ Heartbeat(u, g, lag) \/ Complete(u, g, lag) \/ Fail(u, g, lag)
        PROVE  task'[t] = task[t]
    <2>1. u # t
      BY <1>6 DEF Start, Heartbeat, Complete, Fail, Fenced
    <2> QED
      BY <1>0, <1>6, <2>1 DEF Start, Heartbeat, Complete, Fail
  <1>7. ASSUME NEW lag \in Lags, NEW r \in Runners, Register(r, lag)
        PROVE  task'[t] = task[t]
    BY <1>7 DEF Register
  <1>8. ASSUME NEW u \in Tasks, NEW g \in Generations, Forget(u, g)
        PROVE  task'[t] = task[t]
    BY <1>8 DEF Forget
  <1> QED
    BY <1>1, <1>2, <1>3, <1>4, <1>5, <1>6, <1>7, <1>8 DEF Next

(* No operation changes a task that is over.                               *)
THEOREM TerminalStands == Spec => TerminalIsFinal
  <1>1. TypeOK /\ [Next]_vars =>
          [\A t \in Tasks : task[t].status \in Terminal => task'[t] = task[t]]_vars
    BY TerminalStep
  <1> QED
    BY <1>1, TypeCorrect, PTL DEF Spec, TerminalIsFinal

-----------------------------------------------------------------------------
(* What EvidenceExplains says of one task, with what makes it inductive:   *)
(* the last entry carries the generation the task has.                     *)
Explained(T) ==
  LET h == T.history
  IN /\ T.status = "absent" => h = <<>> /\ T.attempts = 0
     /\ T.status # "absent" =>
          /\ h # <<>> /\ StatusAfter(h[Len(h)].kind) = T.status
          /\ h[Len(h)].generation = T.generation
     /\ \A g \in 1 .. T.attempts :
          \E i \in 1 .. Len(h) : h[i].kind = "claimed" /\ h[i].generation = g
     /\ \A i \in 1 .. Len(h) : h[i].kind = "claimed" =>
          i > 1 /\ StatusAfter(h[i - 1].kind) = "queued" /\ h[i - 1].generation < h[i].generation

EInv == \A t \in Tasks : Explained(task[t])

(* An entry that tells of the change keeps the task explained.             *)
LEMMA AppendEvidence ==
  ASSUME NEW T \in Task, NEW new \in Task, Explained(T), NEW kind \in Kinds,
         new.history = Append(T.history, [kind |-> kind, generation |-> new.generation,
                                          runner |-> new.runner]),
         new.status # "absent", StatusAfter(kind) = new.status,
         \/ /\ kind # "claimed"
            /\ new.attempts = T.attempts /\ new.generation = T.generation
         \/ /\ kind = "claimed" /\ T.status = "queued"
            /\ T.generation = T.attempts
            /\ new.attempts = T.attempts + 1 /\ new.generation = T.generation + 1
  PROVE  Explained(new)
  <1> USE WorkQueueAssumption
  <1> DEFINE h == T.history
             n == Len(h)
             e == [kind |-> kind, generation |-> new.generation, runner |-> new.runner]
             k == new.history
  <1>1. /\ h \in Seq(Evidence) /\ T.generation \in Nat /\ T.attempts \in Nat
        /\ new.generation \in Nat /\ new.attempts \in Nat /\ n \in Nat
    BY DEF Task
  <1>2. k = Append(h, e) /\ e.kind = kind /\ e.generation = new.generation
    OBVIOUS
  <1>3. /\ Len(k) = n + 1 /\ k[n + 1] = e /\ \A i \in 1 .. n : k[i] = h[i]
        /\ k # <<>>
    BY <1>1, <1>2
  <1>4. \A g \in 1 .. new.attempts :
          \E i \in 1 .. Len(k) : k[i].kind = "claimed" /\ k[i].generation = g
    <2> SUFFICES ASSUME NEW g \in 1 .. new.attempts
                 PROVE  \E i \in 1 .. Len(k) : k[i].kind = "claimed" /\ k[i].generation = g
      OBVIOUS
    <2>1. CASE g \in 1 .. T.attempts
      <3>1. PICK i \in 1 .. n : h[i].kind = "claimed" /\ h[i].generation = g
        BY <2>1 DEF Explained
      <3> QED
        BY <3>1, <1>1, <1>3
    <2>2. CASE g \notin 1 .. T.attempts
      <3>1. kind = "claimed" /\ g = new.generation
        BY <2>2, <1>1
      <3> QED
        BY <3>1, <1>1, <1>2, <1>3
    <2> QED
      BY <2>1, <2>2
  <1>5. ASSUME NEW i \in 1 .. Len(k), k[i].kind = "claimed"
        PROVE  i > 1 /\ StatusAfter(k[i - 1].kind) = "queued" /\ k[i - 1].generation < k[i].generation
    <2>1. CASE i \in 1 .. n
      <3>1. /\ h[i].kind = "claimed" /\ k[i] = h[i]
        BY <2>1, <1>3, <1>5
      <3>2. /\ i > 1 /\ StatusAfter(h[i - 1].kind) = "queued"
            /\ h[i - 1].generation < h[i].generation
        BY <2>1, <3>1 DEF Explained
      <3>3. i - 1 \in 1 .. n
        BY <2>1, <3>2, <1>1
      <3> QED
        BY <3>1, <3>2, <3>3, <1>3
    <2>2. CASE i \notin 1 .. n
      <3>1. i = n + 1 /\ kind = "claimed"
        BY <2>2, <1>1, <1>2, <1>3, <1>5
      <3>2. /\ h # <<>> /\ StatusAfter(h[n].kind) = "queued" /\ h[n].generation = T.generation
        BY <3>1 DEF Explained
      <3>3. n \in 1 .. n /\ n > 0
        BY <3>2, <1>1
      <3>4. i - 1 = n /\ k[n] = h[n] /\ i > 1
        BY <3>1, <3>3, <1>1, <1>3
      <3> QED
        BY <3>1, <3>2, <3>4, <1>1, <1>2, <1>3
    <2> QED
      BY <2>1, <2>2
  <1>6. StatusAfter(k[Len(k)].kind) = new.status /\ k[Len(k)].generation = new.generation
    BY <1>1, <1>2, <1>3
  <1> QED
    BY <1>3, <1>4, <1>5, <1>6 DEF Explained

LEMMA OneExplained ==
  ASSUME EInv, TypeOK, NEW t \in Tasks, NEW new, Explained(new), task' = [task EXCEPT ![t] = new]
  PROVE  EInv'
  <1>1. \A u \in Tasks : task'[u] = IF u = t THEN new ELSE task[u]
    BY DEF TypeOK
  <1> QED
    BY <1>1 DEF EInv

(* What a task is explained by does not depend on its lease.               *)
LEMMA LeaseIrrelevant ==
  ASSUME NEW T, NEW new, Explained(T), new.status = T.status, new.generation = T.generation,
         new.attempts = T.attempts, new.history = T.history
  PROVE  Explained(new)
  BY DEF Explained

LEMMA GivenBack ==
  ASSUME NEW T \in Task, Explained(T), NEW kind \in {"retry", "lease-expired"}
  PROVE  Explained(Requeued(T, kind))
  <1> DEFINE new == Requeued(T, kind)
             k == IF T.attempts >= MaxAttempts THEN "exhausted" ELSE kind
  <1>1. /\ new \in Task /\ new.generation = T.generation /\ new.attempts = T.attempts
        /\ new.runner = T.runner
        /\ new.status = IF T.attempts >= MaxAttempts THEN "failed" ELSE "queued"
        /\ new.history = Append(T.history, [kind |-> k, generation |-> T.generation,
                                            runner |-> T.runner])
    BY RequeuedFields
  <1>2. /\ k \in Kinds /\ k # "claimed"
        /\ StatusAfter(k) = IF T.attempts >= MaxAttempts THEN "failed" ELSE "queued"
    BY DEF Kinds, StatusAfter
  <1> HIDE DEF new, k
  <1>3. new.status # "absent" /\ StatusAfter(k) = new.status
    BY <1>1, <1>2
  <1>4. Explained(new)
    BY <1>1, <1>2, <1>3, AppendEvidence
  <1> QED
    BY <1>4 DEF new

LEMMA EvidenceStep ==
  ASSUME IInv, EInv, [Next]_vars
  PROVE  EInv'
  <1>0. TypeOK /\ task \in [Tasks -> Task]
    BY DEF IInv, TypeOK
  <1>1. CASE UNCHANGED vars
    BY <1>1 DEF vars, EInv
  <1>2. ASSUME NEW t \in Tasks, Enqueue(t)
        PROVE  EInv'
    <2> DEFINE u == [task[t] EXCEPT !.status = "queued"]
               new == Witness(u, "enqueued")
    <2>1. task[t] \in Task /\ task' = [task EXCEPT ![t] = new]
      BY <1>2 DEF Enqueue, IInv, TypeOK
    <2>2. /\ u \in Task /\ u.status = "queued" /\ u.history = task[t].history
          /\ u.attempts = task[t].attempts /\ u.generation = task[t].generation
      BY <2>1 DEF Task
    <2>3. "enqueued" \in Kinds
      BY DEF Kinds
    <2> HIDE DEF u
    <2>4. /\ new \in Task /\ new.status = u.status /\ new.generation = u.generation
          /\ new.attempts = u.attempts /\ new.runner = u.runner
          /\ new.history = Append(u.history, [kind |-> "enqueued", generation |-> u.generation,
                                              runner |-> u.runner])
      BY <2>2, <2>3, WitnessFields
    <2> HIDE DEF new
    <2>5. Explained(new)
      BY <2>1, <2>2, <2>3, <2>4, AppendEvidence DEF EInv, StatusAfter
    <2> QED
      BY <1>0, <2>1, <2>5, OneExplained
  <1>3. ASSUME NEW t \in Tasks, Cancel(t)
        PROVE  EInv'
    <2> DEFINE u == [task[t] EXCEPT !.status = "cancelled", !.lease = None]
               new == Witness(u, "cancelled")
    <2>1. task[t] \in Task /\ task' = [task EXCEPT ![t] = new]
      BY <1>3 DEF Cancel, IInv, TypeOK
    <2>2. /\ u \in Task /\ u.status = "cancelled" /\ u.history = task[t].history
          /\ u.attempts = task[t].attempts /\ u.generation = task[t].generation
      BY <2>1 DEF Task, Terminal
    <2>3. "cancelled" \in Kinds
      BY DEF Kinds
    <2> HIDE DEF u
    <2>4. /\ new \in Task /\ new.status = u.status /\ new.generation = u.generation
          /\ new.attempts = u.attempts /\ new.runner = u.runner
          /\ new.history = Append(u.history, [kind |-> "cancelled", generation |-> u.generation,
                                              runner |-> u.runner])
      BY <2>2, <2>3, WitnessFields
    <2> HIDE DEF new
    <2>5. Explained(new)
      BY <2>1, <2>2, <2>3, <2>4, AppendEvidence DEF EInv, StatusAfter
    <2> QED
      BY <1>0, <2>1, <2>5, OneExplained
  <1>4. ASSUME NEW t \in Tasks, NEW g \in Generations, NEW lag \in Lags, Complete(t, g, lag)
        PROVE  EInv'
    <2> DEFINE u == [task[t] EXCEPT !.status = "completed", !.lease = None]
               new == Witness(u, "completed")
    <2>1. task[t] \in Task /\ task' = [task EXCEPT ![t] = new]
      BY <1>4 DEF Complete, IInv, TypeOK
    <2>2. /\ u \in Task /\ u.status = "completed" /\ u.history = task[t].history
          /\ u.attempts = task[t].attempts /\ u.generation = task[t].generation
      BY <2>1 DEF Task, Terminal
    <2>3. "completed" \in Kinds
      BY DEF Kinds
    <2> HIDE DEF u
    <2>4. /\ new \in Task /\ new.status = u.status /\ new.generation = u.generation
          /\ new.attempts = u.attempts /\ new.runner = u.runner
          /\ new.history = Append(u.history, [kind |-> "completed", generation |-> u.generation,
                                              runner |-> u.runner])
      BY <2>2, <2>3, WitnessFields
    <2> HIDE DEF new
    <2>5. Explained(new)
      BY <2>1, <2>2, <2>3, <2>4, AppendEvidence DEF EInv, StatusAfter
    <2> QED
      BY <1>0, <2>1, <2>5, OneExplained
  <1>5. ASSUME NEW t \in Tasks, NEW g \in Generations, NEW lag \in Lags, Start(t, g, lag)
        PROVE  EInv'
    <2> DEFINE u == [task[t] EXCEPT !.status = "running"]
               new == Witness(u, "started")
    <2>1. task[t] \in Task /\ Explained(task[t])
          /\ task' = [task EXCEPT ![t] = IF task[t].status = "claimed" THEN new ELSE task[t]]
      BY <1>5 DEF Start, IInv, TypeOK, EInv
    <2>2. /\ u \in Task /\ u.status = "running" /\ u.history = task[t].history
          /\ u.attempts = task[t].attempts /\ u.generation = task[t].generation
      BY <2>1 DEF Task, Active
    <2>3. "started" \in Kinds
      BY DEF Kinds
    <2> HIDE DEF u
    <2>4. /\ new \in Task /\ new.status = u.status /\ new.generation = u.generation
          /\ new.attempts = u.attempts /\ new.runner = u.runner
          /\ new.history = Append(u.history, [kind |-> "started", generation |-> u.generation,
                                              runner |-> u.runner])
      BY <2>2, <2>3, WitnessFields
    <2> HIDE DEF new
    <2>5. Explained(new)
      BY <2>1, <2>2, <2>3, <2>4, AppendEvidence DEF StatusAfter
    <2>6. Explained(IF task[t].status = "claimed" THEN new ELSE task[t])
      BY <2>1, <2>5
    <2> QED
      BY <1>0, <2>1, <2>6, OneExplained
  <1>6. ASSUME NEW r \in Runners, NEW t \in Tasks, NEW lag \in Lags, ClaimNext(r, t, lag)
        PROVE  EInv'
    <2> DEFINE u == [task[t] EXCEPT !.status = "claimed", !.runner = r,
                                    !.generation = task[t].generation + 1,
                                    !.attempts = @ + 1, !.lease = LeaseMs - lag]
               new == Witness(u, "claimed")
    <2>1. /\ task[t] \in Task /\ task' = [task EXCEPT ![t] = new]
          /\ task[t].status = "queued" /\ task[t].generation = task[t].attempts
          /\ task[t].attempts < MaxAttempts /\ task[t].attempts \in 0 .. MaxAttempts
      BY <1>6 DEF ClaimNext, Candidates, IInv, TypeOK, AttemptsLeft, Task
    <2>2. /\ LeaseMs - lag \in Left
          /\ task[t].attempts + 1 \in 0 .. MaxAttempts
          /\ task[t].generation + 1 \in 0 .. MaxAttempts
      BY <2>1, FreshLease, WorkQueueAssumption DEF IInv, TypeOK
    <2>3. /\ u \in Task /\ u.status = "claimed" /\ u.history = task[t].history
          /\ u.attempts = task[t].attempts + 1 /\ u.generation = task[t].generation + 1
      BY <2>1, <2>2 DEF Task, Active
    <2>4. "claimed" \in Kinds
      BY DEF Kinds
    <2> HIDE DEF u
    <2>5. /\ new \in Task /\ new.status = u.status /\ new.generation = u.generation
          /\ new.attempts = u.attempts /\ new.runner = u.runner
          /\ new.history = Append(u.history, [kind |-> "claimed", generation |-> u.generation,
                                              runner |-> u.runner])
      BY <2>3, <2>4, WitnessFields
    <2> HIDE DEF new
    <2>6. Explained(new)
      BY <2>1, <2>3, <2>4, <2>5, AppendEvidence DEF EInv, StatusAfter
    <2> QED
      BY <1>0, <2>1, <2>6, OneExplained
  <1>7. ASSUME NEW t \in Tasks, NEW g \in Generations, NEW lag \in Lags, Heartbeat(t, g, lag)
        PROVE  EInv'
    <2> DEFINE new == [task[t] EXCEPT !.lease = LeaseMs - lag]
    <2>1. task' = [task EXCEPT ![t] = new] /\ task[t] \in Task /\ Explained(task[t])
      BY <1>7 DEF Heartbeat, IInv, TypeOK, EInv
    <2>2. /\ new.status = task[t].status /\ new.generation = task[t].generation
          /\ new.attempts = task[t].attempts /\ new.history = task[t].history
      BY <2>1 DEF Task
    <2> HIDE DEF new
    <2>3. Explained(new)
      BY <2>1, <2>2, LeaseIrrelevant
    <2> QED
      BY <1>0, <2>1, <2>3, OneExplained
  <1>8. ASSUME NEW t \in Tasks, NEW g \in Generations, NEW lag \in Lags, Fail(t, g, lag)
        PROVE  EInv'
    <2>1. /\ task' = [task EXCEPT ![t] = Requeued(task[t], "retry")]
          /\ task[t] \in Task /\ Explained(task[t])
      BY <1>8 DEF Fail, IInv, TypeOK, EInv
    <2>2. Explained(Requeued(task[t], "retry"))
      BY <2>1, GivenBack
    <2> QED
      BY <1>0, <2>1, <2>2, OneExplained
  <1>9. ASSUME NEW lag \in Lags, ReapExpired(lag)
        PROVE  EInv'
    <2> SUFFICES ASSUME NEW t \in Tasks PROVE Explained(task'[t])
      BY DEF EInv
    <2>1. task[t] \in Task /\ Explained(task[t])
      BY DEF IInv, TypeOK, EInv
    <2>2. task'[t] = Requeued(task[t], "lease-expired") \/ task'[t] = task[t]
      BY <1>9 DEF ReapExpired
    <2>3. Explained(Requeued(task[t], "lease-expired"))
      BY <2>1, GivenBack
    <2> QED
      BY <2>1, <2>2, <2>3
  <1>10. ASSUME Tick
         PROVE  EInv'
    <2> SUFFICES ASSUME NEW t \in Tasks PROVE Explained(task'[t])
      BY DEF EInv
    <2>1. task[t] \in Task /\ Explained(task[t])
      BY DEF IInv, TypeOK, EInv
    <2>2. task'[t] = [task[t] EXCEPT !.lease = IF @ = None THEN None ELSE Sooner(@)]
      BY <1>10 DEF Tick
    <2>3. /\ task'[t].status = task[t].status /\ task'[t].generation = task[t].generation
          /\ task'[t].attempts = task[t].attempts /\ task'[t].history = task[t].history
      BY <2>1, <2>2 DEF Task
    <2> QED
      BY <2>1, <2>3, LeaseIrrelevant
  <1>11. ASSUME UNCHANGED task
         PROVE  EInv'
    BY <1>11 DEF EInv
  <1>12. ASSUME NEW r \in Runners, NEW lag \in Lags, Register(r, lag)
         PROVE  EInv'
    BY <1>11, <1>12 DEF Register
  <1>13. ASSUME NEW t \in Tasks, NEW g \in Generations, Forget(t, g)
         PROVE  EInv'
    BY <1>11, <1>13 DEF Forget
  <1> QED
    BY <1>1, <1>2, <1>3, <1>4, <1>5, <1>6, <1>7, <1>8, <1>9, <1>10, <1>12, <1>13 DEF Next

(* The evidence on a task accounts for its status and for every claim of   *)
(* it, whatever happened to it.                                            *)
THEOREM EvidenceAccounts == Spec => []EvidenceExplains
  <1>1. Init => EInv
    BY DEF Init, EInv, Explained, NoTask
  <1>2. EInv => EvidenceExplains
    BY DEF EInv, Explained, EvidenceExplains
  <1>3. IInv /\ EInv /\ [Next]_vars => EInv'
    BY EvidenceStep
  <1> QED
    BY <1>1, <1>2, <1>3, Invariance, PTL DEF Spec

-----------------------------------------------------------------------------
(* The deployment ledger: its inductive invariant.                         *)

(* What the locals of a controller hold, by where it is.                   *)
PhaseOK ==
  \A c \in Controllers :
    /\ pc[c] \in {"run", "acting", "save", "fail", "done"} => own[c].step \in Steps
    /\ pc[c] \in {"activate", "record"} => own[c].grant \in Grants
    /\ pc[c] = "save" => own[c].unit < NUnits
    /\ pc[c] = "done" => own[c].unit = NUnits
    /\ pc[c] = "acquire" /\ own[c].fresh => doc.fence < MaxTokens

(* The lease has the last token or none, and no two controllers have one.  *)
TokensOK ==
  /\ doc.lease.token \in {0, doc.fence}
  /\ \A c \in Controllers : own[c].token <= doc.fence
  /\ \A c, e \in Controllers : own[c].token = own[e].token /\ own[c].token # 0 => c = e

(* What was checked when the document was loaded, nobody having written    *)
(* it since, still holds.                                                  *)
FreshOK ==
  \A c \in Controllers : own[c].fresh =>
    /\ pc[c] \in {"run", "save", "fail", "done", "record", "rolled", "complete"} => Holds(c)
    /\ pc[c] = "run" => Ready(own[c].step) /\ own[c].unit = doc.steps[own[c].step].checkpoint
    /\ pc[c] = "complete" => \A s \in Steps : doc.steps[s].status = "done"

RolloutInv == RolloutTypeOK /\ PhaseOK /\ TokensOK /\ FreshOK /\ StepsInOrder /\ HolderKnows

-----------------------------------------------------------------------------
(* The locals that the operations leave.                                   *)

LEMMA AtRestTyped ==
  ASSUME NEW t \in Tokens
  PROVE  AtRest(t) \in Locals
  BY RolloutsAssumption DEF AtRest, Locals, Units

(* c goes on with l and every copy is out of date.                         *)
Stale(c, l) == [x \in Controllers |-> [(IF x = c THEN l ELSE own[x]) EXCEPT !.fresh = FALSE]]

LEMMA StaleLocals ==
  ASSUME RolloutTypeOK, NEW c \in Controllers, NEW l \in Locals
  PROVE  /\ Stale(c, l) \in [Controllers -> Locals]
         /\ \A x \in Controllers : ~Stale(c, l)[x].fresh
         /\ Stale(c, l)[c] = [l EXCEPT !.fresh = FALSE]
         /\ \A x \in Controllers \ {c} : Stale(c, l)[x] = [own[x] EXCEPT !.fresh = FALSE]
  <1>1. \A m \in Locals : [m EXCEPT !.fresh = FALSE] \in Locals /\ ~[m EXCEPT !.fresh = FALSE].fresh
    BY DEF Locals
  <1>2. \A x \in Controllers : (IF x = c THEN l ELSE own[x]) \in Locals
    BY DEF RolloutTypeOK
  <1> QED
    BY <1>1, <1>2 DEF Stale

LEMMA LoadLocals ==
  ASSUME RolloutTypeOK, NEW c \in Controllers, NEW l \in Locals, Load(c, l)
  PROVE  /\ own' \in [Controllers -> Locals]
         /\ own'[c] = [l EXCEPT !.fresh = TRUE] /\ own'[c].fresh
         /\ \A x \in Controllers \ {c} : own'[x] = own[x]
  <1>1. [l EXCEPT !.fresh = TRUE] \in Locals /\ [l EXCEPT !.fresh = TRUE].fresh
    BY DEF Locals
  <1> QED
    BY <1>1 DEF RolloutTypeOK, Load

(* An operation that ends without a write: c is at rest, with its token.   *)
Ended(c) ==
  /\ own' = [own EXCEPT ![c] = AtRest(own[c].token)]
  /\ pc' = [pc EXCEPT ![c] = "idle"]
  /\ UNCHANGED doc
  /\ lapsed' \in BOOLEAN

LEMMA EndedLocals ==
  ASSUME RolloutTypeOK, NEW c \in Controllers, NEW t \in Tokens, own' = [own EXCEPT ![c] = AtRest(t)]
  PROVE  /\ own' \in [Controllers -> Locals]
         /\ own'[c] = AtRest(t) /\ own'[c].token = t /\ ~own'[c].fresh
         /\ \A x \in Controllers \ {c} : own'[x] = own[x]
  BY AtRestTyped DEF RolloutTypeOK, AtRest

LEMMA OwnTyped ==
  ASSUME RolloutTypeOK, NEW c \in Controllers
  PROVE  /\ own[c] \in Locals
         /\ own[c].token \in Tokens /\ own[c].fresh \in BOOLEAN
         /\ own[c].step \in Steps \cup {0} /\ own[c].unit \in Units
         /\ own[c].grant \in Grants \cup {Null}
  BY DEF RolloutTypeOK, Locals

(* Nothing but a controller's token outlives an operation, and nothing in  *)
(* the invariant rests on one that is idle.                                *)
LEMMA EndedKeeps ==
  ASSUME RolloutInv, NEW c \in Controllers, Ended(c)
  PROVE  RolloutInv'
  <1>1. own[c].token \in Tokens
    BY OwnTyped DEF RolloutInv
  <1>2. /\ own' \in [Controllers -> Locals]
        /\ own'[c].token = own[c].token /\ ~own'[c].fresh
        /\ \A x \in Controllers \ {c} : own'[x] = own[x]
    BY <1>1, EndedLocals DEF RolloutInv, Ended
  <1>3. /\ pc' \in [Controllers -> Labels] /\ pc'[c] = "idle"
        /\ \A x \in Controllers \ {c} : pc'[x] = pc[x]
    BY DEF RolloutInv, RolloutTypeOK, Ended, Labels
  <1>4. doc' = doc
    BY DEF Ended
  <1>5. RolloutTypeOK'
    BY <1>2, <1>3, <1>4 DEF RolloutInv, RolloutTypeOK, Ended
  <1>6. PhaseOK'
    BY <1>2, <1>3, <1>4 DEF RolloutInv, PhaseOK
  <1>7. TokensOK'
    BY <1>2, <1>4 DEF RolloutInv, TokensOK
  <1>8. FreshOK'
    BY <1>2, <1>3, <1>4 DEF RolloutInv, FreshOK, Holds, Ready
  <1>9. StepsInOrder'
    BY <1>4 DEF RolloutInv, StepsInOrder
  <1>10. HolderKnows'
    BY <1>2, <1>3, <1>4 DEF RolloutInv, HolderKnows, Holds
  <1> QED
    BY <1>5, <1>6, <1>7, <1>8, <1>9, <1>10 DEF RolloutInv

-----------------------------------------------------------------------------
(* Steps that leave the document alone.                                    *)

(* What is asked of a controller that goes on at label with locals l.      *)
PhaseAt(label, l) ==
  /\ label \in {"run", "acting", "save", "fail", "done"} => l.step \in Steps
  /\ label \in {"activate", "record"} => l.grant \in Grants
  /\ label = "save" => l.unit < NUnits
  /\ label = "done" => l.unit = NUnits
  /\ label = "acquire" /\ l.fresh => doc.fence < MaxTokens

FreshAt(label, l) ==
  l.fresh =>
    /\ label \in {"run", "save", "fail", "done", "record", "rolled", "complete"} =>
         l.token # 0 /\ doc.lease.token = l.token
    /\ label = "run" => Ready(l.step) /\ l.unit = doc.steps[l.step].checkpoint
    /\ label = "complete" => \A s \in Steps : doc.steps[s].status = "done"

KnowsAt(label, l) ==
  l.token # 0 /\ doc.lease.token = l.token =>
    /\ label \in {"acting", "save", "fail", "done"} =>
         /\ doc.steps[l.step].status = "running"
         /\ doc.steps[l.step].checkpoint = l.unit
    /\ label \in {"activate", "record"} => doc.activated[l.grant] = 0

LEMMA GoesOnKeeps ==
  ASSUME RolloutInv, NEW c \in Controllers, NEW l \in Locals, NEW label \in Labels,
         l.token = own[c].token,
         own' = [own EXCEPT ![c] = l], pc' = [pc EXCEPT ![c] = label],
         doc' = doc, lapsed' \in BOOLEAN,
         PhaseAt(label, l), FreshAt(label, l), KnowsAt(label, l)
  PROVE  RolloutInv'
  <1>1. /\ own' \in [Controllers -> Locals] /\ own'[c] = l
        /\ \A x \in Controllers \ {c} : own'[x] = own[x]
    BY DEF RolloutInv, RolloutTypeOK
  <1>2. /\ pc' \in [Controllers -> Labels] /\ pc'[c] = label
        /\ \A x \in Controllers \ {c} : pc'[x] = pc[x]
    BY DEF RolloutInv, RolloutTypeOK
  <1>3. RolloutTypeOK'
    BY <1>1, <1>2 DEF RolloutInv, RolloutTypeOK
  <1>4. PhaseOK'
    BY <1>1, <1>2 DEF RolloutInv, PhaseOK, PhaseAt
  <1>5. TokensOK'
    BY <1>1 DEF RolloutInv, TokensOK
  <1>6. FreshOK'
    BY <1>1, <1>2 DEF RolloutInv, FreshOK, FreshAt, Holds, Ready
  <1>7. StepsInOrder'
    BY DEF RolloutInv, StepsInOrder
  <1>8. HolderKnows'
    BY <1>1, <1>2 DEF RolloutInv, HolderKnows, KnowsAt, Holds
  <1> QED
    BY <1>3, <1>4, <1>5, <1>6, <1>7, <1>8 DEF RolloutInv

(* The same for a step that loads the document.                            *)
LEMMA LoadKeeps ==
  ASSUME RolloutInv, NEW c \in Controllers, NEW l \in Locals, NEW label \in Labels,
         l.token = own[c].token, Load(c, l), pc' = [pc EXCEPT ![c] = label],
         UNCHANGED <<doc, lapsed>>,
         PhaseAt(label, [l EXCEPT !.fresh = TRUE]),
         FreshAt(label, [l EXCEPT !.fresh = TRUE]),
         KnowsAt(label, [l EXCEPT !.fresh = TRUE])
  PROVE  RolloutInv'
  <1>1. [l EXCEPT !.fresh = TRUE] \in Locals /\ [l EXCEPT !.fresh = TRUE].token = own[c].token
    BY DEF Locals
  <1>2. own' = [own EXCEPT ![c] = [l EXCEPT !.fresh = TRUE]]
    BY DEF Load
  <1>3. lapsed' \in BOOLEAN /\ doc' = doc
    BY DEF RolloutInv, RolloutTypeOK
  <1> QED
    BY <1>1, <1>2, <1>3, GoesOnKeeps

LEMMA AbandonKeeps ==
  ASSUME RolloutInv, NEW c \in Controllers, Abandon(c)
  PROVE  RolloutInv'
  <1>1. Ended(c)
    BY DEF Abandon, Ended, RolloutInv, RolloutTypeOK
  <1> QED
    BY <1>1, EndedKeeps

(* A refused write ends the operation.                                     *)
LEMMA RefusedKeeps ==
  ASSUME RolloutInv, NEW c \in Controllers, ~own[c].fresh, NEW d, NEW l, Put(c, d, l),
         pc' = [pc EXCEPT ![c] = "idle"], lapsed' \in BOOLEAN
  PROVE  RolloutInv'
  <1>1. Ended(c)
    BY DEF Put, Ended
  <1> QED
    BY <1>1, EndedKeeps

(* How a copy just loaded differs from the locals before.                  *)
LEMMA FreshCopy ==
  ASSUME NEW l \in Locals
  PROVE  LET f == [l EXCEPT !.fresh = TRUE]
         IN  /\ f.fresh /\ f.token = l.token /\ f.step = l.step
             /\ f.unit = l.unit /\ f.grant = l.grant
  BY DEF Locals

LEMMA StepTyped ==
  ASSUME RolloutTypeOK, NEW s \in Steps
  PROVE  /\ doc.steps[s] \in Step /\ doc.steps[s].checkpoint \in Units
         /\ doc.steps[s].status \in {"pending", "running", "done", "failed"}
  BY DEF RolloutTypeOK, Document, Step

LEMMA AcquireLoadKeeps ==
  ASSUME RolloutInv, NEW c \in Controllers, AcquireLoad(c)
  PROVE  RolloutInv'
  <1>1. own[c] \in Locals
    BY OwnTyped DEF RolloutInv
  <1>2. PhaseAt("acquire", [own[c] EXCEPT !.fresh = TRUE])
    BY DEF AcquireLoad, PhaseAt
  <1>3. /\ FreshAt("acquire", [own[c] EXCEPT !.fresh = TRUE])
        /\ KnowsAt("acquire", [own[c] EXCEPT !.fresh = TRUE])
    BY DEF FreshAt, KnowsAt
  <1> QED
    BY <1>1, <1>2, <1>3, LoadKeeps DEF AcquireLoad, Labels

LEMMA RunLoadKeeps ==
  ASSUME RolloutInv, NEW c \in Controllers, NEW s \in Steps, RunLoad(c, s)
  PROVE  RolloutInv'
  <1> DEFINE l == [own[c] EXCEPT !.step = s, !.unit = doc.steps[s].checkpoint]
             f == [l EXCEPT !.fresh = TRUE]
  <1>1. own[c] \in Locals /\ doc.steps[s].checkpoint \in Units
    BY OwnTyped, StepTyped DEF RolloutInv
  <1>2. /\ l \in Locals /\ l.token = own[c].token
        /\ l.step = s /\ l.unit = doc.steps[s].checkpoint
    BY <1>1 DEF Locals
  <1>3. /\ f.fresh /\ f.token = own[c].token
        /\ f.step = s /\ f.unit = doc.steps[s].checkpoint
    BY <1>2, FreshCopy
  <1>4. Holds(c) /\ Ready(s) /\ Load(c, l)
    BY DEF RunLoad
  <1> HIDE DEF l, f
  <1>5. PhaseAt("run", f) /\ FreshAt("run", f) /\ KnowsAt("run", f)
    BY <1>3, <1>4 DEF PhaseAt, FreshAt, KnowsAt, Holds
  <1>6. f = [l EXCEPT !.fresh = TRUE]
    BY DEF f
  <1> QED
    BY <1>2, <1>4, <1>5, <1>6, LoadKeeps DEF RunLoad, Labels

(* A load by a controller that goes on with the work it has in hand.       *)
LEMMA ReloadKeeps ==
  ASSUME RolloutInv, NEW c \in Controllers, Holds(c), Load(c, own[c]), UNCHANGED <<doc, lapsed>>,
         NEW label \in {"save", "fail", "done", "record", "rolled", "complete"},
         pc' = [pc EXCEPT ![c] = label],
         label \in {"save", "fail", "done"} => pc[c] = "acting",
         label = "record" => pc[c] = "activate",
         label = "save" => own[c].unit < NUnits,
         label = "done" => own[c].unit = NUnits,
         label = "complete" => \A s \in Steps : doc.steps[s].status = "done"
  PROVE  RolloutInv'
  <1> DEFINE f == [own[c] EXCEPT !.fresh = TRUE]
  <1>1. own[c] \in Locals /\ label \in Labels
    BY OwnTyped DEF RolloutInv, Labels
  <1>2. /\ f.fresh /\ f.token = own[c].token /\ f.step = own[c].step
        /\ f.unit = own[c].unit /\ f.grant = own[c].grant
    BY <1>1, FreshCopy
  <1> HIDE DEF f
  <1>3. PhaseAt(label, f)
    BY <1>2 DEF PhaseAt, RolloutInv, PhaseOK
  <1>4. FreshAt(label, f)
    BY <1>2 DEF FreshAt, Holds
  <1>5. KnowsAt(label, f)
    BY <1>2 DEF KnowsAt, RolloutInv, HolderKnows, Holds
  <1>6. f = [own[c] EXCEPT !.fresh = TRUE]
    BY DEF f
  <1> QED
    BY <1>1, <1>3, <1>4, <1>5, <1>6, LoadKeeps

LEMMA SaveLoadKeeps ==
  ASSUME RolloutInv, NEW c \in Controllers, SaveLoad(c)
  PROVE  RolloutInv'
  BY ReloadKeeps, AbandonKeeps DEF SaveLoad

LEMMA FailLoadKeeps ==
  ASSUME RolloutInv, NEW c \in Controllers, FailLoad(c)
  PROVE  RolloutInv'
  BY ReloadKeeps, AbandonKeeps DEF FailLoad

LEMMA DoneLoadKeeps ==
  ASSUME RolloutInv, NEW c \in Controllers, DoneLoad(c)
  PROVE  RolloutInv'
  BY ReloadKeeps, AbandonKeeps DEF DoneLoad

LEMMA ActivatedKeeps ==
  ASSUME RolloutInv, NEW c \in Controllers, Activated(c)
  PROVE  RolloutInv'
  BY ReloadKeeps, AbandonKeeps DEF Activated

LEMMA RolledLoadKeeps ==
  ASSUME RolloutInv, NEW c \in Controllers, RolledLoad(c)
  PROVE  RolloutInv'
  BY ReloadKeeps, AbandonKeeps DEF RolledLoad

LEMMA CompleteLoadKeeps ==
  ASSUME RolloutInv, NEW c \in Controllers, CompleteLoad(c)
  PROVE  RolloutInv'
  BY ReloadKeeps DEF CompleteLoad

LEMMA ActivateLoadKeeps ==
  ASSUME RolloutInv, NEW c \in Controllers, NEW g \in Grants, ActivateLoad(c, g)
  PROVE  RolloutInv'
  <1> DEFINE l == [own[c] EXCEPT !.grant = g]
  <1>1. own[c] \in Locals
    BY OwnTyped DEF RolloutInv
  <1>2. l \in Locals /\ l.token = own[c].token /\ l.fresh = own[c].fresh /\ l.grant = g
    BY <1>1 DEF Locals
  <1>3. own' = [own EXCEPT ![c] = l] /\ pc' = [pc EXCEPT ![c] = "activate"]
    BY DEF ActivateLoad
  <1>4. lapsed' \in BOOLEAN /\ doc' = doc /\ doc.activated[g] = 0
    BY DEF ActivateLoad, RolloutInv, RolloutTypeOK
  <1> HIDE DEF l
  <1>5. PhaseAt("activate", l) /\ FreshAt("activate", l) /\ KnowsAt("activate", l)
    BY <1>2, <1>4 DEF PhaseAt, FreshAt, KnowsAt
  <1> QED
    BY <1>2, <1>3, <1>4, <1>5, GoesOnKeeps DEF Labels

LEMMA RollbackLoadKeeps ==
  ASSUME RolloutInv, NEW c \in Controllers, RollbackLoad(c)
  PROVE  RolloutInv'
  <1>1. own[c] \in Locals /\ own' = [own EXCEPT ![c] = own[c]]
    BY OwnTyped DEF RolloutInv, RolloutTypeOK, RollbackLoad
  <1>2. lapsed' \in BOOLEAN /\ doc' = doc /\ pc' = [pc EXCEPT ![c] = "rollback"]
    BY DEF RollbackLoad, RolloutInv, RolloutTypeOK
  <1>3. PhaseAt("rollback", own[c]) /\ FreshAt("rollback", own[c]) /\ KnowsAt("rollback", own[c])
    BY DEF PhaseAt, FreshAt, KnowsAt
  <1> QED
    BY <1>1, <1>2, <1>3, GoesOnKeeps DEF Labels

-----------------------------------------------------------------------------
(* Steps that write the document.                                          *)

(* A write that goes through: c goes on at label with locals l, everyone   *)
(* else where they were, and every copy is out of date.                    *)
Written(c, d, l, label) ==
  /\ doc' = d /\ own' = Stale(c, l) /\ pc' = [pc EXCEPT ![c] = label]

LEMMA WrittenLocals ==
  ASSUME RolloutTypeOK, NEW c \in Controllers, NEW d, NEW l \in Locals, NEW label \in Labels,
         Written(c, d, l, label)
  PROVE  /\ doc' = d
         /\ own' \in [Controllers -> Locals] /\ pc' \in [Controllers -> Labels]
         /\ pc'[c] = label /\ own'[c].token = l.token /\ own'[c].step = l.step
         /\ own'[c].unit = l.unit /\ own'[c].grant = l.grant
         /\ \A x \in Controllers : ~own'[x].fresh
         /\ \A x \in Controllers \ {c} :
              /\ pc'[x] = pc[x] /\ own'[x].token = own[x].token /\ own'[x].step = own[x].step
              /\ own'[x].unit = own[x].unit /\ own'[x].grant = own[x].grant
  <1>1. /\ own' \in [Controllers -> Locals] /\ \A x \in Controllers : ~own'[x].fresh
        /\ own'[c] = [l EXCEPT !.fresh = FALSE]
        /\ \A x \in Controllers \ {c} : own'[x] = [own[x] EXCEPT !.fresh = FALSE]
    <2>1. own' = Stale(c, l)
      BY DEF Written
    <2>2. /\ Stale(c, l) \in [Controllers -> Locals]
          /\ \A x \in Controllers : ~Stale(c, l)[x].fresh
          /\ Stale(c, l)[c] = [l EXCEPT !.fresh = FALSE]
          /\ \A x \in Controllers \ {c} : Stale(c, l)[x] = [own[x] EXCEPT !.fresh = FALSE]
      BY StaleLocals
    <2> QED
      BY <2>1, <2>2
  <1>2. \A m \in Locals :
          LET f == [m EXCEPT !.fresh = FALSE]
          IN  f.token = m.token /\ f.step = m.step /\ f.unit = m.unit /\ f.grant = m.grant
    BY DEF Locals
  <1>3. \A x \in Controllers : own[x] \in Locals
    BY DEF RolloutTypeOK
  <1>4. /\ pc' \in [Controllers -> Labels] /\ pc'[c] = label
        /\ \A x \in Controllers \ {c} : pc'[x] = pc[x]
    BY DEF Written, RolloutTypeOK
  <1>5. /\ own'[c].token = l.token /\ own'[c].step = l.step
        /\ own'[c].unit = l.unit /\ own'[c].grant = l.grant
    BY <1>1, <1>2
  <1>6. \A x \in Controllers \ {c} :
          /\ own'[x].token = own[x].token /\ own'[x].step = own[x].step
          /\ own'[x].unit = own[x].unit /\ own'[x].grant = own[x].grant
    BY <1>1, <1>2, <1>3
  <1> QED
    BY <1>1, <1>4, <1>5, <1>6 DEF Written

(* Only one controller holds the lease.                                    *)
LEMMA OneHolder ==
  ASSUME TokensOK, NEW c \in Controllers, NEW e \in Controllers, Holds(c), Holds(e)
  PROVE  c = e
  BY DEF TokensOK, Holds

(* Acquiring supersedes every lease before.                                *)
LEMMA AcquirePutKeeps ==
  ASSUME RolloutInv, NEW c \in Controllers, AcquirePut(c)
  PROVE  RolloutInv'
  <1> DEFINE t == doc.fence + 1
             d == [doc EXCEPT !.fence = t, !.lease = [controller |-> c, token |-> t]]
  <1>0. lapsed' \in BOOLEAN
    BY DEF AcquirePut, RolloutInv, RolloutTypeOK
  <1>1. CASE ~own[c].fresh
    BY <1>0, <1>1, RefusedKeeps DEF AcquirePut
  <1>2. CASE own[c].fresh
    <2>1. doc.fence \in Tokens /\ doc.fence < MaxTokens
      BY <1>2 DEF AcquirePut, RolloutInv, RolloutTypeOK, Document, PhaseOK
    <2>2. t \in Tokens /\ t # 0
      BY <2>1, RolloutsAssumption DEF Tokens
    <2>3. AtRest(t) \in Locals /\ AtRest(t).token = t
      BY <2>2, AtRestTyped DEF AtRest
    <2>4. Written(c, d, AtRest(t), "idle")
      BY <1>2 DEF AcquirePut, Put, Written, Stale
    <2>5. /\ doc' = d
          /\ own' \in [Controllers -> Locals] /\ pc' \in [Controllers -> Labels]
          /\ pc'[c] = "idle" /\ own'[c].token = t
          /\ \A x \in Controllers : ~own'[x].fresh
          /\ \A x \in Controllers \ {c} :
               /\ pc'[x] = pc[x] /\ own'[x].token = own[x].token /\ own'[x].step = own[x].step
               /\ own'[x].unit = own[x].unit /\ own'[x].grant = own[x].grant
      <3> HIDE DEF d, t
      <3> QED
        BY <2>3, <2>4, WrittenLocals DEF RolloutInv, Labels
    <2>6. /\ d \in Document /\ d.fence = t /\ d.lease.token = t
          /\ d.steps = doc.steps /\ d.activated = doc.activated /\ d.state = doc.state
      BY <2>2 DEF RolloutInv, RolloutTypeOK, Document, Lease
    <2>7. \A x \in Controllers : own[x].token \in Tokens /\ own[x].token <= doc.fence
      BY OwnTyped DEF RolloutInv, TokensOK
    <2>8. \A x \in Controllers \ {c} : own'[x].token # t
      <3>1. \A x \in Controllers : own[x].token # t
        <4>1. Tokens \subseteq Nat
          BY RolloutsAssumption DEF Tokens
        <4>2. doc.fence \in Nat /\ \A x \in Controllers : own[x].token \in Nat
          BY <2>1, <2>7, <4>1
        <4>3. \A m, n \in Nat : m <= n => m # n + 1
          OBVIOUS
        <4> QED
          BY <2>7, <4>2, <4>3
      <3> QED
        BY <2>5, <3>1
    <2>9. \A x \in Controllers : Holds(x)' => x = c
      BY <2>5, <2>6, <2>8 DEF Holds
    <2>10. RolloutTypeOK'
      BY <1>0, <2>5, <2>6 DEF RolloutTypeOK
    <2>11. PhaseOK'
      BY <2>5 DEF RolloutInv, PhaseOK
    <2>12. TokensOK'
      <3>1. \A x, e \in Controllers :
              own'[x].token = own'[e].token /\ own'[x].token # 0 => x = e
        <4>1. \A x, e \in Controllers \ {c} :
                own'[x].token = own'[e].token /\ own'[x].token # 0 => x = e
          BY <2>5 DEF RolloutInv, TokensOK
        <4> QED
          BY <2>5, <2>8, <4>1
      <3>2. \A x \in Controllers : own'[x].token <= t
        BY <2>5, <2>1, <2>7 DEF Tokens
      <3> QED
        BY <2>5, <2>6, <3>1, <3>2 DEF TokensOK
    <2>13. FreshOK'
      BY <2>5 DEF FreshOK
    <2>14. StepsInOrder'
      BY <2>5, <2>6 DEF RolloutInv, StepsInOrder
    <2>15. HolderKnows'
      BY <2>5, <2>6, <2>9 DEF RolloutInv, HolderKnows
    <2> QED
      BY <2>10, <2>11, <2>12, <2>13, <2>14, <2>15 DEF RolloutInv
  <1> QED
    BY <1>1, <1>2

(* What a write by the controller that holds the lease has to respect: it  *)
(* is the only one that the invariant tells anything of the document.      *)
LEMMA HolderWrites ==
  ASSUME RolloutInv, NEW c \in Controllers, Holds(c), lapsed' \in BOOLEAN,
         NEW d \in Document, NEW l \in Locals, NEW label \in {"idle", "acting"},
         Written(c, d, l, label), l.token = own[c].token,
         label = "acting" => /\ l.step \in Steps
                             /\ d.steps[l.step].status = "running"
                             /\ d.steps[l.step].checkpoint = l.unit,
         d.fence = doc.fence, d.lease \in {doc.lease, NoLease},
         \A s \in Steps : d.steps[s].status # "pending" =>
            \A p \in 1 .. (s - 1) : d.steps[p].status = "done",
         d.state = "complete" => \A s \in Steps : d.steps[s].status = "done",
         \A g \in Grants : d.activated[g] <= 1
  PROVE  RolloutInv'
  <1>1. label \in Labels
    BY DEF Labels
  <1>2. /\ doc' = d
        /\ own' \in [Controllers -> Locals] /\ pc' \in [Controllers -> Labels]
        /\ pc'[c] = label /\ own'[c].token = l.token /\ own'[c].step = l.step
        /\ own'[c].unit = l.unit /\ own'[c].grant = l.grant
        /\ \A x \in Controllers : ~own'[x].fresh
        /\ \A x \in Controllers \ {c} :
             /\ pc'[x] = pc[x] /\ own'[x].token = own[x].token /\ own'[x].step = own[x].step
             /\ own'[x].unit = own[x].unit /\ own'[x].grant = own[x].grant
    BY <1>1, WrittenLocals DEF RolloutInv
  <1>3. \A x \in Controllers : own'[x].token = own[x].token
    BY <1>2
  <1>4. \A x \in Controllers : Holds(x)' => x = c
    <2>1. d.lease.token \in {doc.lease.token, 0}
      BY DEF NoLease
    <2>2. \A x \in Controllers : Holds(x)' => Holds(x)
      BY <1>2, <1>3, <2>1 DEF Holds
    <2> QED
      BY <2>2, OneHolder DEF RolloutInv
  <1>5. RolloutTypeOK'
    BY <1>2 DEF RolloutTypeOK
  <1>6. PhaseOK'
    BY <1>2 DEF RolloutInv, PhaseOK
  <1>7. TokensOK'
    <2>1. d.lease.token \in {0, d.fence}
      BY DEF RolloutInv, TokensOK, NoLease
    <2> QED
      BY <1>2, <1>3, <2>1 DEF RolloutInv, TokensOK
  <1>8. FreshOK'
    BY <1>2 DEF FreshOK
  <1>9. StepsInOrder'
    BY <1>2 DEF StepsInOrder
  <1>10. HolderKnows'
    BY <1>2, <1>4 DEF HolderKnows
  <1> QED
    BY <1>5, <1>6, <1>7, <1>8, <1>9, <1>10 DEF RolloutInv

(* The document with another entry for one step.                           *)
LEMMA WithStep ==
  ASSUME RolloutTypeOK, NEW s \in Steps, NEW e \in Step
  PROVE  LET d == [doc EXCEPT !.steps[s] = e]
         IN  /\ d \in Document /\ d.steps[s] = e
             /\ \A x \in Steps \ {s} : d.steps[x] = doc.steps[x]
             /\ d.fence = doc.fence /\ d.lease = doc.lease
             /\ d.activated = doc.activated /\ d.state = doc.state
  BY DEF RolloutTypeOK, Document

(* The same for the status alone and for the checkpoint alone.             *)
LEMMA WithStatus ==
  ASSUME RolloutTypeOK, NEW s \in Steps, NEW v \in {"pending", "running", "done", "failed"}
  PROVE  LET d == [doc EXCEPT !.steps[s].status = v]
         IN  /\ d \in Document
             /\ d.steps[s].status = v /\ d.steps[s].checkpoint = doc.steps[s].checkpoint
             /\ \A x \in Steps \ {s} : d.steps[x] = doc.steps[x]
             /\ d.fence = doc.fence /\ d.lease = doc.lease
             /\ d.activated = doc.activated /\ d.state = doc.state
  <1> DEFINE e == [doc.steps[s] EXCEPT !.status = v]
  <1>1. doc.steps[s] \in Step
    BY StepTyped
  <1>2. e \in Step /\ e.status = v /\ e.checkpoint = doc.steps[s].checkpoint
    BY <1>1 DEF Step
  <1>3. [doc EXCEPT !.steps[s].status = v] = [doc EXCEPT !.steps[s] = e]
    OBVIOUS
  <1> HIDE DEF e
  <1> QED
    BY <1>2, <1>3, WithStep

LEMMA WithCheckpoint ==
  ASSUME RolloutTypeOK, NEW s \in Steps, NEW u \in Units
  PROVE  LET d == [doc EXCEPT !.steps[s].checkpoint = u]
         IN  /\ d \in Document
             /\ d.steps[s].status = doc.steps[s].status /\ d.steps[s].checkpoint = u
             /\ \A x \in Steps \ {s} : d.steps[x] = doc.steps[x]
             /\ d.fence = doc.fence /\ d.lease = doc.lease
             /\ d.activated = doc.activated /\ d.state = doc.state
  <1> DEFINE e == [doc.steps[s] EXCEPT !.checkpoint = u]
  <1>1. doc.steps[s] \in Step
    BY StepTyped
  <1>2. e \in Step /\ e.checkpoint = u /\ e.status = doc.steps[s].status
    BY <1>1 DEF Step
  <1>3. [doc EXCEPT !.steps[s].checkpoint = u] = [doc EXCEPT !.steps[s] = e]
    OBVIOUS
  <1> HIDE DEF e
  <1> QED
    BY <1>2, <1>3, WithStep

(* A step is started only when the ones before it are done ...             *)
LEMMA RunPutKeeps ==
  ASSUME RolloutInv, NEW c \in Controllers, RunPut(c)
  PROVE  RolloutInv'
  <1> DEFINE s == own[c].step
             d == [doc EXCEPT !.steps[s].status = "running"]
  <1>0. lapsed' \in BOOLEAN
    BY DEF RunPut, RolloutInv, RolloutTypeOK
  <1>1. CASE ~own[c].fresh
    BY <1>0, <1>1, RefusedKeeps DEF RunPut, Goto
  <1>2. CASE own[c].fresh
    <2>1. /\ s \in Steps /\ Holds(c) /\ Ready(s)
          /\ own[c].unit = doc.steps[s].checkpoint
      BY <1>2 DEF RunPut, RolloutInv, PhaseOK, FreshOK
    <2>2. Written(c, d, own[c], "acting")
      BY <1>2 DEF RunPut, Put, Goto, Written, Stale
    <2>3. /\ d \in Document
          /\ d.steps[s].status = "running" /\ d.steps[s].checkpoint = doc.steps[s].checkpoint
          /\ \A x \in Steps \ {s} : d.steps[x] = doc.steps[x]
          /\ d.fence = doc.fence /\ d.lease = doc.lease
          /\ d.activated = doc.activated /\ d.state = doc.state
      BY <2>1, WithStatus DEF RolloutInv
    <2>4. own[c] \in Locals
      BY OwnTyped DEF RolloutInv
    <2> HIDE DEF s, d
    <2>5. \A x \in Steps : d.steps[x].status # "pending" =>
             \A p \in 1 .. (x - 1) : d.steps[p].status = "done"
      BY <2>1, <2>3, RolloutsAssumption DEF RolloutInv, StepsInOrder, Ready, Steps
    <2>6. d.state = "complete" => \A x \in Steps : d.steps[x].status = "done"
      BY <2>1, <2>3 DEF RolloutInv, StepsInOrder, Ready
    <2>7. s = own[c].step
      BY DEF s
    <2> QED
      BY <1>0, <2>1, <2>2, <2>3, <2>4, <2>5, <2>6, <2>7, HolderWrites
         DEF RolloutInv, HolderKnows
  <1> QED
    BY <1>1, <1>2

(* ... and while it runs none after it has been.                           *)
LEMMA FinishKeeps ==
  ASSUME RolloutInv, NEW c \in Controllers, own[c].fresh, NEW v \in {"done", "failed"},
         pc[c] = IF v = "done" THEN "done" ELSE "fail",
         Written(c, [doc EXCEPT !.steps[own[c].step].status = v], AtRest(own[c].token), "idle"),
         lapsed' \in BOOLEAN
  PROVE  RolloutInv'
  <1> DEFINE s == own[c].step
             d == [doc EXCEPT !.steps[s].status = v]
  <1>1. s \in Steps /\ Holds(c)
    BY DEF RolloutInv, PhaseOK, FreshOK
  <1>2. doc.steps[s].status = "running"
    BY <1>1 DEF RolloutInv, HolderKnows
  <1>3. /\ d \in Document
        /\ d.steps[s].status = v /\ d.steps[s].checkpoint = doc.steps[s].checkpoint
        /\ \A x \in Steps \ {s} : d.steps[x] = doc.steps[x]
        /\ d.fence = doc.fence /\ d.lease = doc.lease
        /\ d.activated = doc.activated /\ d.state = doc.state
    <2>1. v \in {"pending", "running", "done", "failed"}
      OBVIOUS
    <2> QED
      BY <1>1, <2>1, WithStatus DEF RolloutInv
  <1>4. own[c].token \in Tokens
    BY OwnTyped DEF RolloutInv
  <1>5. AtRest(own[c].token) \in Locals /\ AtRest(own[c].token).token = own[c].token
    BY <1>4, AtRestTyped DEF AtRest
  <1>6. Written(c, d, AtRest(own[c].token), "idle")
    OBVIOUS
  <1> HIDE DEF s, d
  <1>7. \A x \in Steps : d.steps[x].status # "pending" =>
           \A p \in 1 .. (x - 1) : d.steps[p].status = "done"
    BY <1>1, <1>2, <1>3, RolloutsAssumption DEF RolloutInv, StepsInOrder, Steps
  <1>8. d.state = "complete" => \A x \in Steps : d.steps[x].status = "done"
    BY <1>1, <1>2, <1>3 DEF RolloutInv, StepsInOrder
  <1> QED
    BY <1>1, <1>3, <1>5, <1>6, <1>7, <1>8, HolderWrites DEF RolloutInv, HolderKnows

LEMMA FailPutKeeps ==
  ASSUME RolloutInv, NEW c \in Controllers, FailPut(c)
  PROVE  RolloutInv'
  <1>0. lapsed' \in BOOLEAN
    BY DEF FailPut, RolloutInv, RolloutTypeOK
  <1>1. CASE ~own[c].fresh
    BY <1>0, <1>1, RefusedKeeps DEF FailPut
  <1>2. CASE own[c].fresh
    <2>1. Written(c, [doc EXCEPT !.steps[own[c].step].status = "failed"],
                  AtRest(own[c].token), "idle")
      BY <1>2 DEF FailPut, Put, Written, Stale
    <2> QED
      BY <1>0, <1>2, <2>1, FinishKeeps DEF FailPut
  <1> QED
    BY <1>1, <1>2

LEMMA DonePutKeeps ==
  ASSUME RolloutInv, NEW c \in Controllers, DonePut(c)
  PROVE  RolloutInv'
  <1>0. lapsed' \in BOOLEAN
    BY DEF DonePut, RolloutInv, RolloutTypeOK
  <1>1. CASE ~own[c].fresh
    BY <1>0, <1>1, RefusedKeeps DEF DonePut
  <1>2. CASE own[c].fresh
    <2>1. Written(c, [doc EXCEPT !.steps[own[c].step].status = "done"],
                  AtRest(own[c].token), "idle")
      BY <1>2 DEF DonePut, Put, Written, Stale
    <2> QED
      BY <1>0, <1>2, <2>1, FinishKeeps DEF DonePut
  <1> QED
    BY <1>1, <1>2

LEMMA SavePutKeeps ==
  ASSUME RolloutInv, NEW c \in Controllers, SavePut(c)
  PROVE  RolloutInv'
  <1> DEFINE s == own[c].step
             u == own[c].unit + 1
             d == [doc EXCEPT !.steps[s].checkpoint = u]
             l == [own[c] EXCEPT !.unit = u]
  <1>0. lapsed' \in BOOLEAN /\ own[c] \in Locals
    BY OwnTyped DEF SavePut, RolloutInv, RolloutTypeOK
  <1>1. CASE ~own[c].fresh
    <2>1. /\ own' = [own EXCEPT ![c] = own[c]] /\ doc' = doc
          /\ pc' = [pc EXCEPT ![c] = "acting"] /\ pc[c] = "save"
      BY <1>1 DEF SavePut, RolloutInv, RolloutTypeOK
    <2>2. PhaseAt("acting", own[c]) /\ FreshAt("acting", own[c]) /\ KnowsAt("acting", own[c])
      BY <1>1, <2>1 DEF PhaseAt, FreshAt, KnowsAt, RolloutInv, PhaseOK, HolderKnows, Holds
    <2> QED
      BY <1>0, <2>1, <2>2, GoesOnKeeps DEF Labels
  <1>2. CASE own[c].fresh
    <2>1. s \in Steps /\ Holds(c) /\ own[c].unit < NUnits /\ own[c].unit \in Units
      BY <1>2, OwnTyped DEF SavePut, RolloutInv, PhaseOK, FreshOK
    <2>2. u \in Units
      BY <2>1, RolloutsAssumption DEF Units
    <2>3. doc.steps[s].status = "running"
      BY <2>1 DEF SavePut, RolloutInv, HolderKnows
    <2>4. Written(c, d, l, "acting")
      BY <1>2 DEF SavePut, Put, Written, Stale
    <2>5. l \in Locals /\ l.token = own[c].token /\ l.step = s /\ l.unit = u
      BY <1>0, <2>2 DEF Locals
    <2> HIDE DEF u, l
    <2>6. /\ d \in Document
          /\ d.steps[s].status = doc.steps[s].status /\ d.steps[s].checkpoint = u
          /\ \A x \in Steps \ {s} : d.steps[x] = doc.steps[x]
          /\ d.fence = doc.fence /\ d.lease = doc.lease
          /\ d.activated = doc.activated /\ d.state = doc.state
      BY <2>1, <2>2, WithCheckpoint DEF RolloutInv
    <2> HIDE DEF s, d
    <2>7. \A x \in Steps : d.steps[x].status = doc.steps[x].status
      BY <2>6
    <2>8. \A x \in Steps : d.steps[x].status # "pending" =>
             \A p \in 1 .. (x - 1) : d.steps[p].status = "done"
      BY <2>7, RolloutsAssumption DEF RolloutInv, StepsInOrder, Steps
    <2>9. d.state = "complete" => \A x \in Steps : d.steps[x].status = "done"
      BY <2>6, <2>7 DEF RolloutInv, StepsInOrder
    <2> QED
      BY <1>0, <2>1, <2>3, <2>4, <2>5, <2>6, <2>8, <2>9, HolderWrites DEF RolloutInv, HolderKnows
  <1> QED
    BY <1>1, <1>2

LEMMA ActivatePutKeeps ==
  ASSUME RolloutInv, NEW c \in Controllers, ActivatePut(c)
  PROVE  RolloutInv'
  <1> DEFINE g == own[c].grant
             d == [doc EXCEPT !.activated[g] = @ + 1]
  <1>0. lapsed' \in BOOLEAN /\ own[c].token \in Tokens
    BY OwnTyped DEF ActivatePut, RolloutInv, RolloutTypeOK
  <1>1. CASE ~own[c].fresh
    BY <1>0, <1>1, RefusedKeeps DEF ActivatePut
  <1>2. CASE own[c].fresh
    <2>1. g \in Grants /\ Holds(c)
      BY <1>2 DEF ActivatePut, RolloutInv, PhaseOK, FreshOK
    <2>2. doc.activated[g] = 0
      BY <2>1 DEF ActivatePut, RolloutInv, HolderKnows
    <2>3. Written(c, d, AtRest(own[c].token), "idle")
      BY <1>2 DEF ActivatePut, Put, Written, Stale
    <2>4. AtRest(own[c].token) \in Locals /\ AtRest(own[c].token).token = own[c].token
      BY <1>0, AtRestTyped DEF AtRest
    <2>5. /\ d \in Document /\ d.activated[g] = 1
          /\ \A x \in Grants \ {g} : d.activated[x] = doc.activated[x]
          /\ d.fence = doc.fence /\ d.lease = doc.lease
          /\ d.steps = doc.steps /\ d.state = doc.state
      BY <2>1, <2>2 DEF RolloutInv, RolloutTypeOK, Document
    <2> HIDE DEF g, d
    <2>6. \A x \in Grants : d.activated[x] <= 1
      BY <2>5 DEF RolloutInv, HolderKnows
    <2>7. /\ \A x \in Steps : d.steps[x].status # "pending" =>
                \A p \in 1 .. (x - 1) : d.steps[p].status = "done"
          /\ d.state = "complete" => \A x \in Steps : d.steps[x].status = "done"
      BY <2>5 DEF RolloutInv, StepsInOrder
    <2> QED
      BY <1>0, <2>1, <2>3, <2>4, <2>5, <2>6, <2>7, HolderWrites
  <1> QED
    BY <1>1, <1>2

LEMMA RolledPutKeeps ==
  ASSUME RolloutInv, NEW c \in Controllers, RolledPut(c)
  PROVE  RolloutInv'
  <1> DEFINE d == [doc EXCEPT !.state = "rolled-back"]
  <1>0. lapsed' \in BOOLEAN /\ own[c].token \in Tokens
    BY OwnTyped DEF RolledPut, RolloutInv, RolloutTypeOK
  <1>1. CASE ~own[c].fresh
    BY <1>0, <1>1, RefusedKeeps DEF RolledPut
  <1>2. CASE own[c].fresh
    <2>1. Holds(c)
      BY <1>2 DEF RolledPut, RolloutInv, FreshOK
    <2>2. Written(c, d, AtRest(own[c].token), "idle")
      BY <1>2 DEF RolledPut, Put, Written, Stale
    <2>3. AtRest(own[c].token) \in Locals /\ AtRest(own[c].token).token = own[c].token
      BY <1>0, AtRestTyped DEF AtRest
    <2>4. /\ d \in Document /\ d.state = "rolled-back" /\ d.activated = doc.activated
          /\ d.fence = doc.fence /\ d.lease = doc.lease /\ d.steps = doc.steps
      BY DEF RolloutInv, RolloutTypeOK, Document
    <2> HIDE DEF d
    <2>5. /\ \A x \in Steps : d.steps[x].status # "pending" =>
                \A p \in 1 .. (x - 1) : d.steps[p].status = "done"
          /\ d.state = "complete" => \A x \in Steps : d.steps[x].status = "done"
          /\ \A g \in Grants : d.activated[g] <= 1
      BY <2>4 DEF RolloutInv, StepsInOrder, HolderKnows
    <2> QED
      BY <1>0, <2>1, <2>2, <2>3, <2>4, <2>5, HolderWrites
  <1> QED
    BY <1>1, <1>2

(* A complete rollout has all its steps done.                              *)
LEMMA CompletePutKeeps ==
  ASSUME RolloutInv, NEW c \in Controllers, CompletePut(c)
  PROVE  RolloutInv'
  <1> DEFINE d == [doc EXCEPT !.state = "complete", !.lease = NoLease]
  <1>0. lapsed' \in BOOLEAN /\ own[c].token \in Tokens
    BY OwnTyped DEF CompletePut, RolloutInv, RolloutTypeOK
  <1>1. CASE ~own[c].fresh
    BY <1>0, <1>1, RefusedKeeps DEF CompletePut
  <1>2. CASE own[c].fresh
    <2>1. Holds(c) /\ \A s \in Steps : doc.steps[s].status = "done"
      BY <1>2 DEF CompletePut, RolloutInv, FreshOK
    <2>2. Written(c, d, AtRest(own[c].token), "idle")
      BY <1>2 DEF CompletePut, Put, Written, Stale
    <2>3. AtRest(own[c].token) \in Locals /\ AtRest(own[c].token).token = own[c].token
      BY <1>0, AtRestTyped DEF AtRest
    <2>4. NoLease \in Lease
      BY RolloutsAssumption DEF NoLease, Lease, Tokens
    <2>5. /\ d \in Document /\ d.activated = doc.activated
          /\ d.fence = doc.fence /\ d.lease = NoLease /\ d.steps = doc.steps
      BY <2>4 DEF RolloutInv, RolloutTypeOK, Document
    <2> HIDE DEF d
    <2>6. /\ \A x \in Steps : d.steps[x].status # "pending" =>
                \A p \in 1 .. (x - 1) : d.steps[p].status = "done"
          /\ d.state = "complete" => \A x \in Steps : d.steps[x].status = "done"
          /\ \A g \in Grants : d.activated[g] <= 1
      BY <2>1, <2>5 DEF RolloutInv, StepsInOrder, HolderKnows
    <2> QED
      BY <1>0, <2>1, <2>2, <2>3, <2>5, <2>6, HolderWrites
  <1> QED
    BY <1>1, <1>2

-----------------------------------------------------------------------------
(* Renewing, dying, expiring.                                              *)

LEMMA RenewKeeps ==
  ASSUME RolloutInv, NEW c \in Controllers, Renew(c)
  PROVE  RolloutInv'
  <1>1. own[c] \in Locals /\ pc[c] \in Labels
    BY OwnTyped DEF RolloutInv, RolloutTypeOK
  <1>2. own' = Stale(c, own[c])
    BY DEF Renew, Stale
  <1>3. pc' = [pc EXCEPT ![c] = pc[c]]
    BY DEF Renew, RolloutInv, RolloutTypeOK
  <1>4. Written(c, doc, own[c], pc[c])
    BY <1>2, <1>3 DEF Written, Renew
  <1>5. /\ doc' = doc /\ pc' \in [Controllers -> Labels]
        /\ own' \in [Controllers -> Locals]
        /\ \A x \in Controllers :
             /\ ~own'[x].fresh
             /\ pc'[x] = pc[x] /\ own'[x].token = own[x].token /\ own'[x].step = own[x].step
             /\ own'[x].unit = own[x].unit /\ own'[x].grant = own[x].grant
    <2>1. /\ doc' = doc
          /\ own' \in [Controllers -> Locals] /\ pc' \in [Controllers -> Labels]
          /\ pc'[c] = pc[c] /\ own'[c].token = own[c].token /\ own'[c].step = own[c].step
          /\ own'[c].unit = own[c].unit /\ own'[c].grant = own[c].grant
          /\ \A x \in Controllers : ~own'[x].fresh
          /\ \A x \in Controllers \ {c} :
               /\ pc'[x] = pc[x] /\ own'[x].token = own[x].token /\ own'[x].step = own[x].step
               /\ own'[x].unit = own[x].unit /\ own'[x].grant = own[x].grant
      BY <1>1, <1>4, WrittenLocals DEF RolloutInv
    <2> QED
      BY <2>1
  <1>6. RolloutTypeOK'
    BY <1>5 DEF RolloutInv, RolloutTypeOK, Renew
  <1>7. PhaseOK' /\ TokensOK' /\ FreshOK'
    BY <1>5 DEF RolloutInv, PhaseOK, TokensOK, FreshOK
  <1>8. StepsInOrder' /\ HolderKnows'
    BY <1>5 DEF RolloutInv, StepsInOrder, HolderKnows, Holds
  <1> QED
    BY <1>6, <1>7, <1>8 DEF RolloutInv

LEMMA CrashKeeps ==
  ASSUME RolloutInv, NEW c \in Controllers, Crash(c)
  PROVE  RolloutInv'
  <1>1. 0 \in Tokens
    BY RolloutsAssumption DEF Tokens
  <1>2. /\ own' \in [Controllers -> Locals]
        /\ own'[c].token = 0 /\ ~own'[c].fresh
        /\ \A x \in Controllers \ {c} : own'[x] = own[x]
    BY <1>1, EndedLocals DEF RolloutInv, Crash
  <1>3. /\ pc' \in [Controllers -> Labels] /\ pc'[c] = "idle"
        /\ \A x \in Controllers \ {c} : pc'[x] = pc[x]
        /\ doc' = doc /\ lapsed' \in BOOLEAN
    BY DEF RolloutInv, RolloutTypeOK, Crash, Labels
  <1>4. RolloutTypeOK'
    BY <1>2, <1>3 DEF RolloutInv, RolloutTypeOK
  <1>5. PhaseOK' /\ FreshOK'
    BY <1>2, <1>3 DEF RolloutInv, PhaseOK, FreshOK, Holds, Ready
  <1>6. TokensOK'
    <2>1. 0 <= doc.fence
      BY RolloutsAssumption DEF RolloutInv, RolloutTypeOK, Document, Tokens
    <2> QED
      BY <1>2, <1>3, <2>1 DEF RolloutInv, TokensOK
  <1>7. StepsInOrder' /\ HolderKnows'
    BY <1>2, <1>3 DEF RolloutInv, StepsInOrder, HolderKnows, Holds
  <1> QED
    BY <1>4, <1>5, <1>6, <1>7 DEF RolloutInv

LEMMA IdleKeeps ==
  ASSUME RolloutInv, UNCHANGED <<doc, pc, own>>, lapsed' \in BOOLEAN
  PROVE  RolloutInv'
  BY DEF RolloutInv, RolloutTypeOK, PhaseOK, TokensOK, FreshOK, StepsInOrder, HolderKnows, Holds, Ready

LEMMA ActivateFailsKeeps ==
  ASSUME RolloutInv, NEW c \in Controllers, ActivateFails(c)
  PROVE  RolloutInv'
  BY AbandonKeeps DEF ActivateFails

-----------------------------------------------------------------------------
(* The invariant is inductive.                                             *)
LEMMA InitRolloutInv == RolloutInit => RolloutInv
  <1> SUFFICES ASSUME RolloutInit PROVE RolloutInv
    OBVIOUS
  <1>1. 0 \in Tokens /\ 0 \in Units
    BY RolloutsAssumption DEF Tokens, Units
  <1>2. AtRest(0) \in Locals /\ AtRest(0).token = 0 /\ ~AtRest(0).fresh
    BY <1>1, AtRestTyped DEF AtRest
  <1>3. doc \in Document
    BY <1>1 DEF RolloutInit, Document, Step, Lease, NoLease
  <1>4. RolloutTypeOK
    BY <1>2, <1>3 DEF RolloutInit, RolloutTypeOK, Labels
  <1>5. PhaseOK /\ FreshOK
    BY <1>2 DEF RolloutInit, PhaseOK, FreshOK
  <1>6. TokensOK
    BY <1>2 DEF RolloutInit, TokensOK, NoLease
  <1>7. StepsInOrder /\ HolderKnows
    BY <1>2 DEF RolloutInit, StepsInOrder, HolderKnows, Holds
  <1> QED
    BY <1>4, <1>5, <1>6, <1>7 DEF RolloutInv

LEMMA NextRolloutInv == RolloutInv /\ [RolloutNext]_rolloutVars => RolloutInv'
  <1> SUFFICES ASSUME RolloutInv, [RolloutNext]_rolloutVars PROVE RolloutInv'
    OBVIOUS
  <1>1. CASE UNCHANGED rolloutVars
    BY <1>1, IdleKeeps DEF rolloutVars, RolloutInv, RolloutTypeOK
  <1>2. CASE Expire
    BY <1>2, IdleKeeps DEF Expire
  <1>3. ASSUME NEW c \in Controllers,
               AcquireLoad(c) \/ AcquirePut(c) \/ Renew(c) \/ Crash(c)
        PROVE  RolloutInv'
    BY <1>3, AcquireLoadKeeps, AcquirePutKeeps, RenewKeeps, CrashKeeps
  <1>4. ASSUME NEW c \in Controllers, NEW s \in Steps, RunLoad(c, s)
        PROVE  RolloutInv'
    BY <1>4, RunLoadKeeps
  <1>5. ASSUME NEW c \in Controllers,
               \/ RunPut(c) \/ SaveLoad(c) \/ SavePut(c) \/ FailLoad(c) \/ FailPut(c)
               \/ DoneLoad(c) \/ DonePut(c)
        PROVE  RolloutInv'
    BY <1>5, RunPutKeeps, SaveLoadKeeps, SavePutKeeps, FailLoadKeeps, FailPutKeeps,
       DoneLoadKeeps, DonePutKeeps
  <1>6. ASSUME NEW c \in Controllers, NEW g \in Grants, ActivateLoad(c, g)
        PROVE  RolloutInv'
    BY <1>6, ActivateLoadKeeps
  <1>7. ASSUME NEW c \in Controllers,
               \/ ActivateFails(c) \/ Activated(c) \/ ActivatePut(c)
               \/ RollbackLoad(c) \/ RolledLoad(c) \/ RolledPut(c)
               \/ CompleteLoad(c) \/ CompletePut(c)
        PROVE  RolloutInv'
    BY <1>7, ActivateFailsKeeps, ActivatedKeeps, ActivatePutKeeps, RollbackLoadKeeps,
       RolledLoadKeeps, RolledPutKeeps, CompleteLoadKeeps, CompletePutKeeps
  <1> QED
    BY <1>1, <1>2, <1>3, <1>4, <1>5, <1>6, <1>7 DEF RolloutNext

-----------------------------------------------------------------------------
(* What the writes do to the recorded work.                                *)

Kept ==
  /\ \A s \in Steps :
       /\ doc.steps[s].status = "done" => doc'.steps[s] = doc.steps[s]
       /\ doc'.steps[s].checkpoint >= doc.steps[s].checkpoint
  /\ \A g \in Grants : doc'.activated[g] >= doc.activated[g]
  /\ doc'.steps # doc.steps => doc.lease.token = doc.fence

(* The numbers that Kept compares.                                         *)
LEMMA Counts ==
  ASSUME RolloutTypeOK
  PROVE  /\ \A s \in Steps : doc.steps[s].checkpoint \in Nat
         /\ \A g \in Grants : doc.activated[g] \in Nat
         /\ doc.fence \in Nat
  <1>1. Units \subseteq Nat /\ Tokens \subseteq Nat
    BY RolloutsAssumption DEF Units, Tokens
  <1> QED
    BY <1>1 DEF RolloutTypeOK, Document, Step

LEMMA SameWork ==
  ASSUME RolloutTypeOK, doc'.steps = doc.steps, doc'.activated = doc.activated
  PROVE  Kept
  BY Counts DEF Kept

(* The holder's write of one entry.                                        *)
LEMMA OneEntry ==
  ASSUME RolloutInv, NEW c \in Controllers, Holds(c), NEW s \in Steps,
         doc.steps[s].status # "done",
         doc'.steps[s].checkpoint >= doc.steps[s].checkpoint,
         \A x \in Steps \ {s} : doc'.steps[x] = doc.steps[x],
         doc'.activated = doc.activated
  PROVE  Kept
  <1>1. doc.lease.token = doc.fence
    BY DEF RolloutInv, TokensOK, Holds
  <1> QED
    BY <1>1, Counts DEF RolloutInv, Kept

LEMMA RunPutKept ==
  ASSUME RolloutInv, NEW c \in Controllers, RunPut(c)
  PROVE  Kept
  <1>1. CASE ~own[c].fresh
    BY <1>1, SameWork DEF RunPut, Put, RolloutInv
  <1>2. CASE own[c].fresh
    <2> DEFINE s == own[c].step
    <2>1. s \in Steps /\ Holds(c) /\ doc.steps[s].status # "done"
      BY <1>2 DEF RunPut, RolloutInv, PhaseOK, FreshOK, Ready
    <2>2. doc' = [doc EXCEPT !.steps[s].status = "running"]
      BY <1>2 DEF RunPut, Put
    <2>3. /\ doc'.steps[s].checkpoint = doc.steps[s].checkpoint
          /\ \A x \in Steps \ {s} : doc'.steps[x] = doc.steps[x]
          /\ doc'.activated = doc.activated
      BY <2>1, <2>2, WithStatus DEF RolloutInv
    <2> HIDE DEF s
    <2>4. doc'.steps[s].checkpoint >= doc.steps[s].checkpoint
      BY <2>1, <2>3, Counts DEF RolloutInv
    <2> QED
      BY <2>1, <2>3, <2>4, OneEntry
  <1> QED
    BY <1>1, <1>2

(* The end of a step.                                                      *)
LEMMA FinishKept ==
  ASSUME RolloutInv, NEW c \in Controllers, NEW v \in {"done", "failed"},
         pc[c] \in {"done", "fail"}, NEW l,
         Put(c, [doc EXCEPT !.steps[own[c].step].status = v], l)
  PROVE  Kept
  <1>1. CASE ~own[c].fresh
    BY <1>1, SameWork DEF Put, RolloutInv
  <1>2. CASE own[c].fresh
    <2> DEFINE s == own[c].step
    <2>1. s \in Steps /\ Holds(c)
      BY <1>2 DEF RolloutInv, PhaseOK, FreshOK
    <2>2. doc.steps[s].status # "done"
      BY <2>1 DEF RolloutInv, HolderKnows
    <2>3. doc' = [doc EXCEPT !.steps[s].status = v]
      BY <1>2 DEF Put
    <2>4. v \in {"pending", "running", "done", "failed"}
      OBVIOUS
    <2>5. /\ doc'.steps[s].checkpoint = doc.steps[s].checkpoint
          /\ \A x \in Steps \ {s} : doc'.steps[x] = doc.steps[x]
          /\ doc'.activated = doc.activated
      BY <2>1, <2>3, <2>4, WithStatus DEF RolloutInv
    <2> HIDE DEF s
    <2>6. doc'.steps[s].checkpoint >= doc.steps[s].checkpoint
      BY <2>1, <2>5, Counts DEF RolloutInv
    <2> QED
      BY <2>1, <2>2, <2>5, <2>6, OneEntry
  <1> QED
    BY <1>1, <1>2

LEMMA SavePutKept ==
  ASSUME RolloutInv, NEW c \in Controllers, SavePut(c)
  PROVE  Kept
  <1>1. CASE ~own[c].fresh
    BY <1>1, SameWork DEF SavePut, RolloutInv
  <1>2. CASE own[c].fresh
    <2> DEFINE s == own[c].step
               u == own[c].unit + 1
    <2>1. s \in Steps /\ Holds(c) /\ own[c].unit < NUnits /\ own[c].unit \in Units
      BY <1>2, OwnTyped DEF SavePut, RolloutInv, PhaseOK, FreshOK
    <2>2. doc.steps[s].status # "done" /\ doc.steps[s].checkpoint = own[c].unit
      BY <2>1 DEF SavePut, RolloutInv, HolderKnows
    <2>3. u \in Units /\ u >= own[c].unit
      BY <2>1, RolloutsAssumption DEF Units
    <2>4. doc' = [doc EXCEPT !.steps[s].checkpoint = u]
      BY <1>2 DEF SavePut, Put
    <2> HIDE DEF u
    <2>5. /\ doc'.steps[s].checkpoint = u
          /\ \A x \in Steps \ {s} : doc'.steps[x] = doc.steps[x]
          /\ doc'.activated = doc.activated
      BY <2>1, <2>3, <2>4, WithCheckpoint DEF RolloutInv
    <2> QED
      BY <2>1, <2>2, <2>3, <2>5, OneEntry
  <1> QED
    BY <1>1, <1>2

LEMMA ActivatePutKept ==
  ASSUME RolloutInv, NEW c \in Controllers, ActivatePut(c)
  PROVE  Kept
  <1>1. CASE ~own[c].fresh
    BY <1>1, SameWork DEF ActivatePut, Put, RolloutInv
  <1>2. CASE own[c].fresh
    <2>1. doc' = [doc EXCEPT !.activated[own[c].grant] = @ + 1]
      BY <1>2 DEF ActivatePut, Put
    <2>2. own[c].grant \in Grants
      BY DEF ActivatePut, RolloutInv, PhaseOK
    <2>3. /\ doc'.steps = doc.steps
          /\ \A g \in Grants : doc'.activated[g] \in {doc.activated[g], doc.activated[g] + 1}
      BY <2>1, <2>2 DEF RolloutInv, RolloutTypeOK, Document
    <2> QED
      BY <2>3, Counts DEF Kept, RolloutInv
  <1> QED
    BY <1>1, <1>2

LEMMA OtherWritesKept ==
  ASSUME RolloutInv, NEW c \in Controllers, AcquirePut(c) \/ RolledPut(c) \/ CompletePut(c)
  PROVE  Kept
  <1>1. doc'.steps = doc.steps /\ doc'.activated = doc.activated
    BY DEF AcquirePut, RolledPut, CompletePut, Put, RolloutInv, RolloutTypeOK, Document
  <1> QED
    BY <1>1, SameWork DEF RolloutInv

(* Every other step leaves the document as it is.                          *)
LEMMA NextKept == RolloutInv /\ RolloutNext => Kept
  <1> SUFFICES ASSUME RolloutInv, RolloutNext PROVE Kept
    OBVIOUS
  <1>1. CASE doc' = doc
    BY <1>1, SameWork DEF RolloutInv
  <1>2. ASSUME NEW c \in Controllers, AcquirePut(c) \/ RolledPut(c) \/ CompletePut(c)
        PROVE  Kept
    BY <1>2, OtherWritesKept
  <1>3. ASSUME NEW c \in Controllers, RunPut(c) \/ SavePut(c) \/ ActivatePut(c)
        PROVE  Kept
    BY <1>3, RunPutKept, SavePutKept, ActivatePutKept
  <1>4. ASSUME NEW c \in Controllers, FailPut(c) \/ DonePut(c)
        PROVE  Kept
    BY <1>4, FinishKept DEF FailPut, DonePut
  <1>5. ASSUME NEW c \in Controllers,
               \/ AcquireLoad(c) \/ Renew(c) \/ Crash(c) \/ SaveLoad(c) \/ FailLoad(c)
               \/ DoneLoad(c) \/ ActivateFails(c) \/ Activated(c) \/ RollbackLoad(c)
               \/ RolledLoad(c) \/ CompleteLoad(c)
        PROVE  doc' = doc
    BY <1>5 DEF AcquireLoad, Renew, Crash, SaveLoad, FailLoad, DoneLoad, ActivateFails,
       Activated, RollbackLoad, RolledLoad, CompleteLoad, Abandon
  <1>6. ASSUME NEW c \in Controllers, NEW s \in Steps, RunLoad(c, s)
        PROVE  doc' = doc
    BY <1>6 DEF RunLoad
  <1>7. ASSUME NEW c \in Controllers, NEW g \in Grants, ActivateLoad(c, g)
        PROVE  doc' = doc
    BY <1>7 DEF ActivateLoad
  <1>8. CASE Expire
    BY <1>1, <1>8 DEF Expire
  <1> QED
    BY <1>1, <1>2, <1>3, <1>4, <1>5, <1>6, <1>7, <1>8 DEF RolloutNext

-----------------------------------------------------------------------------
(* The invariant holds of every behaviour of the ledger.                   *)
THEOREM RolloutInvHolds == RolloutSpec => []RolloutInv
  <1> QED
    BY InitRolloutInv, NextRolloutInv, PTL DEF RolloutSpec

(* Type correctness of the rollout document and of the controllers.        *)
THEOREM RolloutTypeCorrect == RolloutSpec => []RolloutTypeOK
  <1>1. RolloutInv => RolloutTypeOK
    BY DEF RolloutInv
  <1> QED
    BY <1>1, RolloutInvHolds, PTL

(* The plan's order: run starts a step only when every one before it is    *)
(* done, and complete finds all of them done, whoever held the lease.      *)
THEOREM StepsInOrderHolds == RolloutSpec => []StepsInOrder
  <1>1. RolloutInv => StepsInOrder
    BY DEF RolloutInv
  <1> QED
    BY <1>1, RolloutInvHolds, PTL

(* The controller with the lease goes on from what save and                *)
(* activateGrantOnce recorded last, and no grant is recorded twice.        *)
THEOREM HolderKnowsHolds == RolloutSpec => []HolderKnows
  <1>1. RolloutInv => HolderKnows
    BY DEF RolloutInv
  <1> QED
    BY <1>1, RolloutInvHolds, PTL

(* put, a compare-and-swap behind the guard of the token, loses nothing    *)
(* recorded: done steps, checkpoints and grants stay, and only the         *)
(* controller with the last token writes the steps.                        *)
THEOREM WorkKeptHolds == RolloutSpec => WorkKept
  <1>1. RolloutInv /\ [RolloutNext]_rolloutVars => [Kept]_rolloutVars
    BY NextKept
  <1>2. RolloutSpec => [][Kept]_rolloutVars
    BY <1>1, RolloutInvHolds, PTL DEF RolloutSpec
  <1> QED
    BY <1>2 DEF WorkKept, Kept
=============================================================================
