----------------------------- MODULE WorkQueue -----------------------------
(***************************************************************************)
(* Work queues: one board document holds a queue's tasks and runners, and  *)
(* every operation reads it, changes its copy and writes it back with a    *)
(* compare-and-swap, retrying when another write came first.  A claim is a *)
(* lease with a generation; a runner works on a task as long as it         *)
(* believes in the lease it was told of, and may call back late.           *)
(*                                                                         *)
(* Operations are atomic, as the compare-and-swap makes them, but for the  *)
(* clock: it is read between the read of the board and its write, so an    *)
(* operation may judge leases by a time up to MaxLag ago, on a board not   *)
(* written since.  Instants are kept as time left from now.                *)
(***************************************************************************)
EXTENDS Integers, Sequences, FiniteSets

CONSTANTS
  Tasks,         \* task ids
  Runners,       \* runner ids
  Capabilities,  \* what runners can and tasks need
  Needs,         \* [Tasks -> SUBSET Capabilities]
  Priority,      \* [Tasks -> Int]
  LeaseMs, MaxAttempts, MaxTasks, MaxRunners,   \* the queue's definition
  MaxLag,        \* bound: longest time between reading the clock and writing
  None           \* absent

ASSUME WorkQueueAssumption ==
  /\ Needs \in [Tasks -> SUBSET Capabilities]
  /\ Priority \in [Tasks -> Int]
  /\ LeaseMs \in Nat \ {0} /\ MaxAttempts \in Nat \ {0}
  /\ MaxTasks \in Nat /\ MaxRunners \in Nat /\ MaxLag \in Nat
  /\ None \notin Runners \cup Int
  /\ None \notin [caps : SUBSET Capabilities, online : BOOLEAN, seen : Int]
  /\ None \notin [runner : Runners, left : Int]

Active == {"claimed", "running"}
Terminal == {"completed", "failed", "cancelled"}
Generations == 1 .. MaxAttempts

(* Time left of a lease.  Below -MaxLag it is over for every operation.    *)
Left == (-MaxLag) .. LeaseMs

Kinds ==
  {"enqueued", "claimed", "started", "completed", "retry", "exhausted", "cancelled",
   "lease-expired"}
Evidence ==
  [kind : Kinds, generation : 0 .. MaxAttempts, runner : Runners \cup {None}]
Task ==
  [status : {"absent", "queued"} \cup Active \cup Terminal,
   generation : 0 .. MaxAttempts, attempts : 0 .. MaxAttempts,
   runner : Runners \cup {None}, lease : Left \cup {None}, history : Seq(Evidence)]

(* Draining and offline runners are told apart by nothing in the queue.    *)
Runner == [caps : SUBSET Capabilities, online : BOOLEAN, seen : Left]

Claim == [runner : Runners, left : Left]

VARIABLES
  task,    \* [Tasks -> Task], the board's tasks
  runner,  \* [Runners -> Runner \cup {None}], the board's runners
  quiet,   \* how long the board has not been written, up to MaxLag
  hand     \* [Tasks -> [Generations -> Claim \cup {None}]], what runners believe to hold

vars == <<task, runner, quiet, hand>>

NoTask ==
  [status |-> "absent", generation |-> 0, attempts |-> 0, runner |-> None,
   lease |-> None, history |-> <<>>]

Lags == 0 .. quiet

-----------------------------------------------------------------------------
(* evidence: an entry on the task as the operation has changed it.         *)
Witness(t, kind) ==
  [t EXCEPT !.history = Append(@, [kind |-> kind, generation |-> t.generation, runner |-> t.runner])]

(* Mutant: the generation is not compared.                                 *)
FencedByRunner(t, r, g, lag) ==
  task[t].runner = r /\ task[t].status \in Active /\ task[t].lease + lag > 0

(* fenced: r holds generation g of the task and the lease is not over.     *)
Fenced(t, r, g, lag) ==
  /\ task[t].runner = r /\ task[t].generation = g
  /\ task[t].status \in Active
  /\ task[t].lease + lag > 0

(* fail and reapExpired: back to the queue, or failed on the last attempt. *)
(* The runner stays on the task.                                           *)
Requeued(t, kind) ==
  LET over == t.attempts >= MaxAttempts
  IN Witness([t EXCEPT !.status = IF over THEN "failed" ELSE "queued", !.lease = None],
             IF over THEN "exhausted" ELSE kind)

-----------------------------------------------------------------------------
Init ==
  /\ task = [t \in Tasks |-> NoTask]
  /\ runner = [r \in Runners |-> None]
  /\ quiet = 0
  /\ hand = [t \in Tasks |-> [g \in Generations |-> None]]

(* register: a runner announces itself, anew or again.                     *)
Register(r, lag) ==
  /\ runner[r] # None \/ Cardinality({q \in Runners : runner[q] # None}) < MaxRunners
  /\ \E caps \in SUBSET Capabilities, online \in BOOLEAN :
       runner' = [runner EXCEPT ![r] = [caps |-> caps, online |-> online, seen |-> LeaseMs - lag]]
  /\ quiet' = 0
  /\ UNCHANGED <<task, hand>>

(* enqueue: ids are never reused, and finished tasks keep their place.     *)
Enqueue(t) ==
  /\ task[t].status = "absent"
  /\ Cardinality({u \in Tasks : task[u].status # "absent"}) < MaxTasks
  /\ task' = [task EXCEPT ![t] = Witness([@ EXCEPT !.status = "queued"], "enqueued")]
  /\ quiet' = 0
  /\ UNCHANGED <<runner, hand>>

(* The tasks a runner can be given, of the highest priority among them;    *)
(* the order among equals is left open.                                    *)
Candidates(r) ==
  LET fit == {t \in Tasks : task[t].status = "queued" /\ Needs[t] \subseteq runner[r].caps}
  IN {t \in fit : \A u \in fit : Priority[u] <= Priority[t]}

(* claimNext: the runner must be online and recently seen.  Its answer may *)
(* be lost, and then nobody knows of the claim.                            *)
ClaimNext(r, t, lag) ==
  /\ runner[r] # None
  /\ runner[r].online /\ runner[r].seen + lag > 0
  /\ t \in Candidates(r)
  /\ LET g == task[t].generation + 1
         claimed == [task[t] EXCEPT !.status = "claimed", !.runner = r, !.generation = g,
                                    !.attempts = @ + 1, !.lease = LeaseMs - lag]
     IN /\ task' = [task EXCEPT ![t] = Witness(claimed, "claimed")]
        /\ \E told \in BOOLEAN :
             hand' = IF told THEN [hand EXCEPT ![t][g] = [runner |-> r, left |-> LeaseMs - lag]]
                     ELSE hand
  /\ quiet' = 0
  /\ UNCHANGED runner

(* start; starting again changes nothing.                                  *)
Start(t, g, lag) ==
  /\ hand[t][g] # None
  /\ Fenced(t, hand[t][g].runner, g, lag)
  /\ task' = [task EXCEPT ![t] =
       IF @.status = "claimed" THEN Witness([@ EXCEPT !.status = "running"], "started") ELSE @]
  /\ quiet' = 0
  /\ UNCHANGED <<runner, hand>>

(* heartbeat: the lease and the runner's presence are extended, and the    *)
(* runner learns of it unless the answer is lost.                          *)
Heartbeat(t, g, lag) ==
  /\ hand[t][g] # None
  /\ Fenced(t, hand[t][g].runner, g, lag)
  /\ task' = [task EXCEPT ![t].lease = LeaseMs - lag]
  /\ LET r == hand[t][g].runner
     IN runner' = IF runner[r] = None THEN runner ELSE [runner EXCEPT ![r].seen = LeaseMs - lag]
  /\ \E told \in BOOLEAN :
       hand' = IF told THEN [hand EXCEPT ![t][g].left = LeaseMs - lag] ELSE hand
  /\ quiet' = 0

(* complete: only a started task can be completed.                         *)
Complete(t, g, lag) ==
  /\ hand[t][g] # None
  /\ Fenced(t, hand[t][g].runner, g, lag)
  /\ task[t].status = "running"
  /\ task' = [task EXCEPT ![t] =
       Witness([@ EXCEPT !.status = "completed", !.lease = None], "completed")]
  /\ hand' = [hand EXCEPT ![t][g] = None]
  /\ quiet' = 0
  /\ UNCHANGED runner

(* fail: the runner gives the task back.                                   *)
Fail(t, g, lag) ==
  /\ hand[t][g] # None
  /\ Fenced(t, hand[t][g].runner, g, lag)
  /\ task' = [task EXCEPT ![t] = Requeued(@, "retry")]
  /\ hand' = [hand EXCEPT ![t][g] = None]
  /\ quiet' = 0
  /\ UNCHANGED runner

(* Mutant: whatever its status, the task is cancelled.                     *)
CancelAnything(t) ==
  /\ task[t].status # "absent"
  /\ task' = [task EXCEPT ![t] =
       Witness([@ EXCEPT !.status = "cancelled", !.lease = None], "cancelled")]
  /\ quiet' = 0
  /\ UNCHANGED <<runner, hand>>

(* cancel: a task that is over stays as it is.                             *)
Cancel(t) ==
  /\ task[t].status \in {"queued"} \cup Active
  /\ task' = [task EXCEPT ![t] =
       Witness([@ EXCEPT !.status = "cancelled", !.lease = None], "cancelled")]
  /\ quiet' = 0
  /\ UNCHANGED <<runner, hand>>

(* Mutant: the reaper leaves no evidence.                                  *)
ReapSilently(lag) ==
  LET expired == {t \in Tasks : task[t].status \in Active /\ task[t].lease + lag <= 0}
  IN /\ expired # {}
     /\ task' = [t \in Tasks |->
          IF t \in expired
          THEN [Requeued(task[t], "lease-expired") EXCEPT !.history = task[t].history]
          ELSE task[t]]
     /\ quiet' = 0
     /\ UNCHANGED <<runner, hand>>

(* reapExpired: every active task whose lease is over, in one write.       *)
ReapExpired(lag) ==
  LET expired == {t \in Tasks : task[t].status \in Active /\ task[t].lease + lag <= 0}
  IN /\ expired # {}
     /\ task' = [t \in Tasks |->
          IF t \in expired THEN Requeued(task[t], "lease-expired") ELSE task[t]]
     /\ quiet' = 0
     /\ UNCHANGED <<runner, hand>>

(* A runner's process dies and forgets a claim.                            *)
Forget(t, g) ==
  /\ hand[t][g] # None
  /\ hand' = [hand EXCEPT ![t][g] = None]
  /\ UNCHANGED <<task, runner, quiet>>

(* Time passes.                                                            *)
Sooner(left) == IF left > -MaxLag THEN left - 1 ELSE left
Tick ==
  /\ task' = [t \in Tasks |->
       [task[t] EXCEPT !.lease = IF @ = None THEN None ELSE Sooner(@)]]
  /\ runner' = [r \in Runners |->
       IF runner[r] = None THEN None ELSE [runner[r] EXCEPT !.seen = Sooner(@)]]
  /\ hand' = [t \in Tasks |-> [g \in Generations |->
       IF hand[t][g] = None THEN None ELSE [hand[t][g] EXCEPT !.left = Sooner(@)]]]
  /\ quiet' = IF quiet < MaxLag THEN quiet + 1 ELSE quiet

Next ==
  \/ Tick
  \/ \E t \in Tasks : Enqueue(t) \/ Cancel(t)
  \/ \E t \in Tasks, g \in Generations : Forget(t, g)
  \/ \E lag \in Lags :
       \/ ReapExpired(lag)
       \/ \E r \in Runners : Register(r, lag) \/ \E t \in Tasks : ClaimNext(r, t, lag)
       \/ \E t \in Tasks, g \in Generations :
            Start(t, g, lag) \/ Heartbeat(t, g, lag) \/ Complete(t, g, lag) \/ Fail(t, g, lag)

Spec == Init /\ [][Next]_vars

-----------------------------------------------------------------------------
(* Every variable keeps its type, and a task has a lease exactly while it  *)
(* is claimed or running.                                                  *)
TypeOK ==
  /\ task \in [Tasks -> Task]
  /\ runner \in [Runners -> Runner \cup {None}]
  /\ quiet \in 0 .. MaxLag
  /\ hand \in [Tasks -> [Generations -> Claim \cup {None}]]
  /\ \A t \in Tasks : (task[t].lease # None) <=> (task[t].status \in Active)

(* A task in the queue has an attempt left, and each attempt had a         *)
(* generation of its own: failing, expiring and being claimed again, by    *)
(* whichever runner, never tries a task more than maxAttempts times.       *)
AttemptsLeft ==
  \A t \in Tasks :
    /\ task[t].generation = task[t].attempts
    /\ task[t].status = "queued" => task[t].attempts < MaxAttempts

(* A runner that believes in its lease is right: the board still gives it  *)
(* the task, at that generation and at least that long, unless the task    *)
(* was cancelled.  So no two runners work on one task at a time, with      *)
(* answers lost, callbacks late and clocks read early.                     *)
BeliefIsTrue ==
  \A t \in Tasks, g \in Generations :
    hand[t][g] # None /\ hand[t][g].left > 0 /\ task[t].status # "cancelled" =>
      /\ task[t].status \in Active
      /\ task[t].generation = g
      /\ task[t].runner = hand[t][g].runner
      /\ task[t].lease >= hand[t][g].left

(* The status an entry leaves a task in.                                   *)
StatusAfter(kind) ==
  CASE kind \in {"enqueued", "retry", "lease-expired"} -> "queued"
    [] kind = "started" -> "running"
    [] kind = "exhausted" -> "failed"
    [] OTHER -> kind

(* The evidence accounts for the task: its last entry explains the status, *)
(* every claim has an entry of its own, and each claim was taken of a      *)
(* queued task.                                                            *)
EvidenceExplains ==
  \A t \in Tasks : LET h == task[t].history
                   IN task[t].status # "absent" =>
    /\ h # <<>> /\ StatusAfter(h[Len(h)].kind) = task[t].status
    /\ \A g \in 1 .. task[t].attempts :
         \E i \in 1 .. Len(h) : h[i].kind = "claimed" /\ h[i].generation = g
    /\ \A i \in 1 .. Len(h) : h[i].kind = "claimed" =>
         i > 1 /\ StatusAfter(h[i - 1].kind) = "queued" /\ h[i - 1].generation < h[i].generation

(* What is over stays over: no late callback, cancellation or reaper ever  *)
(* changes a completed, failed or cancelled task again.                    *)
TerminalIsFinal ==
  [][\A t \in Tasks : task[t].status \in Terminal => task'[t] = task[t]]_vars

=============================================================================
