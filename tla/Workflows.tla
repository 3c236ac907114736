----------------------------- MODULE Workflows -----------------------------
(***************************************************************************)
(* Durable workflows.  An instance is a document holding the position in   *)
(* the compiled program; several drivers (requests, the sweep, a signal's  *)
(* delivery, a provider's driver) may advance the same instance at once,   *)
(* each from the copy it loaded, and every transition is a compare-and-    *)
(* swap write.  A driver that loses one reloads and goes on.  Around the   *)
(* instance are lists of their own: the active instances, the waiters of a *)
(* wait step, its inbox of signals, and the receipts of activities.        *)
(*                                                                         *)
(* One workflow, one correlation key and one message name are modelled;    *)
(* the bounded retries on list documents always succeed.                   *)
(***************************************************************************)
EXTENDS Integers, Sequences, FiniteSets

CONSTANTS
  Instances,   \* instance ids; each is made by one call of start
  Keys,        \* idempotency keys of start
  KeyOf,       \* [Instances -> Keys], the key each call of start carries
  Drivers,     \* drivers that may be at work at once
  Messages,    \* message ids
  Program,     \* the compiled program, a sequence of nodes
  MaxFaults,   \* bound: drivers that die and writes of driver state, together
  None         \* null

(* A node: what it is, where it goes, where a choice not taken goes, and   *)
(* the terminal status of a caught error or of a timeout (None: a wait     *)
(* without timeout).                                                       *)
Node ==
  [kind : {"call", "sleep", "wait", "choice", "return", "fail"},
   next : Nat, otherwise : Nat, exit : {"completed", "failed", None}]

Steps == 1 .. Len(Program)
WaitSteps == {k \in Steps : Program[k].kind = "wait"}

Live == {"running", "waiting", "sleeping"}
Over == {"completed", "failed", "cancelled"}

(* Where a call of start is: what it does next, or that it has returned,   *)
(* or died before it listed its instance or after.                         *)
StartPhases == {"new", "create", "key", "register", "enroll", "done", "dead", "listed"}

(* An instance's document, and what its callers see of it.                 *)
Document ==
  [status : Live \cup Over, pc : Nat, consumed : SUBSET Messages,
   history : Seq(Steps \cup {0}), version : Nat \ {0}]

State ==
  [status : Live \cup Over, pc : Nat, consumed : SUBSET Messages, history : Seq(Steps \cup {0})]

ASSUME WorkflowsAssumption ==
  /\ KeyOf \in [Instances -> Keys]
  /\ Program \in Seq(Node)
  /\ MaxFaults \in Nat
  /\ None \notin Instances \cup Nat \cup Document \cup State \cup {"completed", "failed"}

(* Where step k may go.                                                    *)
Successors(k) ==
  {Program[k].next} \cup IF Program[k].kind = "choice" THEN {Program[k].otherwise} ELSE {}

(* compile turns nested lists of steps into nodes that go on only to nodes *)
(* written after them: the program has no loops.  (The numbers of the      *)
(* nodes need not rise: a branch is numbered after the node it joins.)     *)
(* The error of a call ends the instance one way or the other.             *)
ASSUME ProgramAssumption ==
  /\ \E rank \in [Steps -> Steps] :
       \A k \in Steps : \A p \in Successors(k) \cap Steps : rank[p] > rank[k]
  /\ \A k \in Steps : Program[k].kind = "call" => Program[k].exit # None

VARIABLES
  inst,      \* [Instances -> document or None]
  keyDoc,    \* [Keys -> Instances \cup {None}], the start key documents
  active,    \* the list of active instances
  enrolled,  \* the tenant is in the registry of tenants to sweep
  waiters,   \* [WaitSteps -> SUBSET Instances]
  inbox,     \* [WaitSteps -> SUBSET Messages]
  receipts,  \* keys <<instance, step, pass>> of activities that committed
  starting,  \* [Instances -> where its call of start is]
  dpc,       \* [Drivers -> where the driver is]
  drv,       \* [Drivers -> the driver's locals]
  sig,       \* [Messages -> where its delivery is]
  wanted,    \* instances that a start or a signal is about to advance
  elapsed,   \* [Instances -> steps whose timer is due]
  parks,     \* history: writes of driver state
  crashes,   \* history: drivers that died
  effects,   \* history: [Instances -> [Steps -> Nat]], activities performed
  raced,     \* history: keys for which two starts overlapped
  late       \* history: instances that were over before start listed them

stored == <<inst, keyDoc, active, enrolled, waiters, inbox, receipts>>
history == <<parks, crashes, effects, raced, late>>
vars == <<inst, keyDoc, active, enrolled, waiters, inbox, receipts, starting, dpc, drv, sig,
          wanted, elapsed, parks, crashes, effects, raced, late>>

FreshInstance ==
  [status |-> "running", pc |-> 1, consumed |-> {}, history |-> <<>>, version |-> 1]
NoDriver == [i |-> None, copy |-> None, next |-> None, due |-> FALSE]
Undelivered == [stage |-> "unsent", step |-> 0, todo |-> {}]

(* Mutant: the key follows the instance's version.                         *)
VersionKey(i, copy, k) == <<i, k, copy.version>>

(* stepIdempotencyKey: which pass of which step of which instance.         *)
StepKey(i, copy, k) ==
  <<i, k, Cardinality({x \in 1 .. Len(copy.history) : copy.history[x] = k})>>

(* finish: the status is terminal and the step is noted.                   *)
Finish(copy, status, k) == [copy EXCEPT !.status = status, !.history = Append(@, k)]

(* A step that is done with: on to position p.                             *)
Proceed(copy, k, p) ==
  [copy EXCEPT !.status = "running", !.pc = p, !.history = Append(@, k)]

-----------------------------------------------------------------------------
Init ==
  /\ inst = [i \in Instances |-> None]
  /\ keyDoc = [q \in Keys |-> None]
  /\ active = {} /\ enrolled = FALSE
  /\ waiters = [k \in WaitSteps |-> {}]
  /\ inbox = [k \in WaitSteps |-> {}]
  /\ receipts = {}
  /\ starting = [i \in Instances |-> "new"]
  /\ dpc = [d \in Drivers |-> "idle"]
  /\ drv = [d \in Drivers |-> NoDriver]
  /\ sig = [m \in Messages |-> Undelivered]
  /\ wanted = {}
  /\ elapsed = [i \in Instances |-> {}]
  /\ parks = 0 /\ crashes = 0
  /\ effects = [i \in Instances |-> [k \in Steps |-> 0]]
  /\ raced = {} /\ late = {}

-----------------------------------------------------------------------------
(* start, one document at a time                                           *)

(* The key document is looked up; when it is there, start only reads the   *)
(* instance it names.                                                      *)
LookUpKey(i) ==
  LET q == KeyOf[i]
      others == {j \in Instances \ {i} : KeyOf[j] = q /\ starting[j] \in {"create", "key"}}
  IN /\ starting[i] = "new"
     /\ starting' = [starting EXCEPT ![i] = IF keyDoc[q] # None THEN "done" ELSE "create"]
     /\ raced' = IF keyDoc[q] = None /\ others # {} THEN raced \cup {q} ELSE raced
     /\ UNCHANGED <<stored, dpc, drv, sig, wanted, elapsed, parks, crashes, effects, late>>

Create(i) ==
  /\ starting[i] = "create"
  /\ inst' = [inst EXCEPT ![i] = FreshInstance]
  /\ starting' = [starting EXCEPT ![i] = "key"]
  /\ UNCHANGED <<keyDoc, active, enrolled, waiters, inbox, receipts, dpc, drv, sig, wanted,
                 elapsed, history>>

(* Mutant: the key document is not written.                                *)
SkipKey(i) ==
  /\ starting[i] = "key"
  /\ starting' = [starting EXCEPT ![i] = "register"]
  /\ UNCHANGED <<stored, dpc, drv, sig, wanted, elapsed, history>>

(* The key document is created; that it exists already goes unnoticed.     *)
PutKey(i) ==
  /\ starting[i] = "key"
  /\ keyDoc' = IF keyDoc[KeyOf[i]] = None THEN [keyDoc EXCEPT ![KeyOf[i]] = i] ELSE keyDoc
  /\ starting' = [starting EXCEPT ![i] = "register"]
  /\ UNCHANGED <<inst, active, enrolled, waiters, inbox, receipts, dpc, drv, sig, wanted, elapsed,
                 history>>

(* The instance is put on the active list, whatever has become of it since *)
(* it was created.                                                         *)
Register(i) ==
  /\ starting[i] = "register"
  /\ active' = active \cup {i}
  /\ late' = IF inst[i].status \in Over THEN late \cup {i} ELSE late
  /\ starting' = [starting EXCEPT ![i] = "enroll"]
  /\ UNCHANGED <<inst, keyDoc, enrolled, waiters, inbox, receipts, dpc, drv, sig, wanted, elapsed,
                 parks, crashes, effects, raced>>

(* The tenant is put in the registry, and the instance is to be advanced.  *)
Enroll(i) ==
  /\ starting[i] = "enroll"
  /\ enrolled' = TRUE
  /\ wanted' = wanted \cup {i}
  /\ starting' = [starting EXCEPT ![i] = "done"]
  /\ UNCHANGED <<inst, keyDoc, active, waiters, inbox, receipts, dpc, drv, sig, elapsed, history>>

(* The caller of start dies with its work half done, before the instance   *)
(* was listed or after.                                                    *)
StartDies(i) ==
  /\ starting[i] \in {"create", "key", "register", "enroll"}
  /\ starting' = [starting EXCEPT ![i] = IF starting[i] = "enroll" THEN "listed" ELSE "dead"]
  /\ UNCHANGED <<stored, dpc, drv, sig, wanted, elapsed, history>>

-----------------------------------------------------------------------------
(* advance                                                                 *)

(* The copy the driver holds is the stored one.                            *)
Current(d) == inst[drv[d].i].version = drv[d].copy.version

(* Mutant: the sweep passes over what was advanced before.                 *)
LoadWanted(d, i) ==
  /\ dpc[d] = "idle"
  /\ i \in wanted
  /\ drv' = [drv EXCEPT ![d] = [NoDriver EXCEPT !.i = i, !.copy = inst[i]]]
  /\ dpc' = [dpc EXCEPT ![d] = "loop"]
  /\ wanted' = wanted \ {i}
  /\ UNCHANGED <<stored, starting, sig, elapsed, history>>

(* A driver loads an instance: one a sweep of the tenant finds on the      *)
(* active list, or one a start or a signal wants advanced.                 *)
Load(d, i) ==
  /\ dpc[d] = "idle"
  /\ i \in active \cup wanted
  /\ drv' = [drv EXCEPT ![d] = [NoDriver EXCEPT !.i = i, !.copy = inst[i]]]
  /\ dpc' = [dpc EXCEPT ![d] = "loop"]
  /\ wanted' = wanted \ {i}
  /\ UNCHANGED <<stored, starting, sig, elapsed, history>>

(* The next round of the loop: the clock is read and the node is taken up. *)
(* A copy that is over, or a sleep not yet due, ends the driver's work.    *)
Round(d) ==
  LET i == drv[d].i
      copy == drv[d].copy
      k == copy.pc
      node == Program[k]
      due == k \in elapsed[i]
      To(step, next) ==
        /\ dpc' = [dpc EXCEPT ![d] = step]
        /\ drv' = IF step = "idle" THEN [drv EXCEPT ![d] = NoDriver]
                  ELSE [drv EXCEPT ![d].next = next, ![d].due = due]
  IN /\ dpc[d] = "loop"
     /\ IF copy.status \in Over THEN To("idle", None)
        ELSE IF k \notin Steps THEN To("save", Finish(copy, "completed", 0))
        ELSE CASE node.kind = "call" -> To("call", None)
               [] node.kind = "sleep" /\ copy.status # "sleeping" ->
                    To("save", [copy EXCEPT !.status = "sleeping"])
               [] node.kind = "sleep" /\ copy.status = "sleeping" ->
                    IF due THEN To("save", Proceed(copy, k, node.next)) ELSE To("idle", None)
               [] node.kind = "wait" ->
                    To(IF copy.status = "waiting" THEN "inbox" ELSE "register", None)
               [] node.kind = "choice" ->
                    \E p \in {node.next, node.otherwise} : To("save", Proceed(copy, k, p))
               [] node.kind = "return" -> To("save", Finish(copy, "completed", k))
               [] node.kind = "fail" -> To("save", Finish(copy, "failed", k))
     /\ UNCHANGED <<stored, starting, sig, wanted, elapsed, history>>

(* A call whose receipt exists is answered from it.                        *)
Replay(d) ==
  LET copy == drv[d].copy
      known == StepKey(drv[d].i, copy, copy.pc) \in receipts
  IN /\ dpc[d] = "call"
     /\ dpc' = [dpc EXCEPT ![d] = IF known THEN "save" ELSE "perform"]
     /\ drv' = IF known THEN [drv EXCEPT ![d].next = Proceed(copy, copy.pc, Program[copy.pc].next)]
               ELSE drv
     /\ UNCHANGED <<stored, starting, sig, wanted, elapsed, history>>

(* Otherwise the activity commits along with its receipt, or fails without *)
(* a trace, or finds that another driver's call committed first: then this *)
(* one reloads.                                                            *)
Perform(d) ==
  LET i == drv[d].i
      copy == drv[d].copy
      k == copy.pc
      key == StepKey(i, copy, k)
  IN /\ dpc[d] = "perform"
     /\ \/ /\ key \in receipts
           /\ dpc' = [dpc EXCEPT ![d] = "reload"]
           /\ UNCHANGED <<receipts, effects, drv>>
        \/ /\ key \notin receipts
           /\ receipts' = receipts \cup {key}
           /\ effects' = [effects EXCEPT ![i][k] = @ + 1]
           /\ drv' = [drv EXCEPT ![d].next = Proceed(copy, k, Program[k].next)]
           /\ dpc' = [dpc EXCEPT ![d] = "save"]
        \/ /\ drv' = [drv EXCEPT ![d].next = Finish(copy, Program[k].exit, k)]
           /\ dpc' = [dpc EXCEPT ![d] = "save"]
           /\ UNCHANGED <<receipts, effects>>
     /\ UNCHANGED <<inst, keyDoc, active, enrolled, waiters, inbox, starting, sig, wanted, elapsed,
                    parks, crashes, raced, late>>

(* Mutant: the status is saved without a waiter.                           *)
WaitUnregistered(d) ==
  LET copy == drv[d].copy
  IN /\ dpc[d] = "register"
     /\ drv' = [drv EXCEPT ![d].next = [copy EXCEPT !.status = "waiting"]]
     /\ dpc' = [dpc EXCEPT ![d] = "save"]
     /\ UNCHANGED <<stored, starting, sig, wanted, elapsed, history>>

(* A wait begins: the waiter is registered before the status is saved.     *)
RegisterWaiter(d) ==
  LET copy == drv[d].copy
  IN /\ dpc[d] = "register"
     /\ waiters' = [waiters EXCEPT ![copy.pc] = @ \cup {drv[d].i}]
     /\ drv' = [drv EXCEPT ![d].next = [copy EXCEPT !.status = "waiting"]]
     /\ dpc' = [dpc EXCEPT ![d] = "save"]
     /\ UNCHANGED <<inst, keyDoc, active, enrolled, inbox, receipts, starting, sig, wanted,
                    elapsed, history>>

(* Mutant: a signal already consumed is taken again.                       *)
AnySignal(copy) == inbox[copy.pc]

(* The signals of the inbox the instance has not consumed.                 *)
Unconsumed(copy) == inbox[copy.pc] \ copy.consumed

(* A wait looks at its inbox: a signal, or else a timeout that was due     *)
(* when the round began, or else it is blocked.                            *)
ReadInbox(d) ==
  LET copy == drv[d].copy
      k == copy.pc
      timesOut == drv[d].due /\ Program[k].exit # None
  IN /\ dpc[d] = "inbox"
     /\ \/ \E m \in Unconsumed(copy) :
             /\ drv' = [drv EXCEPT ![d].next =
                   [Proceed(copy, k, Program[k].next) EXCEPT !.consumed = @ \cup {m}]]
             /\ dpc' = [dpc EXCEPT ![d] = "unregister"]
        \/ /\ Unconsumed(copy) = {} /\ timesOut
           /\ drv' = [drv EXCEPT ![d].next = Finish(copy, Program[k].exit, k)]
           /\ dpc' = [dpc EXCEPT ![d] = "unregister"]
        \/ /\ Unconsumed(copy) = {} /\ ~timesOut
           /\ drv' = [drv EXCEPT ![d] = NoDriver]
           /\ dpc' = [dpc EXCEPT ![d] = "idle"]
     /\ UNCHANGED <<stored, starting, sig, wanted, elapsed, history>>

(* The wait is over: the waiter is taken off before the state is saved.    *)
UnregisterWaiter(d) ==
  /\ dpc[d] = "unregister"
  /\ waiters' = [waiters EXCEPT ![drv[d].copy.pc] = @ \ {drv[d].i}]
  /\ dpc' = [dpc EXCEPT ![d] = "save"]
  /\ UNCHANGED <<inst, keyDoc, active, enrolled, inbox, receipts, starting, drv, sig, wanted,
                 elapsed, history>>

(* Mutant: the next state is written over whatever is stored.              *)
SaveBlindly(d) ==
  LET saved == [drv[d].next EXCEPT !.version = @ + 1]
  IN /\ dpc[d] = "save"
     /\ inst' = [inst EXCEPT ![drv[d].i] = saved]
     /\ drv' = [drv EXCEPT ![d].copy = saved, ![d].next = None]
     /\ dpc' = [dpc EXCEPT ![d] = IF saved.status \in Over THEN "leave" ELSE "loop"]
     /\ UNCHANGED <<keyDoc, active, enrolled, waiters, inbox, receipts, starting, sig, wanted,
                    elapsed, history>>

(* save: a compare-and-swap on the version of the copy.  The loser reloads *)
(* the instance.                                                           *)
Save(d) ==
  LET saved == [drv[d].next EXCEPT !.version = @ + 1]
  IN /\ dpc[d] = "save"
     /\ IF Current(d)
        THEN /\ inst' = [inst EXCEPT ![drv[d].i] = saved]
             /\ drv' = [drv EXCEPT ![d].copy = saved, ![d].next = None]
             /\ dpc' = [dpc EXCEPT ![d] = IF saved.status \in Over THEN "leave" ELSE "loop"]
        ELSE /\ dpc' = [dpc EXCEPT ![d] = "reload"]
             /\ drv' = [drv EXCEPT ![d].next = None]
             /\ UNCHANGED inst
     /\ UNCHANGED <<keyDoc, active, enrolled, waiters, inbox, receipts, starting, sig, wanted,
                    elapsed, history>>

Reload(d) ==
  /\ dpc[d] = "reload"
  /\ drv' = [drv EXCEPT ![d].copy = inst[drv[d].i]]
  /\ dpc' = [dpc EXCEPT ![d] = "loop"]
  /\ UNCHANGED <<stored, starting, sig, wanted, elapsed, history>>

(* Mutant: a finished instance stays on the list.                          *)
LeaveListed(d) ==
  /\ dpc[d] = "leave"
  /\ dpc' = [dpc EXCEPT ![d] = "loop"]
  /\ UNCHANGED <<stored, starting, drv, sig, wanted, elapsed, history>>

(* The second half of a save that ended the instance.                      *)
Leave(d) ==
  /\ dpc[d] = "leave"
  /\ active' = active \ {drv[d].i}
  /\ dpc' = [dpc EXCEPT ![d] = "loop"]
  /\ UNCHANGED <<inst, keyDoc, enrolled, waiters, inbox, receipts, starting, drv, sig, wanted,
                 elapsed, history>>

(* Somebody has the id: start returned it, or another call with the same   *)
(* key did, which reads it from the key document.                          *)
Known(i) == starting[i] = "done" \/ keyDoc[KeyOf[i]] = i

(* cancel of an instance that is not over; the list is updated next, and   *)
(* then nothing is left to do.  It may come before start has listed the    *)
(* instance.                                                               *)
Cancel(d, i) ==
  LET at == IF inst[i].status = "running" THEN 0 ELSE inst[i].pc
      saved == [Finish(inst[i], "cancelled", at) EXCEPT !.version = @ + 1]
  IN /\ dpc[d] = "idle"
     /\ Known(i)
     /\ inst[i] # None /\ inst[i].status \in Live
     /\ inst' = [inst EXCEPT ![i] = saved]
     /\ drv' = [drv EXCEPT ![d] = [NoDriver EXCEPT !.i = i, !.copy = saved]]
     /\ dpc' = [dpc EXCEPT ![d] = "leave"]
     /\ UNCHANGED <<keyDoc, active, enrolled, waiters, inbox, receipts, starting, sig, wanted,
                    elapsed, history>>

(* setDriverState: a provider's driver parks a handle on the instance.     *)
Park(i) ==
  /\ inst[i] # None
  /\ parks + crashes < MaxFaults
  /\ inst' = [inst EXCEPT ![i].version = @ + 1]
  /\ parks' = parks + 1
  /\ UNCHANGED <<keyDoc, active, enrolled, waiters, inbox, receipts, starting, dpc, drv, sig,
                 wanted, elapsed, crashes, effects, raced, late>>

(* A driver dies, or gives up: its activity died of a defect, or its       *)
(* retries are used up.                                                    *)
Crash(d) ==
  /\ dpc[d] # "idle"
  /\ parks + crashes < MaxFaults
  /\ dpc' = [dpc EXCEPT ![d] = "idle"]
  /\ drv' = [drv EXCEPT ![d] = NoDriver]
  /\ crashes' = crashes + 1
  /\ UNCHANGED <<stored, starting, sig, wanted, elapsed, parks, effects, raced, late>>

-----------------------------------------------------------------------------
(* signal                                                                  *)

(* The wait step after position k that the message is delivered to next.   *)
NextWait(k) ==
  LET later == {w \in WaitSteps : w > k}
  IN IF later = {} THEN 0 ELSE CHOOSE w \in later : \A v \in later : w <= v

(* The transport hands over a message, for the first time or again.        *)
Signal(m) ==
  /\ sig[m].stage \in {"unsent", "acked"}
  /\ NextWait(0) # 0
  /\ sig' = [sig EXCEPT ![m] = [stage |-> "put", step |-> NextWait(0), todo |-> {}]]
  /\ UNCHANGED <<stored, starting, dpc, drv, wanted, elapsed, history>>

(* The message is kept in the step's inbox, once.                          *)
PutInbox(m) ==
  /\ sig[m].stage = "put"
  /\ inbox' = [inbox EXCEPT ![sig[m].step] = @ \cup {m}]
  /\ sig' = [sig EXCEPT ![m].stage = "look"]
  /\ UNCHANGED <<inst, keyDoc, active, enrolled, waiters, receipts, starting, dpc, drv, wanted,
                 elapsed, history>>

ReadWaiters(m) ==
  /\ sig[m].stage = "look"
  /\ sig' = [sig EXCEPT ![m].stage = "wake", ![m].todo = waiters[sig[m].step]]
  /\ UNCHANGED <<stored, starting, dpc, drv, wanted, elapsed, history>>

(* A waiter is advanced when it waits and has not consumed the message.    *)
Wake(m, i) ==
  /\ sig[m].stage = "wake"
  /\ i \in sig[m].todo
  /\ sig' = [sig EXCEPT ![m].todo = @ \ {i}]
  /\ wanted' = IF inst[i].status = "waiting" /\ m \notin inst[i].consumed
               THEN wanted \cup {i} ELSE wanted
  /\ UNCHANGED <<stored, starting, dpc, drv, elapsed, history>>

(* On to the next wait step; after the last one the message is acked.      *)
WokenAll(m) ==
  LET k == NextWait(sig[m].step)
  IN /\ sig[m].stage = "wake" /\ sig[m].todo = {}
     /\ sig' = [sig EXCEPT ![m] =
          [stage |-> IF k = 0 THEN "acked" ELSE "put", step |-> k, todo |-> {}]]
     /\ UNCHANGED <<stored, starting, dpc, drv, wanted, elapsed, history>>

(* The delivery dies unacknowledged, and will be repeated.                 *)
SignalDies(m) ==
  /\ sig[m].stage \in {"look", "wake"}
  /\ sig' = [sig EXCEPT ![m] = [stage |-> "put", step |-> NextWait(0), todo |-> {}]]
  /\ UNCHANGED <<stored, starting, dpc, drv, wanted, elapsed, history>>

(* The timer of the step an instance sleeps or waits at becomes due.       *)
Elapse(i) ==
  /\ inst[i] # None
  /\ inst[i].status \in {"sleeping", "waiting"} /\ inst[i].pc \notin elapsed[i]
  /\ elapsed' = [elapsed EXCEPT ![i] = @ \cup {inst[i].pc}]
  /\ UNCHANGED <<stored, starting, dpc, drv, sig, wanted, history>>

-----------------------------------------------------------------------------
Advance(d) ==
  \/ Round(d) \/ Replay(d) \/ Perform(d) \/ RegisterWaiter(d) \/ ReadInbox(d)
  \/ UnregisterWaiter(d) \/ Save(d) \/ Reload(d) \/ Leave(d)

Next ==
  \/ \E i \in Instances :
       LookUpKey(i) \/ Create(i) \/ PutKey(i) \/ Register(i) \/ Enroll(i) \/ StartDies(i)
       \/ Park(i) \/ Elapse(i)
  \/ \E d \in Drivers : Advance(d) \/ Crash(d) \/ \E i \in Instances : Load(d, i) \/ Cancel(d, i)
  \/ \E m \in Messages :
       \/ Signal(m) \/ PutInbox(m) \/ ReadWaiters(m) \/ WokenAll(m) \/ SignalDies(m)
       \/ \E i \in Instances : Wake(m, i)

(* The sweep, which goes through the tenants of the registry, finds the    *)
(* instance on the list and loads it.                                      *)
Reach(i) == enrolled /\ i \in active /\ \E d \in Drivers : Load(d, i)

(* A driver that has begun goes on, time passes, and the sweep, which runs *)
(* on a timer, reaches every listed instance of a tenant in the registry.  *)
Fairness ==
  /\ \A d \in Drivers : WF_vars(Advance(d))
  /\ \A i \in Instances : WF_vars(Elapse(i)) /\ SF_vars(Reach(i))

Spec == Init /\ [][Next]_vars /\ Fairness

-----------------------------------------------------------------------------
(* Every variable keeps its type; a driver at work has an instance and a   *)
(* copy, and one about to save has the state to save.                      *)
TypeOK ==
  /\ inst \in [Instances -> Document \cup {None}]
  /\ keyDoc \in [Keys -> Instances \cup {None}]
  /\ active \subseteq Instances /\ enrolled \in BOOLEAN /\ wanted \subseteq Instances
  /\ waiters \in [WaitSteps -> SUBSET Instances]
  /\ inbox \in [WaitSteps -> SUBSET Messages]
  /\ receipts \subseteq Instances \X Steps \X Nat
  /\ starting \in [Instances -> StartPhases]
  /\ dpc \in [Drivers -> {"idle", "loop", "call", "perform", "register", "inbox", "unregister",
                          "save", "reload", "leave"}]
  /\ drv \in [Drivers -> [i : Instances \cup {None}, copy : Document \cup {None},
                          next : Document \cup {None}, due : BOOLEAN]]
  /\ sig \in [Messages -> [stage : {"unsent", "put", "look", "wake", "acked"},
                           step : WaitSteps \cup {0}, todo : SUBSET Instances]]
  /\ elapsed \in [Instances -> SUBSET Steps]
  /\ parks \in 0 .. MaxFaults /\ crashes \in 0 .. MaxFaults
  /\ effects \in [Instances -> [Steps -> Nat]]
  /\ raced \subseteq Keys /\ late \subseteq Instances
  /\ \A d \in Drivers :
       /\ dpc[d] # "idle" => drv[d].i # None /\ drv[d].copy # None
       /\ dpc[d] \in {"save", "unregister"} => drv[d].next # None

(* However many drivers reach a call, die after it or lose their save, the *)
(* activity is performed once for the instance.                            *)
ActivityOnce ==
  \A i \in Instances, k \in Steps : effects[i][k] <= 1

(* No signal counts twice: an instance still under way has consumed as     *)
(* many messages as it has left wait steps, although one message lies in   *)
(* the inbox of every step that waits for it.                              *)
SignalConsumedOnce ==
  \A i \in Instances :
    inst[i] # None /\ inst[i].status \in Live =>
      Cardinality(inst[i].consumed) =
        Cardinality({x \in 1 .. Len(inst[i].history) : inst[i].history[x] \in WaitSteps})

(* A signal never slips between: while no driver has died, an instance     *)
(* that waits with a signal in the inbox is being advanced, about to be,   *)
(* or will be looked at by the signal's delivery.  It does not depend on   *)
(* the sweep.                                                              *)
NoStrandedSignal ==
  crashes = 0 =>
    \A i \in Instances :
      inst[i] # None /\ inst[i].status = "waiting" =>
        \A m \in inbox[inst[i].pc] \ inst[i].consumed :
          \/ \E d \in Drivers : dpc[d] # "idle" /\ drv[d].i = i
          \/ i \in wanted
          \/ sig[m].stage \notin {"unsent", "acked"}

(* Every instance that start listed and that is not over is on the active  *)
(* list, where the sweep finds it, whoever died.  While no driver has      *)
(* died, a finished one is on it only until the driver that finished it    *)
(* has taken it off, unless a cancel had finished it before start put it   *)
(* there: that one stays.                                                  *)
ActiveList ==
  \A i \in Instances : inst[i] # None /\ starting[i] \in {"enroll", "done", "listed"} =>
    /\ inst[i].status \in Live => i \in active
    /\ inst[i].status \in Over /\ crashes = 0 /\ i \in active =>
         i \in late \/ \E d \in Drivers : dpc[d] = "leave" /\ drv[d].i = i

(* One start per key: two calls of start with one key both set an instance *)
(* going only when they overlapped, not when one died or was repeated.     *)
OneStartPerKey ==
  \A i, j \in Instances :
    i # j /\ KeyOf[i] = KeyOf[j] /\ KeyOf[i] \notin raced =>
      ~(i \in active \cup wanted /\ j \in active \cup wanted)

(* An instance that is over stays so, with the history it had: no late     *)
(* driver, signal or timer revives it.                                     *)
OverIsFinal ==
  [][\A i \in Instances : inst[i] # None /\ inst[i].status \in Over =>
       inst'[i].status = inst[i].status /\ inst'[i].history = inst[i].history]_vars

(* What an instance is to its callers: its document but for the version.   *)
View(doc) ==
  IF doc = None THEN None
  ELSE [status |-> doc.status, pc |-> doc.pc, consumed |-> doc.consumed, history |-> doc.history]

Process ==
  INSTANCE WorkflowProcess
    WITH proc <- [i \in Instances |-> View(inst[i])], performed <- effects, due <- elapsed

(* However many drivers advance an instance at once, lose saves and die,   *)
(* it goes through the states in which one process would have run the      *)
(* program: each write takes it from its stored state by one step of the   *)
(* program, past a call whose activity was performed, once, past a wait by *)
(* a signal it has not used or its due timeout, and never on from its end. *)
InstancesRunAlone == Process!Spec

(* Every listed instance of a tenant in the registry comes to its end when *)
(* its waits have timeouts, whatever drivers collided or died.             *)
Finishes ==
  \A i \in Instances :
    i \in active /\ enrolled ~> (inst[i] # None /\ inst[i].status \in Over)

=============================================================================
