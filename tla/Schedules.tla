----------------------------- MODULE Schedules -----------------------------
(***************************************************************************)
(* Cron schedules: the ledger of one schedule, the index entry of its      *)
(* tenant, and the ticks that run its occurrences.  A host's sweep ticks   *)
(* every tenant whose index entry is due; an operator may tick by hand.    *)
(* Ticks overlap freely.  A tick reads the ledger once, works through the  *)
(* due occurrences with its own copy of it, and writes it back with a      *)
(* compare-and-swap; only the release after a run reloads it.              *)
(*                                                                         *)
(* One tenant with one cron source is modelled.  The version of the ledger *)
(* document appears as the flag fresh of each tick: no other tick wrote    *)
(* the ledger since the tick read or wrote it, which is what comparing     *)
(* versions tells.                                                         *)
(***************************************************************************)
EXTENDS Integers, FiniteSetsExt

CONSTANTS
  Ticks,        \* ticks that may be in flight at once
  Occurrences,  \* the instants of the recurrence
  Policies,     \* the overlap policies a host may set
  Window,       \* catchUpWindowMs
  Minute,       \* the 60 000 ms a schedule without history looks back
  MaxTime,      \* bound: the clock stops here
  MaxTicks,     \* bound: ticks ever begun
  None          \* null

ASSUME SchedulesAssumption ==
  /\ MaxTime \in Nat
  /\ Occurrences \subseteq 1 .. MaxTime
  /\ Policies \subseteq {"skip", "allow"}
  /\ Window \in Nat
  /\ Minute \in Nat \ {0}
  /\ MaxTicks \in Nat
  /\ None \notin Int

Instant == (-Minute) .. MaxTime
MaybeOccurrence == Occurrences \cup {None}
Ledger == [last : MaybeOccurrence, running : MaybeOccurrence, skipped : SUBSET Occurrences]

(* The locals of a tick: the clock it was given, the index entry it was    *)
(* called for (None for an operator's), its copy of the ledger and whether *)
(* that is current, the occurrences still to visit, the one in hand, and   *)
(* the lower end of the interval it looked at.                             *)
Locals ==
  [now : 0 .. MaxTime, at : MaybeOccurrence, state : Ledger, fresh : BOOLEAN,
   todo : SUBSET Occurrences, occ : MaybeOccurrence, failed : BOOLEAN, from : Instant]

VARIABLES
  now,      \* the clock
  policy,   \* the overlap policy
  ledger,   \* the schedule's ledger document
  due,      \* the tenant's index entry, None when untracked
  pc,       \* [Ticks -> where the tick is]
  tick,     \* [Ticks -> Locals]
  begun,    \* history: ticks begun
  ran,      \* history: occurrences whose call succeeded
  base      \* history: the latest instant a tick without a ledger looked from

vars == <<now, policy, ledger, due, pc, tick, begun, ran, base>>

EmptyLedger == [last |-> None, running |-> None, skipped |-> {}]
AtRest ==
  [now |-> 0, at |-> None, state |-> EmptyLedger, fresh |-> FALSE, todo |-> {},
   occ |-> None, failed |-> FALSE, from |-> 0]

-----------------------------------------------------------------------------
(* nextOccurrence and nextDue: the first instant strictly after t.         *)
NextDue(t) ==
  LET later == {o \in Occurrences : o > t}
  IN IF later = {} THEN None ELSE Min(later)

(* occurrencesBetween: after from, up to and including t.                  *)
Between(from, t) == {o \in Occurrences : from < o /\ o <= t}

(* Mutant: the release keeps what is recorded.                             *)
LatestIsOld(a, b) == IF a = None THEN b ELSE a

(* The later of two instants of which either may be null.                  *)
Latest(a, b) == IF a = None THEN b ELSE IF b = None \/ a >= b THEN a ELSE b

(* Where the tick starts looking: after the last recorded occurrence; with *)
(* no ledger, just before the index entry, or a minute ago.                *)
LookFrom(s) ==
  IF ledger.last # None THEN ledger.last
  ELSE IF tick[s].at # None THEN tick[s].at - 1
  ELSE tick[s].now - Minute

(* A tick's write of the ledger succeeds and makes every other copy stale. *)
Stale(s) == [u \in Ticks |-> [tick[u] EXCEPT !.fresh = (u = s)]]

(* The history of ticks that found no occurrence recorded: the latest      *)
(* instant one of them looked from.                                        *)
LooksFrom(from) ==
  base' = IF ledger.last = None /\ from > base THEN from ELSE base

-----------------------------------------------------------------------------
Init ==
  /\ now = 0
  /\ policy \in Policies
  /\ ledger = EmptyLedger
  /\ due = None
  /\ pc = [s \in Ticks |-> "idle"]
  /\ tick = [s \in Ticks |-> AtRest]
  /\ begun = 0
  /\ ran = {}
  /\ base = 0

(* track: a request of the tenant puts it in the index.                    *)
Track ==
  /\ due = None
  /\ NextDue(now) # None
  /\ due' = NextDue(now)
  /\ UNCHANGED <<now, policy, ledger, pc, tick, begun, ran, base>>

(* The entry a sweep works with: the index's, or for a tenant it sees for  *)
(* the first time the first occurrence of the past minute or later.        *)
Entry == IF due # None THEN due ELSE NextDue(now - Minute)

(* sweep reads the index.  A tenant that is due is ticked; one that is new *)
(* and not due yet is only recorded.                                       *)
SweepTick(s) ==
  /\ pc[s] = "idle"
  /\ begun < MaxTicks
  /\ Entry # None
  /\ Entry <= now \/ due = None
  /\ pc' = [pc EXCEPT ![s] = IF Entry <= now THEN "read" ELSE "record"]
  /\ tick' = [tick EXCEPT ![s] = [@ EXCEPT !.now = now, !.at = Entry]]
  /\ begun' = begun + 1
  /\ UNCHANGED <<now, policy, ledger, due, ran, base>>

(* The new tenant's entry is merged into the index.                        *)
Record(s) ==
  /\ pc[s] = "record"
  /\ due' = tick[s].at
  /\ pc' = [pc EXCEPT ![s] = "idle"]
  /\ tick' = [tick EXCEPT ![s] = AtRest]
  /\ UNCHANGED <<now, policy, ledger, begun, ran, base>>

(* tick: the operator's trigger, which knows nothing of the index.         *)
OperatorTick(s) ==
  /\ pc[s] = "idle"
  /\ begun < MaxTicks
  /\ pc' = [pc EXCEPT ![s] = "read"]
  /\ tick' = [tick EXCEPT ![s] = [@ EXCEPT !.now = now, !.at = None]]
  /\ begun' = begun + 1
  /\ UNCHANGED <<now, policy, ledger, due, ran, base>>

(* Mutant: occurrences older than the window are dropped.                  *)
ReadLedgerDropsOld(s) ==
  LET from == LookFrom(s)
      dues == Between(from, tick[s].now)
      old == {o \in dues : o <= tick[s].now - Window}
  IN /\ pc[s] = "read"
     /\ tick' = [tick EXCEPT ![s] =
          [@ EXCEPT !.state = ledger, !.fresh = TRUE, !.todo = dues \ old, !.from = from]]
     /\ pc' = [pc EXCEPT ![s] = "loop"]
     /\ LooksFrom(from)
     /\ UNCHANGED <<now, policy, ledger, due, begun, ran>>

(* tickScoped reads the ledger and sorts the due occurrences: the ones     *)
(* older than the catch-up window go into its copy's skipped list, which   *)
(* is written only along with a later save.                                *)
ReadLedger(s) ==
  LET from == LookFrom(s)
      dues == Between(from, tick[s].now)
      old == {o \in dues : o <= tick[s].now - Window}
  IN /\ pc[s] = "read"
     /\ tick' = [tick EXCEPT ![s] =
          [@ EXCEPT !.state = [ledger EXCEPT !.skipped = @ \cup old],
                    !.fresh = TRUE, !.todo = dues \ old, !.from = from]]
     /\ pc' = [pc EXCEPT ![s] = "loop"]
     /\ LooksFrom(from)
     /\ UNCHANGED <<now, policy, ledger, due, begun, ran>>

(* The next occurrence meets a running claim: it is recorded as skipped.   *)
(* A save that loses the compare-and-swap ends the tick without a result.  *)
Skip(s) ==
  LET o == Min(tick[s].todo)
      lg == [tick[s].state EXCEPT !.last = o, !.skipped = @ \cup {o}]
  IN /\ pc[s] = "loop" /\ tick[s].todo # {}
     /\ policy = "skip" /\ tick[s].state.running # None
     /\ IF tick[s].fresh
        THEN /\ ledger' = lg
             /\ tick' = [Stale(s) EXCEPT ![s] = [@ EXCEPT !.state = lg, !.todo = tick[s].todo \ {o}]]
             /\ UNCHANGED pc
        ELSE /\ pc' = [pc EXCEPT ![s] = "index"]
             /\ UNCHANGED <<ledger, tick>>
     /\ UNCHANGED <<now, policy, due, begun, ran, base>>

(* Mutant: the claim is written without the compare-and-swap.              *)
ClaimBlindly(s) ==
  LET o == Min(tick[s].todo)
      lg == [tick[s].state EXCEPT !.running = o]
  IN /\ pc[s] = "loop" /\ tick[s].todo # {}
     /\ ~(policy = "skip" /\ tick[s].state.running # None)
     /\ ledger' = lg
     /\ tick' = [Stale(s) EXCEPT ![s] = [@ EXCEPT !.state = lg, !.occ = o]]
     /\ pc' = [pc EXCEPT ![s] = "call"]
     /\ UNCHANGED <<now, policy, due, begun, ran, base>>

(* The next occurrence is claimed; losing the compare-and-swap means       *)
(* another tick has it and ends the loop.                                  *)
Claim(s) ==
  LET o == Min(tick[s].todo)
      lg == [tick[s].state EXCEPT !.running = o]
  IN /\ pc[s] = "loop" /\ tick[s].todo # {}
     /\ ~(policy = "skip" /\ tick[s].state.running # None)
     /\ IF tick[s].fresh
        THEN /\ ledger' = lg
             /\ tick' = [Stale(s) EXCEPT ![s] = [@ EXCEPT !.state = lg, !.occ = o]]
             /\ pc' = [pc EXCEPT ![s] = "call"]
        ELSE /\ pc' = [pc EXCEPT ![s] = "index"]
             /\ UNCHANGED <<ledger, tick>>
     /\ UNCHANGED <<now, policy, due, begun, ran, base>>

(* callInternal on the schedule's target succeeds or fails.                *)
Call(s) ==
  /\ pc[s] = "call"
  /\ \E ok \in BOOLEAN :
       /\ tick' = [tick EXCEPT ![s].failed = ~ok]
       /\ ran' = IF ok THEN ran \cup {tick[s].occ} ELSE ran
  /\ pc' = [pc EXCEPT ![s] = "complete"]
  /\ UNCHANGED <<now, policy, ledger, due, begun, base>>

(* complete: the claim is released on the ledger as it now is; a success   *)
(* is recorded unless a later occurrence already was.  After a failure the *)
(* loop ends.                                                              *)
Complete(s) ==
  LET done == IF tick[s].failed THEN None ELSE tick[s].occ
      lg == [ledger EXCEPT !.running = None, !.last = Latest(@, done)]
  IN /\ pc[s] = "complete"
     /\ ledger' = lg
     /\ tick' = [Stale(s) EXCEPT ![s] =
                   [@ EXCEPT !.state = lg, !.todo = tick[s].todo \ {tick[s].occ}, !.occ = None]]
     /\ pc' = [pc EXCEPT ![s] = IF tick[s].failed THEN "index" ELSE "loop"]
     /\ UNCHANGED <<now, policy, due, begun, ran, base>>

(* Nothing is left to visit.                                               *)
LoopEnds(s) ==
  /\ pc[s] = "loop" /\ tick[s].todo = {}
  /\ pc' = [pc EXCEPT ![s] = "index"]
  /\ UNCHANGED <<now, policy, ledger, due, tick, begun, ran, base>>

(* Mutant: the next entry is the one after the next instant.               *)
NextEntrySkipsOne(s) ==
  IF tick[s].failed \/ NextDue(tick[s].now) = None THEN tick[s].at
  ELSE NextDue(NextDue(tick[s].now))

(* The index entry a sweep writes for the tenant after its tick: the same  *)
(* entry when an occurrence failed, else the next instant, if there is     *)
(* one.                                                                    *)
NextEntry(s) == IF tick[s].failed THEN tick[s].at ELSE NextDue(tick[s].now)

(* The tick is over; a sweep merges the tenant's entry into the index.     *)
UpdateIndex(s) ==
  /\ pc[s] = "index"
  /\ due' = IF tick[s].at # None /\ NextEntry(s) # None THEN NextEntry(s) ELSE due
  /\ pc' = [pc EXCEPT ![s] = "idle"]
  /\ tick' = [tick EXCEPT ![s] = AtRest]
  /\ UNCHANGED <<now, policy, ledger, begun, ran, base>>

(* The process dies.                                                       *)
Crash(s) ==
  /\ pc[s] # "idle"
  /\ pc' = [pc EXCEPT ![s] = "idle"]
  /\ tick' = [tick EXCEPT ![s] = AtRest]
  /\ UNCHANGED <<now, policy, ledger, due, begun, ran, base>>

Advance ==
  /\ now < MaxTime
  /\ now' = now + 1
  /\ UNCHANGED <<policy, ledger, due, pc, tick, begun, ran, base>>

Next ==
  \/ Advance \/ Track
  \/ \E s \in Ticks :
       \/ SweepTick(s) \/ Record(s) \/ OperatorTick(s) \/ ReadLedger(s) \/ Skip(s) \/ Claim(s)
       \/ Call(s) \/ Complete(s) \/ LoopEnds(s) \/ UpdateIndex(s) \/ Crash(s)

Spec == Init /\ [][Next]_vars

-----------------------------------------------------------------------------
(* Every variable keeps its type; a tick in the middle of an occurrence    *)
(* has one in hand.                                                        *)
TypeOK ==
  /\ now \in 0 .. MaxTime
  /\ policy \in Policies
  /\ ledger \in Ledger
  /\ due \in MaybeOccurrence
  /\ pc \in [Ticks -> {"idle", "read", "record", "loop", "call", "complete", "index"}]
  /\ tick \in [Ticks -> Locals]
  /\ begun \in 0 .. MaxTicks
  /\ ran \subseteq Occurrences
  /\ base \in Instant
  /\ \A s \in Ticks :
       /\ pc[s] \in {"call", "complete"} => tick[s].occ # None
       /\ pc[s] = "record" => tick[s].at # None

(* With the skip policy one tick at a time runs the schedule's target, and *)
(* the ledger names the occurrence it runs: however ticks overlap, the     *)
(* claim keeps a second one out.                                           *)
OneRunAtATime ==
  policy = "skip" =>
    \A s \in Ticks : pc[s] \in {"call", "complete"} =>
      /\ ledger.running = tick[s].occ
      /\ \A u \in Ticks \ {s} : pc[u] \notin {"call", "complete"}

(* With the skip policy no occurrence that ran is called again, not by an  *)
(* overlapping tick, a repeated trigger, or a tick after a crash between   *)
(* the call and its record.                                                *)
RunsOnce ==
  policy = "skip" =>
    \A s \in Ticks : pc[s] = "call" => tick[s].occ \notin ran

(* No occurrence is forgotten: of everything between the instant where the *)
(* ledger began and the last occurrence it records, each one ran or is     *)
(* listed as skipped, whichever tick recorded it and whatever failed.      *)
(* Before its first record ticks look from different instants; the latest  *)
(* of those counts as the beginning.                                       *)
NoneForgotten ==
  ledger.last # None =>
    \A o \in Occurrences :
      base < o /\ o <= ledger.last => o \in ran \cup ledger.skipped

(* The index wakes the tenant in time: its entry is never later than the   *)
(* first occurrence still to come.                                         *)
IndexWakesInTime ==
  due # None => \A o \in Occurrences : o > now => due <= o

=============================================================================
