-------------------------- MODULE SchedulesProofs --------------------------
(***************************************************************************)
(* Proofs about Schedules: types, and that with the skip policy ticks      *)
(* never run together and never run an occurrence again.                   *)
(***************************************************************************)
EXTENDS Schedules, WellFoundedInduction, TLAPS

LEMMA LeastOf ==
  ASSUME NEW S, S \subseteq Nat, S # {}
  PROVE  \E x \in S : \A y \in S : x <= y
  <1>1. \E x \in S : \A y \in S : ~ (<<y, x>> \in OpToRel(<, Nat))
    BY NatLessThanWellFounded, WFMin
  <1>2. PICK x \in S : \A y \in S : ~ (<<y, x>> \in OpToRel(<, Nat))
    BY <1>1
  <1>3. \A y \in S : ~ (y < x)
    BY <1>2 DEF OpToRel
  <1> QED
    BY <1>3

(* The occurrence a tick takes up is the earliest of those it has left.    *)
LEMMA MinOf ==
  ASSUME NEW S \in SUBSET Occurrences, S # {}
  PROVE  Min(S) \in S /\ \A o \in S : Min(S) <= o
  <1>1. S \subseteq Nat
    BY SchedulesAssumption
  <1>2. \E x \in S : \A y \in S : x <= y
    BY <1>1, LeastOf
  <1> QED
    BY <1>2 DEF Min

LEMMA NoneApart == None \notin Occurrences
  <1>1. Occurrences \subseteq Int
    BY SchedulesAssumption
  <1> QED
    BY <1>1, SchedulesAssumption

-----------------------------------------------------------------------------
(* Types.                                                                  *)

(* A write of the ledger by s leaves the other ticks' copies out of date.  *)
LEMMA StaleCopies ==
  ASSUME TypeOK, NEW s \in Ticks
  PROVE  /\ Stale(s) \in [Ticks -> Locals]
         /\ \A u \in Ticks : Stale(s)[u] = [tick[u] EXCEPT !.fresh = (u = s)]
         /\ \A u \in Ticks : Stale(s)[u].occ = tick[u].occ /\ Stale(s)[u].at = tick[u].at
  <1>1. \A u \in Ticks : Stale(s)[u] = [tick[u] EXCEPT !.fresh = (u = s)]
    BY DEF Stale
  <1>2. \A u \in Ticks : [tick[u] EXCEPT !.fresh = (u = s)] \in Locals
    BY DEF TypeOK, Locals
  <1>3. \A u \in Ticks : tick[u] \in Locals
    BY DEF TypeOK
  <1>4. \A u \in Ticks : Stale(s)[u].occ = tick[u].occ /\ Stale(s)[u].at = tick[u].at
    BY <1>1, <1>3 DEF Locals
  <1> QED
    BY <1>1, <1>2, <1>4 DEF Stale

LEMMA AtRestTyped == AtRest \in Locals
  BY SchedulesAssumption DEF AtRest, EmptyLedger, Locals, Ledger, MaybeOccurrence, Instant

LEMMA NextDueTyped ==
  ASSUME NEW t \in Int
  PROVE  NextDue(t) \in MaybeOccurrence
  <1> DEFINE later == {o \in Occurrences : o > t}
  <1>1. CASE later = {}
    BY <1>1 DEF NextDue, MaybeOccurrence
  <1>2. CASE later # {}
    BY <1>2, MinOf DEF NextDue, MaybeOccurrence
  <1> QED
    BY <1>1, <1>2

LEMMA TypeKept ==
  ASSUME TypeOK, [Next]_vars
  PROVE  TypeOK'
  <1> USE SchedulesAssumption
  <1>0. now \in Int /\ now - Minute \in Int /\ Occurrences \subseteq Int
    BY DEF TypeOK
  <1>1. CASE Advance
    BY <1>1 DEF Advance, TypeOK
  <1>2. CASE Track
    BY <1>0, <1>2, NextDueTyped DEF Track, TypeOK
  <1>3. ASSUME NEW s \in Ticks, SweepTick(s) PROVE TypeOK'
    <2>1. Entry \in Occurrences
      BY <1>0, <1>3, NextDueTyped DEF SweepTick, Entry, TypeOK, MaybeOccurrence
    <2> DEFINE l == [tick[s] EXCEPT !.now = now, !.at = Entry]
    <2>2. tick[s] \in Locals
      BY DEF TypeOK
    <2>3. l \in Locals /\ l.at # None /\ l.occ = tick[s].occ
      BY <2>1, <2>2, NoneApart DEF Locals, MaybeOccurrence, TypeOK
    <2>4. tick' = [tick EXCEPT ![s] = l]
      BY <1>3 DEF SweepTick
    <2>5. pc' \in [Ticks -> {"idle", "read", "record", "loop", "call", "complete", "index"}]
      BY <1>3 DEF SweepTick, TypeOK
    <2>6. pc'[s] \in {"read", "record"} /\ \A u \in Ticks \ {s} : pc'[u] = pc[u]
      BY <1>3 DEF SweepTick, TypeOK
    <2>7. begun' \in 0 .. MaxTicks /\ UNCHANGED <<now, policy, ledger, due, ran, base>>
      BY <1>3 DEF SweepTick, TypeOK
    <2> HIDE DEF l
    <2> QED
      BY <2>3, <2>4, <2>5, <2>6, <2>7 DEF TypeOK
  <1>4. ASSUME NEW s \in Ticks, Record(s) PROVE TypeOK'
    <2>1. tick[s].at \in MaybeOccurrence
      BY DEF TypeOK, Locals
    <2> QED
      BY <1>4, <2>1, AtRestTyped DEF Record, TypeOK
  <1>5. ASSUME NEW s \in Ticks, OperatorTick(s) PROVE TypeOK'
    <2> DEFINE l == [tick[s] EXCEPT !.now = now, !.at = None]
    <2>1. tick[s] \in Locals
      BY DEF TypeOK
    <2>2. l \in Locals
      BY <2>1 DEF Locals, MaybeOccurrence, TypeOK
    <2>3. tick' = [tick EXCEPT ![s] = l] /\ pc' = [pc EXCEPT ![s] = "read"]
      BY <1>5 DEF OperatorTick
    <2>4. begun' \in 0 .. MaxTicks /\ UNCHANGED <<now, policy, ledger, due, ran, base>>
      BY <1>5 DEF OperatorTick, TypeOK
    <2> HIDE DEF l
    <2> QED
      BY <2>2, <2>3, <2>4 DEF TypeOK
  <1>6. ASSUME NEW s \in Ticks, ReadLedger(s) PROVE TypeOK'
    <2> DEFINE from == LookFrom(s)
               dues == Between(from, tick[s].now)
               old == {o \in dues : o <= tick[s].now - Window}
    <2>1. tick[s] \in Locals /\ ledger \in Ledger
      BY DEF TypeOK
    <2>2. tick[s].now \in 0 .. MaxTime /\ tick[s].at \in MaybeOccurrence
      BY <2>1 DEF Locals
    <2>3. from \in Instant
      <3>1. ledger.last \in MaybeOccurrence
        BY <2>1 DEF Ledger
      <3>2. CASE ledger.last # None
        <4>1. ledger.last \in Occurrences /\ LookFrom(s) = ledger.last
          BY <3>1, <3>2 DEF LookFrom, MaybeOccurrence
        <4>2. ledger.last \in 1 .. MaxTime
          BY <4>1
        <4> QED
          BY <4>1, <4>2 DEF Instant
      <3>3. CASE ledger.last = None /\ tick[s].at # None
        <4>1. tick[s].at \in Occurrences /\ LookFrom(s) = tick[s].at - 1
          BY <2>2, <3>3 DEF LookFrom, MaybeOccurrence
        <4>2. tick[s].at \in 1 .. MaxTime
          BY <4>1
        <4> QED
          BY <4>1, <4>2 DEF Instant
      <3>4. CASE ledger.last = None /\ tick[s].at = None
        BY <2>2, <3>4 DEF LookFrom, Instant
      <3> QED
        BY <3>2, <3>3, <3>4
    <2>4. old \subseteq Occurrences /\ dues \ old \subseteq Occurrences
      BY DEF Between
    <2>5. [ledger EXCEPT !.skipped = @ \cup old] \in Ledger
      BY <2>1, <2>4 DEF Ledger
    <2>6. base' \in Instant
      BY <1>6, <2>3 DEF ReadLedger, LooksFrom, TypeOK
    <2>7. tick' \in [Ticks -> Locals]
      BY <1>6, <2>1, <2>3, <2>4, <2>5 DEF ReadLedger, TypeOK, Locals
    <2>8. /\ \A u \in Ticks : tick'[u].occ = tick[u].occ /\ tick'[u].at = tick[u].at
          /\ pc' = [pc EXCEPT ![s] = "loop"]
      BY <1>6, <2>1 DEF ReadLedger, TypeOK, Locals
    <2> QED
      BY <1>6, <2>6, <2>7, <2>8 DEF ReadLedger, TypeOK
  <1>7. ASSUME NEW s \in Ticks, NEW lg \in Ledger, NEW l \in Locals,
               ledger' = lg, tick' = [Stale(s) EXCEPT ![s] = l],
               UNCHANGED <<now, policy, due, begun, base>>,
               ran' \subseteq Occurrences,
               pc' \in [Ticks -> {"idle", "read", "record", "loop", "call", "complete", "index"}],
               \A u \in Ticks \ {s} : pc'[u] = pc[u],
               pc'[s] \in {"call", "complete"} => l.occ # None,
               pc'[s] # "record"
        PROVE  TypeOK'
    <2>1. tick' \in [Ticks -> Locals]
      BY <1>7, StaleCopies
    <2>2. \A u \in Ticks \ {s} : tick'[u].occ = tick[u].occ /\ tick'[u].at = tick[u].at
      BY <1>7, StaleCopies
    <2>3. tick'[s] = l
      BY <1>7, StaleCopies
    <2> QED
      BY <1>7, <2>1, <2>2, <2>3 DEF TypeOK
  <1>8. ASSUME NEW s \in Ticks, Skip(s) PROVE TypeOK'
    <2> DEFINE o == Min(tick[s].todo)
               lg == [tick[s].state EXCEPT !.last = o, !.skipped = @ \cup {o}]
    <2>1. tick[s] \in Locals /\ tick[s].todo \in SUBSET Occurrences
      BY DEF TypeOK, Locals
    <2>2. o \in Occurrences
      BY <1>8, <2>1, MinOf DEF Skip
    <2>3. lg \in Ledger
      BY <2>1, <2>2 DEF Ledger, Locals, MaybeOccurrence
    <2>4. CASE tick[s].fresh
      <3> DEFINE l == [Stale(s)[s] EXCEPT !.state = lg, !.todo = tick[s].todo \ {o}]
      <3>1. l \in Locals
        <4>1. Stale(s)[s] \in Locals /\ tick[s].todo \ {o} \in SUBSET Occurrences
          BY <2>1, StaleCopies
        <4> QED
          BY <2>3, <4>1 DEF Locals
      <3>3. tick' = [Stale(s) EXCEPT ![s] = l]
        BY <1>8, <2>4 DEF Skip
      <3> HIDE DEF l, lg, o
      <3> QED
        BY <1>7, <1>8, <2>3, <2>4, <3>1, <3>3 DEF Skip, TypeOK, o, lg
    <2>5. CASE ~tick[s].fresh
      BY <1>8, <2>5 DEF Skip, TypeOK
    <2> QED
      BY <2>4, <2>5
  <1>9. ASSUME NEW s \in Ticks, Claim(s) PROVE TypeOK'
    <2> DEFINE o == Min(tick[s].todo)
               lg == [tick[s].state EXCEPT !.running = o]
    <2>1. tick[s] \in Locals /\ tick[s].todo \in SUBSET Occurrences
      BY DEF TypeOK, Locals
    <2>2. o \in Occurrences
      BY <1>9, <2>1, MinOf DEF Claim
    <2>3. lg \in Ledger
      BY <2>1, <2>2 DEF Ledger, Locals, MaybeOccurrence
    <2>4. CASE tick[s].fresh
      <3> DEFINE l == [Stale(s)[s] EXCEPT !.state = lg, !.occ = o]
      <3>1. l \in Locals /\ l.occ = o /\ o # None
        <4>1. Stale(s)[s] \in Locals
          BY StaleCopies
        <4> QED
          BY <2>2, <2>3, <4>1, NoneApart DEF Locals, MaybeOccurrence
      <3>3. tick' = [Stale(s) EXCEPT ![s] = l]
        BY <1>9, <2>4 DEF Claim
      <3>4. /\ pc' = [pc EXCEPT ![s] = "call"] /\ ledger' = lg
            /\ UNCHANGED <<now, policy, due, begun, ran, base>>
        BY <1>9, <2>4 DEF Claim
      <3>5. /\ pc' \in [Ticks -> {"idle", "read", "record", "loop", "call", "complete", "index"}]
            /\ \A u \in Ticks \ {s} : pc'[u] = pc[u]
            /\ pc'[s] = "call" /\ ran' \subseteq Occurrences
        BY <3>4 DEF TypeOK
      <3> HIDE DEF l, lg, o
      <3> QED
        BY <1>7, <2>3, <3>1, <3>3, <3>4, <3>5
    <2>5. CASE ~tick[s].fresh
      BY <1>9, <2>5 DEF Claim, TypeOK
    <2> QED
      BY <2>4, <2>5
  <1>10. ASSUME NEW s \in Ticks, Call(s) PROVE TypeOK'
    <2>1. tick[s] \in Locals /\ tick[s].occ \in Occurrences
      BY <1>10 DEF Call, TypeOK, Locals, MaybeOccurrence
    <2>2. PICK ok \in BOOLEAN :
            /\ tick' = [tick EXCEPT ![s].failed = ~ok]
            /\ ran' = IF ok THEN ran \cup {tick[s].occ} ELSE ran
      BY <1>10 DEF Call
    <2> DEFINE l == [tick[s] EXCEPT !.failed = ~ok]
    <2>3. l \in Locals /\ l.occ = tick[s].occ /\ tick' = [tick EXCEPT ![s] = l]
      BY <2>1, <2>2 DEF Locals
    <2>4. ran' \subseteq Occurrences
      BY <2>1, <2>2 DEF TypeOK
    <2>5. pc' = [pc EXCEPT ![s] = "complete"] /\ UNCHANGED <<now, policy, ledger, due, begun, base>>
      BY <1>10 DEF Call
    <2> HIDE DEF l
    <2> QED
      BY <2>1, <2>3, <2>4, <2>5, NoneApart DEF TypeOK
  <1>11. ASSUME NEW s \in Ticks, Complete(s) PROVE TypeOK'
    <2> DEFINE done == IF tick[s].failed THEN None ELSE tick[s].occ
               lg == [ledger EXCEPT !.running = None, !.last = Latest(@, done)]
    <2>1. tick[s] \in Locals
      BY DEF TypeOK
    <2>2. lg \in Ledger
      BY <2>1 DEF TypeOK, Ledger, Locals, MaybeOccurrence, Latest
    <2> DEFINE l == [Stale(s)[s] EXCEPT !.state = lg, !.todo = tick[s].todo \ {tick[s].occ}, !.occ = None]
    <2>3. l \in Locals
      <3>1. Stale(s)[s] \in Locals /\ tick[s].todo \ {tick[s].occ} \in SUBSET Occurrences
        BY <2>1, StaleCopies DEF Locals
      <3> QED
        BY <2>2, <3>1 DEF Locals, MaybeOccurrence
    <2>5. tick' = [Stale(s) EXCEPT ![s] = l]
      BY <1>11 DEF Complete
    <2>6. ledger' = lg
      BY <1>11 DEF Complete
    <2>7. /\ pc' \in [Ticks -> {"idle", "read", "record", "loop", "call", "complete", "index"}]
          /\ pc'[s] \in {"index", "loop"} /\ \A u \in Ticks \ {s} : pc'[u] = pc[u]
          /\ ran' \subseteq Occurrences /\ UNCHANGED <<now, policy, due, begun, base>>
      BY <1>11 DEF Complete, TypeOK
    <2> HIDE DEF l, lg
    <2> QED
      BY <1>7, <2>2, <2>3, <2>5, <2>6, <2>7
  <1>12. ASSUME NEW s \in Ticks, LoopEnds(s) PROVE TypeOK'
    BY <1>12 DEF LoopEnds, TypeOK
  <1>13. ASSUME NEW s \in Ticks, UpdateIndex(s) PROVE TypeOK'
    <2>1. tick[s] \in Locals
      BY DEF TypeOK
    <2>2. NextEntry(s) \in MaybeOccurrence
      BY <2>1, NextDueTyped DEF NextEntry, Locals
    <2> QED
      BY <1>13, <2>2, AtRestTyped DEF UpdateIndex, TypeOK
  <1>14. ASSUME NEW s \in Ticks, Crash(s) PROVE TypeOK'
    BY <1>14, AtRestTyped DEF Crash, TypeOK
  <1>15. CASE UNCHANGED vars
    BY <1>15 DEF vars, TypeOK
  <1> QED
    BY <1>1, <1>2, <1>3, <1>4, <1>5, <1>6, <1>8, <1>9, <1>10, <1>11, <1>12, <1>13, <1>14, <1>15
    DEF Next

(* Every variable of the schedules keeps its type.                         *)
THEOREM TypeCorrect == Spec => []TypeOK
  <1>1. Init => TypeOK
    <2> SUFFICES ASSUME Init PROVE TypeOK
      OBVIOUS
    <2> QED
      BY AtRestTyped, SchedulesAssumption
      DEF Init, TypeOK, EmptyLedger, Ledger, MaybeOccurrence, Instant
  <1>2. TypeOK /\ [Next]_vars => TypeOK'
    BY TypeKept
  <1> QED
    BY <1>1, <1>2, PTL DEF Spec

-----------------------------------------------------------------------------
(* Overlapping ticks under the skip policy.                                *)

(* A tick's copy that is not out of date agrees with the ledger.           *)
CopiesAgree ==
  \A s \in Ticks : tick[s].fresh =>
    tick[s].state.last = ledger.last /\ tick[s].state.running = ledger.running

(* What ran was recorded, or is still claimed.                             *)
RanKnown ==
  \A o \in ran : o = ledger.running \/ (ledger.last # None /\ o <= ledger.last)

(* What a tick that may still claim has left did not run, but for the      *)
(* occurrence that is claimed; and what it may skip is yet to come.        *)
LoopOK(s) ==
  pc[s] = "loop" /\ tick[s].fresh =>
    \A o \in tick[s].todo :
      /\ o \in ran => o = ledger.running
      /\ ledger.running # None /\ ledger.last # None => o > ledger.last

(* A tick with a claim is the only one; nothing it has left ran, except    *)
(* the one it just called.                                                 *)
ClaimOK(s) ==
  /\ pc[s] \in {"call", "complete"} =>
       /\ ledger.running = tick[s].occ
       /\ \A u \in Ticks \ {s} : pc[u] \notin {"call", "complete"}
       /\ \A o \in tick[s].todo \ {tick[s].occ} : o \notin ran
  /\ pc[s] = "call" \/ (pc[s] = "complete" /\ tick[s].failed) => tick[s].occ \notin ran

Overlap == CopiesAgree /\ RanKnown /\ \A s \in Ticks : LoopOK(s) /\ ClaimOK(s)
IInv == TypeOK /\ (policy = "skip" => Overlap)

-----------------------------------------------------------------------------
(* A tick that drops what it has, and an unchanged ledger and history,     *)
(* leave the rest in place.                                                *)
LEMMA Dropped ==
  ASSUME TypeOK, Overlap, NEW s \in Ticks, UNCHANGED <<ledger, ran>>,
         \A u \in Ticks \ {s} : pc'[u] = pc[u] /\ tick'[u] = tick[u],
         tick'[s].fresh => tick[s].fresh, tick'[s].state = tick[s].state \/ ~tick'[s].fresh,
         pc'[s] \notin {"loop", "call", "complete"}
  PROVE  Overlap'
  <1>1. CopiesAgree'
    BY DEF Overlap, CopiesAgree
  <1>2. RanKnown'
    BY DEF Overlap, RanKnown
  <1>3. ASSUME NEW u \in Ticks PROVE LoopOK(u)' /\ ClaimOK(u)'
    <2>1. CASE u = s
      BY <2>1 DEF LoopOK, ClaimOK
    <2>2. CASE u # s
      BY <2>2 DEF Overlap, LoopOK, ClaimOK
    <2> QED
      BY <2>1, <2>2
  <1> QED
    BY <1>1, <1>2, <1>3 DEF Overlap

LEMMA Instants ==
  ASSUME TypeOK
  PROVE  /\ Occurrences \subseteq Int /\ ran \subseteq Int
         /\ ledger.last # None => ledger.last \in Occurrences
         /\ ledger.running # None => ledger.running \in Occurrences
  <1>1. Occurrences \subseteq Int
    BY SchedulesAssumption
  <1>2. ledger.last \in MaybeOccurrence /\ ledger.running \in MaybeOccurrence
    BY DEF TypeOK, Ledger
  <1> QED
    BY <1>1, <1>2 DEF TypeOK, MaybeOccurrence

LEMMA ReadKeeps ==
  ASSUME IInv, policy = "skip", NEW s \in Ticks, ReadLedger(s)
  PROVE  Overlap'
  <1> DEFINE dues == Between(LookFrom(s), tick[s].now)
  <1>1. TypeOK /\ Overlap /\ tick[s] \in Locals /\ ledger \in Ledger
    BY DEF IInv, TypeOK
  <1>2. /\ tick'[s].state.last = ledger.last /\ tick'[s].state.running = ledger.running
        /\ tick'[s].todo \subseteq dues
        /\ \A u \in Ticks \ {s} : tick'[u] = tick[u]
    BY <1>1 DEF ReadLedger, TypeOK, Locals, Ledger
  <1>3. pc'[s] = "loop" /\ \A u \in Ticks \ {s} : pc'[u] = pc[u]
    BY <1>1 DEF ReadLedger, TypeOK
  <1>4. UNCHANGED <<ledger, ran>>
    BY DEF ReadLedger
  <1>5. ledger.last # None => \A o \in dues : o > ledger.last
    <2> SUFFICES ASSUME ledger.last # None, NEW o \in dues PROVE o > ledger.last
      OBVIOUS
    <2>1. o \in Int /\ ledger.last \in Int
      BY <1>1, Instants DEF Between
    <2>2. ledger.last < o
      BY DEF Between, LookFrom
    <2> QED
      BY <2>1, <2>2
  <1>6. LoopOK(s)' /\ ClaimOK(s)'
    <2>1. ASSUME NEW o \in tick'[s].todo, o \in ran PROVE o = ledger.running
      <3>1. o \in Int /\ (ledger.last # None => ledger.last \in Int)
        BY <1>1, <2>1, Instants
      <3>2. ledger.last # None => o > ledger.last
        BY <1>2, <1>5, <2>1
      <3>3. o = ledger.running \/ (ledger.last # None /\ o <= ledger.last)
        BY <1>1, <2>1 DEF Overlap, RanKnown
      <3> QED
        BY <3>1, <3>2, <3>3
    <2>2. \A o \in tick'[s].todo : ledger.last # None => o > ledger.last
      BY <1>2, <1>5
    <2> QED
      BY <1>3, <1>4, <2>1, <2>2 DEF LoopOK, ClaimOK
  <1>7. ASSUME NEW u \in Ticks \ {s} PROVE LoopOK(u)' /\ ClaimOK(u)'
    BY <1>1, <1>2, <1>3, <1>4 DEF Overlap, LoopOK, ClaimOK
  <1>8. CopiesAgree' /\ RanKnown'
    BY <1>1, <1>2, <1>4 DEF Overlap, CopiesAgree, RanKnown
  <1> QED
    BY <1>6, <1>7, <1>8 DEF Overlap

LEMMA SkipKeeps ==
  ASSUME IInv, policy = "skip", NEW s \in Ticks, Skip(s), tick[s].fresh
  PROVE  Overlap'
  <1> DEFINE o == Min(tick[s].todo)
             lg == [tick[s].state EXCEPT !.last = o, !.skipped = @ \cup {o}]
  <1>1. TypeOK /\ Overlap /\ tick[s] \in Locals /\ ledger \in Ledger
    BY DEF IInv, TypeOK
  <1>2. tick[s].todo \in SUBSET Occurrences /\ tick[s].todo # {} /\ pc[s] = "loop"
    BY <1>1 DEF Skip, Locals
  <1>3. o \in tick[s].todo /\ \A p \in tick[s].todo : o <= p
    BY <1>2, MinOf
  <1>4. ledger.running = tick[s].state.running /\ ledger.running # None
    BY <1>1 DEF Skip, Overlap, CopiesAgree
  <1>5. ledger' = lg /\ lg.running = ledger.running /\ lg.last = o
    BY <1>1, <1>4 DEF Skip, Locals, Ledger
  <1>6. /\ tick'[s].state = lg /\ tick'[s].todo = tick[s].todo \ {o}
        /\ \A u \in Ticks \ {s} : ~tick'[u].fresh /\ tick'[u].todo = tick[u].todo
                                  /\ tick'[u].occ = tick[u].occ /\ tick'[u].failed = tick[u].failed
    <2>1. tick' = [Stale(s) EXCEPT ![s] = [Stale(s)[s] EXCEPT !.state = lg, !.todo = tick[s].todo \ {o}]]
      BY DEF Skip
    <2>2. Stale(s) \in [Ticks -> Locals] /\ \A u \in Ticks : tick[u] \in Locals
      BY <1>1, StaleCopies DEF TypeOK
    <2>3. \A u \in Ticks : Stale(s)[u] = [tick[u] EXCEPT !.fresh = (u = s)]
      BY <1>1, StaleCopies
    <2> HIDE DEF lg, o
    <2> QED
      BY <2>1, <2>2, <2>3 DEF Locals
  <1>7. UNCHANGED <<pc, ran>>
    BY DEF Skip
  <1>8. o \in Int /\ o # None /\ tick[s].todo \subseteq Int
    BY <1>1, <1>2, <1>3, Instants, NoneApart
  <1> HIDE DEF lg, o
  <1>9. CopiesAgree'
    BY <1>5, <1>6 DEF CopiesAgree
  <1>10. RanKnown'
    <2> SUFFICES ASSUME NEW r \in ran PROVE r = ledger.running \/ r <= o
      BY <1>5, <1>7, <1>8 DEF RanKnown
    <2>1. CASE ledger.last = None
      BY <1>1, <2>1 DEF Overlap, RanKnown
    <2>2. CASE ledger.last # None
      <3>1. o > ledger.last
        BY <1>1, <1>2, <1>3, <1>4, <2>2 DEF Overlap, LoopOK
      <3>2. r \in Int /\ ledger.last \in Int
        BY <1>1, <2>2, Instants
      <3> QED
        BY <1>1, <1>8, <3>1, <3>2 DEF Overlap, RanKnown
    <2> QED
      BY <2>1, <2>2
  <1>11. LoopOK(s)' /\ ClaimOK(s)'
    <2>1. ASSUME NEW p \in tick'[s].todo PROVE p > o /\ (p \in ran => p = ledger.running)
      <3>1. p \in tick[s].todo /\ p # o /\ o <= p /\ p \in Int
        BY <1>3, <1>6, <1>8, <2>1
      <3>2. p \in ran => p = ledger.running
        BY <1>1, <1>2, <3>1 DEF Overlap, LoopOK
      <3> QED
        BY <1>8, <3>1, <3>2
    <2> QED
      BY <1>2, <1>5, <1>7, <2>1 DEF LoopOK, ClaimOK
  <1>12. ASSUME NEW u \in Ticks \ {s} PROVE LoopOK(u)' /\ ClaimOK(u)'
    BY <1>1, <1>5, <1>6, <1>7 DEF Overlap, LoopOK, ClaimOK
  <1> QED
    BY <1>9, <1>10, <1>11, <1>12 DEF Overlap

LEMMA ClaimKeeps ==
  ASSUME IInv, policy = "skip", NEW s \in Ticks, Claim(s), tick[s].fresh
  PROVE  Overlap'
  <1> DEFINE o == Min(tick[s].todo)
             lg == [tick[s].state EXCEPT !.running = o]
  <1>1. TypeOK /\ Overlap /\ tick[s] \in Locals /\ ledger \in Ledger
    BY DEF IInv, TypeOK
  <1>2. tick[s].todo \in SUBSET Occurrences /\ tick[s].todo # {} /\ pc[s] = "loop"
    BY <1>1 DEF Claim, Locals
  <1>3. o \in tick[s].todo /\ o \in Occurrences
    BY <1>2, MinOf
  <1>4. ledger.running = None /\ ledger.last = tick[s].state.last
    BY <1>1 DEF Claim, Overlap, CopiesAgree
  <1>5. ledger' = lg /\ lg.running = o /\ lg.last = ledger.last
    BY <1>1, <1>4 DEF Claim, Locals, Ledger
  <1>6. /\ tick'[s].state = lg /\ tick'[s].todo = tick[s].todo /\ tick'[s].occ = o
        /\ \A u \in Ticks \ {s} : ~tick'[u].fresh /\ tick'[u].todo = tick[u].todo
                                  /\ tick'[u].occ = tick[u].occ /\ tick'[u].failed = tick[u].failed
    <2>1. tick' = [Stale(s) EXCEPT ![s] = [Stale(s)[s] EXCEPT !.state = lg, !.occ = o]]
      BY DEF Claim
    <2>2. Stale(s) \in [Ticks -> Locals] /\ \A u \in Ticks : tick[u] \in Locals
      BY <1>1, StaleCopies DEF TypeOK
    <2>3. \A u \in Ticks : Stale(s)[u] = [tick[u] EXCEPT !.fresh = (u = s)]
      BY <1>1, StaleCopies
    <2> HIDE DEF lg, o
    <2> QED
      BY <2>1, <2>2, <2>3 DEF Locals
  <1>7. /\ pc'[s] = "call" /\ \A u \in Ticks \ {s} : pc'[u] = pc[u]
        /\ UNCHANGED ran
    BY <1>1 DEF Claim, TypeOK
  <1> HIDE DEF lg, o
  <1>8. \A u \in Ticks : pc[u] \in {"call", "complete"} => tick[u].occ # None
    BY <1>1 DEF TypeOK
  <1>9. \A u \in Ticks : pc[u] \notin {"call", "complete"}
    BY <1>1, <1>4, <1>8 DEF Overlap, ClaimOK
  <1>10. None \notin ran
    BY <1>1, NoneApart DEF TypeOK
  <1>11. CopiesAgree'
    BY <1>5, <1>6 DEF CopiesAgree
  <1>12. RanKnown'
    BY <1>1, <1>4, <1>5, <1>7, <1>10 DEF Overlap, RanKnown
  <1>13. LoopOK(s)' /\ ClaimOK(s)'
    <2>1. \A p \in tick[s].todo : p \notin ran
      BY <1>1, <1>2, <1>4, <1>10 DEF Overlap, LoopOK
    <2> QED
      BY <1>3, <1>5, <1>6, <1>7, <1>9, <2>1 DEF LoopOK, ClaimOK
  <1>14. ASSUME NEW u \in Ticks \ {s} PROVE LoopOK(u)' /\ ClaimOK(u)'
    BY <1>6, <1>7, <1>9 DEF LoopOK, ClaimOK
  <1> QED
    BY <1>11, <1>12, <1>13, <1>14 DEF Overlap

LEMMA CallKeeps ==
  ASSUME IInv, policy = "skip", NEW s \in Ticks, Call(s)
  PROVE  Overlap'
  <1>1. TypeOK /\ Overlap /\ tick[s] \in Locals
    BY DEF IInv, TypeOK
  <1>2. PICK ok \in BOOLEAN :
          /\ tick' = [tick EXCEPT ![s].failed = ~ok]
          /\ ran' = IF ok THEN ran \cup {tick[s].occ} ELSE ran
    BY DEF Call
  <1>3. /\ tick'[s] = [tick[s] EXCEPT !.failed = ~ok]
        /\ \A u \in Ticks \ {s} : tick'[u] = tick[u]
    BY <1>1, <1>2 DEF TypeOK
  <1>4. /\ tick'[s].failed = ~ok /\ tick'[s].occ = tick[s].occ /\ tick'[s].todo = tick[s].todo
        /\ tick'[s].fresh = tick[s].fresh /\ tick'[s].state = tick[s].state
    BY <1>1, <1>3 DEF Locals
  <1>5. /\ pc[s] = "call" /\ pc'[s] = "complete" /\ \A u \in Ticks \ {s} : pc'[u] = pc[u]
        /\ UNCHANGED ledger
    BY <1>1 DEF Call, TypeOK
  <1>6. ledger.running = tick[s].occ /\ \A u \in Ticks \ {s} : pc[u] \notin {"call", "complete"}
    BY <1>1, <1>5 DEF Overlap, ClaimOK
  <1>7. CopiesAgree'
    <2> SUFFICES ASSUME NEW u \in Ticks, tick'[u].fresh
                 PROVE  tick'[u].state.last = ledger.last /\ tick'[u].state.running = ledger.running
      BY <1>5 DEF CopiesAgree
    <2>1. tick'[u].fresh = tick[u].fresh /\ tick'[u].state = tick[u].state
      BY <1>3, <1>4
    <2> QED
      BY <1>1, <2>1 DEF Overlap, CopiesAgree
  <1>8. RanKnown'
    BY <1>1, <1>2, <1>5, <1>6 DEF Overlap, RanKnown
  <1>9. LoopOK(s)' /\ ClaimOK(s)'
    <2>1. tick[s].occ \notin ran /\ \A o \in tick[s].todo \ {tick[s].occ} : o \notin ran
      BY <1>1, <1>5 DEF Overlap, ClaimOK
    <2>2. \A o \in tick[s].todo \ {tick[s].occ} : o \notin ran'
      BY <1>2, <2>1
    <2>3. ~ok => tick[s].occ \notin ran'
      BY <1>2, <2>1
    <2> QED
      BY <1>4, <1>5, <1>6, <2>2, <2>3 DEF LoopOK, ClaimOK
  <1>10. ASSUME NEW u \in Ticks \ {s} PROVE LoopOK(u)' /\ ClaimOK(u)'
    BY <1>1, <1>2, <1>3, <1>5, <1>6 DEF Overlap, LoopOK, ClaimOK
  <1> QED
    BY <1>7, <1>8, <1>9, <1>10 DEF Overlap

LEMMA CompleteKeeps ==
  ASSUME IInv, policy = "skip", NEW s \in Ticks, Complete(s)
  PROVE  Overlap'
  <1> DEFINE done == IF tick[s].failed THEN None ELSE tick[s].occ
             lg == [ledger EXCEPT !.running = None, !.last = Latest(@, done)]
  <1>1. TypeOK /\ Overlap /\ tick[s] \in Locals /\ ledger \in Ledger
    BY DEF IInv, TypeOK
  <1>2. pc[s] = "complete" /\ tick[s].occ # None /\ tick[s].occ \in Occurrences
    BY <1>1 DEF Complete, TypeOK, Locals, MaybeOccurrence
  <1>3. /\ ledger.running = tick[s].occ
        /\ \A u \in Ticks \ {s} : pc[u] \notin {"call", "complete"}
        /\ \A o \in tick[s].todo \ {tick[s].occ} : o \notin ran
        /\ tick[s].failed => tick[s].occ \notin ran
    BY <1>1, <1>2 DEF Overlap, ClaimOK
  <1>4. ledger' = lg /\ lg.running = None /\ lg.last = Latest(ledger.last, done)
    BY <1>1 DEF Complete, Ledger
  <1>5. /\ tick'[s].state = lg /\ tick'[s].todo = tick[s].todo \ {tick[s].occ}
        /\ \A u \in Ticks \ {s} : ~tick'[u].fresh
    <2>1. tick' = [Stale(s) EXCEPT ![s] =
                     [Stale(s)[s] EXCEPT !.state = lg, !.todo = tick[s].todo \ {tick[s].occ}, !.occ = None]]
      BY DEF Complete
    <2>2. Stale(s) \in [Ticks -> Locals] /\ \A u \in Ticks : tick[u] \in Locals
      BY <1>1, StaleCopies DEF TypeOK
    <2>3. \A u \in Ticks : Stale(s)[u] = [tick[u] EXCEPT !.fresh = (u = s)]
      BY <1>1, StaleCopies
    <2> HIDE DEF lg
    <2> QED
      BY <2>1, <2>2, <2>3 DEF Locals
  <1>6. /\ pc'[s] \in {"index", "loop"} /\ \A u \in Ticks \ {s} : pc'[u] = pc[u]
        /\ UNCHANGED ran
    BY <1>1 DEF Complete, TypeOK
  <1> HIDE DEF lg
  <1>7. CopiesAgree'
    BY <1>4, <1>5 DEF CopiesAgree
  <1>8. RanKnown'
    <2> SUFFICES ASSUME NEW o \in ran
                 PROVE  Latest(ledger.last, done) # None /\ o <= Latest(ledger.last, done)
      BY <1>4, <1>6 DEF RanKnown
    <2>1. o \in Int /\ tick[s].occ \in Int /\ (ledger.last # None => ledger.last \in Int)
      BY <1>1, <1>2, Instants
    <2>2. CASE o = tick[s].occ
      BY <1>2, <1>3, <2>1, <2>2 DEF Latest
    <2>3. CASE o # tick[s].occ
      <3>1. ledger.last # None /\ o <= ledger.last
        BY <1>1, <1>3, <2>3 DEF Overlap, RanKnown
      <3> QED
        BY <1>2, <2>1, <3>1 DEF Latest
    <2> QED
      BY <2>2, <2>3
  <1>9. LoopOK(s)' /\ ClaimOK(s)'
    BY <1>3, <1>4, <1>5, <1>6 DEF LoopOK, ClaimOK
  <1>10. ASSUME NEW u \in Ticks \ {s} PROVE LoopOK(u)' /\ ClaimOK(u)'
    BY <1>3, <1>5, <1>6 DEF LoopOK, ClaimOK
  <1> QED
    BY <1>7, <1>8, <1>9, <1>10 DEF Overlap

LEMMA NextKeeps == IInv /\ [Next]_vars => IInv'
  <1> SUFFICES ASSUME IInv, [Next]_vars PROVE IInv'
    OBVIOUS
  <1>0. TypeOK /\ TypeOK'
    BY TypeKept DEF IInv
  <1>1. policy' = policy
    BY DEF Next, vars, Advance, Track, SweepTick, Record, OperatorTick, ReadLedger, Skip, Claim,
           Call, Complete, LoopEnds, UpdateIndex, Crash
  <1> SUFFICES ASSUME policy = "skip" PROVE Overlap'
    BY <1>0, <1>1 DEF IInv
  <1>2. Overlap
    BY DEF IInv
  <1>3. CASE Advance \/ Track \/ UNCHANGED vars
    BY <1>2, <1>3 DEF Advance, Track, vars, Overlap, CopiesAgree, RanKnown, LoopOK, ClaimOK
  <1>4. ASSUME NEW s \in Ticks, ReadLedger(s) PROVE Overlap'
    BY <1>4, ReadKeeps
  <1>5. ASSUME NEW s \in Ticks, Skip(s) \/ Claim(s) PROVE Overlap'
    <2>1. CASE tick[s].fresh
      BY <1>5, <2>1, SkipKeeps, ClaimKeeps
    <2>2. CASE ~tick[s].fresh
      <3>1. pc' = [pc EXCEPT ![s] = "index"] /\ UNCHANGED <<ledger, tick, ran>>
        BY <1>5, <2>2 DEF Skip, Claim
      <3>2. pc'[s] = "index" /\ \A u \in Ticks \ {s} : pc'[u] = pc[u] /\ tick'[u] = tick[u]
        BY <1>0, <3>1 DEF TypeOK
      <3> QED
        BY <1>0, <1>2, <3>1, <3>2, Dropped
    <2> QED
      BY <2>1, <2>2
  <1>6. ASSUME NEW s \in Ticks, Call(s) \/ Complete(s) PROVE Overlap'
    BY <1>6, CallKeeps, CompleteKeeps
  <1>7. ASSUME NEW s \in Ticks, SweepTick(s) \/ OperatorTick(s) PROVE Overlap'
    <2>1. tick[s] \in Locals
      BY <1>0 DEF TypeOK
    <2>2. PICK at \in MaybeOccurrence : tick' = [tick EXCEPT ![s] = [tick[s] EXCEPT !.now = now, !.at = at]]
      <3>1. CASE SweepTick(s)
        <4>1. Entry \in MaybeOccurrence
          <5>1. now - Minute \in Int
            BY <1>0, SchedulesAssumption DEF TypeOK
          <5> QED
            BY <1>0, <5>1, NextDueTyped DEF Entry, TypeOK
        <4> QED
          BY <3>1, <4>1 DEF SweepTick
      <3>2. CASE OperatorTick(s)
        BY <3>2 DEF OperatorTick, MaybeOccurrence
      <3> QED
        BY <1>7, <3>1, <3>2
    <2>3. /\ tick'[s] = [tick[s] EXCEPT !.now = now, !.at = at]
          /\ \A u \in Ticks \ {s} : tick'[u] = tick[u]
      BY <1>0, <2>2 DEF TypeOK
    <2>4. tick'[s].fresh = tick[s].fresh /\ tick'[s].state = tick[s].state
      BY <2>1, <2>3 DEF Locals
    <2>5. pc'[s] \in {"read", "record"} /\ \A u \in Ticks \ {s} : pc'[u] = pc[u]
      BY <1>0, <1>7 DEF SweepTick, OperatorTick, TypeOK
    <2>6. UNCHANGED <<ledger, ran>>
      BY <1>7 DEF SweepTick, OperatorTick
    <2> QED
      BY <1>0, <1>2, <2>3, <2>4, <2>5, <2>6, Dropped
  <1>8. ASSUME NEW s \in Ticks, Record(s) \/ UpdateIndex(s) \/ Crash(s) \/ LoopEnds(s) PROVE Overlap'
    <2>1. pc'[s] \in {"idle", "index"} /\ \A u \in Ticks \ {s} : pc'[u] = pc[u]
      BY <1>0, <1>8 DEF Record, UpdateIndex, Crash, LoopEnds, TypeOK
    <2>2. tick'[s] = AtRest \/ tick'[s] = tick[s]
      BY <1>0, <1>8 DEF Record, UpdateIndex, Crash, LoopEnds, TypeOK
    <2>3. \A u \in Ticks \ {s} : tick'[u] = tick[u]
      BY <1>0, <1>8 DEF Record, UpdateIndex, Crash, LoopEnds, TypeOK
    <2>4. UNCHANGED <<ledger, ran>>
      BY <1>8 DEF Record, UpdateIndex, Crash, LoopEnds
    <2>5. ~AtRest.fresh
      BY DEF AtRest
    <2> QED
      BY <1>0, <1>2, <2>1, <2>2, <2>3, <2>4, <2>5, Dropped
  <1> QED
    BY <1>3, <1>4, <1>5, <1>6, <1>7, <1>8 DEF Next

LEMMA Invariant == Spec => []IInv
  <1>1. Init => IInv
    <2> SUFFICES ASSUME Init PROVE IInv
      OBVIOUS
    <2>1. TypeOK
      BY AtRestTyped, SchedulesAssumption
      DEF Init, TypeOK, EmptyLedger, Ledger, MaybeOccurrence, Instant
    <2>2. Overlap
      BY DEF Init, AtRest, Overlap, CopiesAgree, RanKnown, LoopOK, ClaimOK
    <2> QED
      BY <2>1, <2>2 DEF IInv
  <1> QED
    BY <1>1, NextKeeps, PTL DEF Spec

(* With the skip policy the target of the schedule is never called by two  *)
(* ticks at once, whatever sweeps, operators' ticks and crashes overlap:   *)
(* the claim in the ledger keeps the second out.                           *)
THEOREM OneAtATime == Spec => []OneRunAtATime
  <1>1. IInv => OneRunAtATime
    BY DEF IInv, Overlap, ClaimOK, OneRunAtATime
  <1> QED
    BY <1>1, Invariant, PTL

(* With the skip policy an occurrence that ran is never called again.      *)
THEOREM RanIsNotRunAgain == Spec => []RunsOnce
  <1>1. IInv => RunsOnce
    BY DEF IInv, Overlap, ClaimOK, RunsOnce
  <1> QED
    BY <1>1, Invariant, PTL

-----------------------------------------------------------------------------
(* Nothing is forgotten, whatever the policy.  What a tick at work has     *)
(* passed over ran or is in its copy's list of skipped occurrences, which  *)
(* is in the ledger from its first claim on.                               *)
Accounted(step, l, lg, rn, bs) ==
  step \in {"loop", "call", "complete"} =>
    /\ \A o \in l.todo : o <= l.now
    /\ \A o \in Occurrences :
         bs < o /\ o <= l.now /\ o \notin l.todo => o \in rn \cup l.state.skipped
    /\ l.fresh => l.state.last = lg.last /\ lg.skipped \subseteq l.state.skipped
    /\ step # "loop" =>
         /\ \A o \in l.todo : l.occ <= o
         /\ l.occ \in l.todo
         /\ l.state.skipped \subseteq lg.skipped
    /\ step = "complete" /\ ~l.failed => l.occ \in rn

AllAccounted == \A s \in Ticks : Accounted(pc[s], tick[s], ledger, ran, base)

(* What others do to a tick's surroundings: the ledger's list and what ran *)
(* grow, and a copy that stays current saw no write.                       *)
LEMMA StaysAccounted ==
  ASSUME NEW step, NEW l \in Locals, NEW lg, NEW lg2, NEW rn, NEW rn2, NEW bs \in Int,
         NEW bs2 \in Int, NEW f \in BOOLEAN,
         rn \subseteq rn2, bs <= bs2, lg.skipped \subseteq lg2.skipped,
         f => l.fresh /\ lg2 = lg, Accounted(step, l, lg, rn, bs)
  PROVE  Accounted(step, [l EXCEPT !.fresh = f], lg2, rn2, bs2)
  <1> DEFINE m == [l EXCEPT !.fresh = f]
  <1>1. /\ m.todo = l.todo /\ m.now = l.now /\ m.state = l.state /\ m.occ = l.occ
        /\ m.failed = l.failed /\ m.fresh = f
    BY DEF Locals
  <1>2. Occurrences \subseteq Int
    BY SchedulesAssumption
  <1> HIDE DEF m
  <1>3. ASSUME NEW o \in Occurrences, bs2 < o PROVE bs < o
    BY <1>2, <1>3
  <1> QED
    BY <1>1, <1>3 DEF Accounted, m

LEMMA OthersAccounted ==
  ASSUME TypeOK, TypeOK', AllAccounted, NEW s \in Ticks,
         \A u \in Ticks \ {s} : pc'[u] = pc[u],
         \/ \A u \in Ticks \ {s} : tick'[u] = [tick[u] EXCEPT !.fresh = FALSE]
         \/ ledger' = ledger /\ \A u \in Ticks \ {s} : tick'[u] = tick[u],
         ran \subseteq ran', base <= base', ledger.skipped \subseteq ledger'.skipped
  PROVE  \A u \in Ticks \ {s} : Accounted(pc'[u], tick'[u], ledger', ran', base')
  <1> SUFFICES ASSUME NEW u \in Ticks \ {s}
               PROVE  Accounted(pc[u], tick'[u], ledger', ran', base')
    OBVIOUS
  <1>1. tick[u] \in Locals /\ base \in Int /\ base' \in Int
    BY SchedulesAssumption DEF TypeOK, Instant
  <1>2. PICK f \in BOOLEAN : /\ tick'[u] = [tick[u] EXCEPT !.fresh = f]
                             /\ f => tick[u].fresh /\ ledger' = ledger
    <2>1. CASE tick'[u] = [tick[u] EXCEPT !.fresh = FALSE]
      BY <2>1
    <2>2. CASE ledger' = ledger /\ tick'[u] = tick[u]
      <3>1. tick[u].fresh \in BOOLEAN /\ tick[u] = [tick[u] EXCEPT !.fresh = tick[u].fresh]
        BY <1>1 DEF Locals
      <3> QED
        BY <2>2, <3>1
    <2> QED
      BY <2>1, <2>2
  <1>3. Accounted(pc[u], tick[u], ledger, ran, base)
    BY DEF AllAccounted
  <1> QED
    BY <1>1, <1>2, <1>3, StaysAccounted

LEMMA ReadAccounts ==
  ASSUME TypeOK, TypeOK', AllAccounted, NoneForgotten, NEW s \in Ticks, ReadLedger(s)
  PROVE  AllAccounted' /\ NoneForgotten'
  <1> DEFINE l == tick[s]
             from == LookFrom(s)
             dues == Between(from, l.now)
             old == {o \in dues : o <= l.now - Window}
  <1>1. l \in Locals /\ ledger \in Ledger
    BY DEF TypeOK
  <1>2. /\ tick'[s].state.last = ledger.last /\ tick'[s].state.skipped = ledger.skipped \cup old
        /\ tick'[s].todo = dues \ old /\ tick'[s].now = l.now /\ tick'[s].from = from
        /\ \A u \in Ticks \ {s} : tick'[u] = tick[u]
    BY <1>1 DEF ReadLedger, TypeOK, Locals, Ledger
  <1>3. /\ pc'[s] = "loop" /\ \A u \in Ticks \ {s} : pc'[u] = pc[u]
        /\ UNCHANGED <<ledger, ran>>
    BY DEF ReadLedger, TypeOK
  <1>4. /\ base \in Int /\ base' \in Int /\ from \in Int /\ l.now \in Int
        /\ Occurrences \subseteq Int /\ ran \subseteq Int
        /\ ledger.last # None => ledger.last \in Int
    <2>1. tick'[s].from \in Instant /\ l.now \in 0 .. MaxTime
      BY <1>1 DEF TypeOK, Locals
    <2>2. Instant \subseteq Int /\ Occurrences \subseteq Int
      BY SchedulesAssumption DEF Instant
    <2>3. base \in Instant /\ base' \in Instant
      BY DEF TypeOK
    <2>4. ran \subseteq Int /\ (ledger.last # None => ledger.last \in Int)
      BY <2>2, Instants
    <2>5. tick'[s].from = from
      BY <1>2
    <2>6. from \in Int
      BY <2>1, <2>2, <2>5
    <2>7. l.now \in Int /\ base \in Int /\ base' \in Int
      BY <2>1, <2>2, <2>3
    <2> QED
      BY <2>2, <2>4, <2>6, <2>7
  <1>5. /\ base' = IF ledger.last = None /\ from > base THEN from ELSE base
        /\ ledger.last # None => from = ledger.last
    BY DEF ReadLedger, LooksFrom, LookFrom
  <1>6. base <= base'
    BY <1>4, <1>5
  <1>7. NoneForgotten'
    BY <1>3, <1>4, <1>5 DEF NoneForgotten
  <1>8. \A o \in dues : o \in Occurrences /\ o <= l.now
    BY DEF Between
  <1>9. ASSUME NEW o \in Occurrences, base' < o, o <= l.now, o \notin dues \ old
        PROVE  o \in ran \cup (ledger.skipped \cup old)
    <2>1. o \in old \/ o \notin dues
      BY <1>9
    <2>2. CASE o \notin dues
      <3>1. o <= from
        BY <1>4, <1>9, <2>2 DEF Between
      <3>2. ledger.last # None
        BY <1>4, <1>5, <1>9, <3>1
      <3> QED
        BY <1>4, <1>5, <1>9, <3>1, <3>2 DEF NoneForgotten
    <2> QED
      BY <2>1, <2>2
  <1> HIDE DEF old, dues, from
  <1>10. Accounted(pc'[s], tick'[s], ledger', ran', base')
    <2>1. \A o \in tick'[s].todo : o <= tick'[s].now
      BY <1>2, <1>8
    <2> QED
      BY <1>2, <1>3, <1>9, <2>1 DEF Accounted
  <1>11. \A u \in Ticks \ {s} : Accounted(pc'[u], tick'[u], ledger', ran', base')
    BY <1>2, <1>3, <1>6, OthersAccounted
  <1> QED
    BY <1>7, <1>10, <1>11 DEF AllAccounted

LEMMA SkipAccounts ==
  ASSUME TypeOK, TypeOK', AllAccounted, NoneForgotten, NEW s \in Ticks, Skip(s), tick[s].fresh
  PROVE  AllAccounted' /\ NoneForgotten'
  <1> DEFINE l == tick[s]
             o == Min(l.todo)
             lg == [l.state EXCEPT !.last = o, !.skipped = @ \cup {o}]
  <1>1. l \in Locals /\ l.todo \in SUBSET Occurrences /\ l.todo # {} /\ pc[s] = "loop"
    BY DEF Skip, TypeOK, Locals
  <1>2. o \in l.todo /\ \A p \in l.todo : o <= p
    BY <1>1, MinOf
  <1>3. /\ \A p \in l.todo : p <= l.now
        /\ \A p \in Occurrences :
             base < p /\ p <= l.now /\ p \notin l.todo => p \in ran \cup l.state.skipped
        /\ ledger.skipped \subseteq l.state.skipped
    BY <1>1 DEF AllAccounted, Accounted
  <1>4. ledger' = lg /\ lg.last = o /\ lg.skipped = l.state.skipped \cup {o}
    BY <1>1 DEF Skip, Locals, Ledger
  <1>5. /\ tick'[s].state = lg /\ tick'[s].todo = l.todo \ {o} /\ tick'[s].now = l.now
        /\ \A u \in Ticks \ {s} : tick'[u] = [tick[u] EXCEPT !.fresh = FALSE]
    <2>1. tick' = [Stale(s) EXCEPT ![s] = [Stale(s)[s] EXCEPT !.state = lg, !.todo = l.todo \ {o}]]
      BY DEF Skip
    <2>2. Stale(s) \in [Ticks -> Locals] /\ \A u \in Ticks : tick[u] \in Locals
      BY StaleCopies DEF TypeOK
    <2>3. \A u \in Ticks : Stale(s)[u] = [tick[u] EXCEPT !.fresh = (u = s)]
      BY StaleCopies
    <2> HIDE DEF lg, o
    <2> QED
      BY <2>1, <2>2, <2>3 DEF Locals
  <1>6. UNCHANGED <<pc, ran, base>>
    BY DEF Skip
  <1>7. base \in Int /\ Occurrences \subseteq Int /\ l.now \in Int /\ o \in Int
    <2>1. base \in Int /\ Occurrences \subseteq Int /\ l.now \in Int
      BY <1>1, SchedulesAssumption DEF TypeOK, Instant, Locals
    <2> HIDE DEF o
    <2> QED
      BY <1>1, <1>2, <2>1
  <1> HIDE DEF lg, o
  <1>8. NoneForgotten'
    <2> SUFFICES ASSUME NEW p \in Occurrences, base < p, p <= o
                 PROVE  p \in ran \cup (l.state.skipped \cup {o})
      BY <1>4, <1>6 DEF NoneForgotten
    <2>1. p <= l.now
      BY <1>2, <1>3, <1>7
    <2>2. p = o \/ p \notin l.todo
      BY <1>2, <1>7
    <2> QED
      BY <1>3, <2>1, <2>2
  <1>9. Accounted(pc'[s], tick'[s], ledger', ran', base')
    BY <1>1, <1>3, <1>4, <1>5, <1>6 DEF Accounted
  <1>10. \A u \in Ticks \ {s} : Accounted(pc'[u], tick'[u], ledger', ran', base')
    <2>1. ledger.skipped \subseteq ledger'.skipped /\ ran \subseteq ran' /\ base <= base'
      BY <1>3, <1>4, <1>6, <1>7
    <2>2. \A u \in Ticks \ {s} : pc'[u] = pc[u]
      BY <1>6
    <2> QED
      BY <1>5, <2>1, <2>2, OthersAccounted
  <1> QED
    BY <1>8, <1>9, <1>10 DEF AllAccounted

LEMMA ClaimAccounts ==
  ASSUME TypeOK, TypeOK', AllAccounted, NoneForgotten, NEW s \in Ticks, Claim(s), tick[s].fresh
  PROVE  AllAccounted' /\ NoneForgotten'
  <1> DEFINE l == tick[s]
             o == Min(l.todo)
             lg == [l.state EXCEPT !.running = o]
  <1>1. l \in Locals /\ l.todo \in SUBSET Occurrences /\ l.todo # {} /\ pc[s] = "loop"
    BY DEF Claim, TypeOK, Locals
  <1>2. o \in l.todo /\ \A p \in l.todo : o <= p
    BY <1>1, MinOf
  <1>3. /\ \A p \in l.todo : p <= l.now
        /\ \A p \in Occurrences :
             base < p /\ p <= l.now /\ p \notin l.todo => p \in ran \cup l.state.skipped
        /\ l.state.last = ledger.last /\ ledger.skipped \subseteq l.state.skipped
    BY <1>1 DEF AllAccounted, Accounted
  <1>4. ledger' = lg /\ lg.last = ledger.last /\ lg.skipped = l.state.skipped
    BY <1>1, <1>3 DEF Claim, Locals, Ledger
  <1>5. /\ tick'[s].state = lg /\ tick'[s].todo = l.todo /\ tick'[s].now = l.now
        /\ tick'[s].occ = o
        /\ \A u \in Ticks \ {s} : tick'[u] = [tick[u] EXCEPT !.fresh = FALSE]
    <2>1. tick' = [Stale(s) EXCEPT ![s] = [Stale(s)[s] EXCEPT !.state = lg, !.occ = o]]
      BY DEF Claim
    <2>2. Stale(s) \in [Ticks -> Locals] /\ \A u \in Ticks : tick[u] \in Locals
      BY StaleCopies DEF TypeOK
    <2>3. \A u \in Ticks : Stale(s)[u] = [tick[u] EXCEPT !.fresh = (u = s)]
      BY StaleCopies
    <2> HIDE DEF lg, o
    <2> QED
      BY <2>1, <2>2, <2>3 DEF Locals
  <1>6. /\ pc'[s] = "call" /\ \A u \in Ticks \ {s} : pc'[u] = pc[u]
        /\ UNCHANGED <<ran, base>>
    BY DEF Claim, TypeOK
  <1>7. base \in Int
    BY SchedulesAssumption DEF TypeOK, Instant
  <1> HIDE DEF lg, o
  <1>8. NoneForgotten'
    BY <1>3, <1>4, <1>6 DEF NoneForgotten
  <1>9. Accounted(pc'[s], tick'[s], ledger', ran', base')
    BY <1>2, <1>3, <1>4, <1>5, <1>6 DEF Accounted
  <1>10. \A u \in Ticks \ {s} : Accounted(pc'[u], tick'[u], ledger', ran', base')
    BY <1>3, <1>4, <1>5, <1>6, <1>7, OthersAccounted
  <1> QED
    BY <1>8, <1>9, <1>10 DEF AllAccounted

LEMMA CallAccounts ==
  ASSUME TypeOK, TypeOK', AllAccounted, NoneForgotten, NEW s \in Ticks, Call(s)
  PROVE  AllAccounted' /\ NoneForgotten'
  <1>1. PICK ok \in BOOLEAN :
          /\ tick' = [tick EXCEPT ![s] = [tick[s] EXCEPT !.failed = ~ok]]
          /\ ran' = IF ok THEN ran \cup {tick[s].occ} ELSE ran
    BY DEF Call
  <1>2. tick[s] \in Locals /\ pc[s] = "call" /\ base \in Int
    BY SchedulesAssumption DEF Call, TypeOK, Instant
  <1>3. /\ tick'[s] = [tick[s] EXCEPT !.failed = ~ok]
        /\ \A u \in Ticks \ {s} : tick'[u] = tick[u]
        /\ pc'[s] = "complete" /\ \A u \in Ticks \ {s} : pc'[u] = pc[u]
        /\ UNCHANGED <<ledger, base>> /\ ran \subseteq ran'
    BY <1>1 DEF Call, TypeOK
  <1>4. /\ tick'[s].todo = tick[s].todo /\ tick'[s].now = tick[s].now
        /\ tick'[s].state = tick[s].state /\ tick'[s].occ = tick[s].occ
        /\ tick'[s].fresh = tick[s].fresh /\ tick'[s].failed = ~ok
    BY <1>2, <1>3 DEF Locals
  <1>5. Accounted("call", tick[s], ledger, ran, base)
    BY <1>2 DEF AllAccounted
  <1>6. Accounted(pc'[s], tick'[s], ledger', ran', base')
    <2>1. ok => tick[s].occ \in ran'
      BY <1>1
    <2>2. Accounted("complete", tick'[s], ledger, ran', base)
      BY <1>3, <1>4, <1>5, <2>1 DEF Accounted
    <2> QED
      BY <1>3, <2>2
  <1>7. \A u \in Ticks \ {s} : Accounted(pc'[u], tick'[u], ledger', ran', base')
    BY <1>2, <1>3, OthersAccounted
  <1>8. NoneForgotten'
    BY <1>3 DEF NoneForgotten
  <1> QED
    BY <1>6, <1>7, <1>8 DEF AllAccounted

LEMMA CompleteAccounts ==
  ASSUME TypeOK, TypeOK', AllAccounted, NoneForgotten, NEW s \in Ticks, Complete(s)
  PROVE  AllAccounted' /\ NoneForgotten'
  <1> DEFINE l == tick[s]
             done == IF l.failed THEN None ELSE l.occ
             lg == [ledger EXCEPT !.running = None, !.last = Latest(@, done)]
  <1>1. l \in Locals /\ ledger \in Ledger /\ pc[s] = "complete"
    BY DEF Complete, TypeOK
  <1>2. /\ \A p \in l.todo : p <= l.now /\ l.occ <= p
        /\ \A p \in Occurrences :
             base < p /\ p <= l.now /\ p \notin l.todo => p \in ran \cup l.state.skipped
        /\ l.occ \in l.todo /\ l.state.skipped \subseteq ledger.skipped
        /\ ~l.failed => l.occ \in ran
    BY <1>1 DEF AllAccounted, Accounted
  <1>3. ledger' = lg /\ lg.last = Latest(ledger.last, done) /\ lg.skipped = ledger.skipped
    BY <1>1 DEF Complete, Ledger
  <1>4. /\ tick'[s].state = lg /\ tick'[s].todo = l.todo \ {l.occ} /\ tick'[s].now = l.now
        /\ \A u \in Ticks \ {s} : tick'[u] = [tick[u] EXCEPT !.fresh = FALSE]
    <2>1. tick' = [Stale(s) EXCEPT ![s] =
                     [Stale(s)[s] EXCEPT !.state = lg, !.todo = l.todo \ {l.occ}, !.occ = None]]
      BY DEF Complete
    <2>2. Stale(s) \in [Ticks -> Locals] /\ \A u \in Ticks : tick[u] \in Locals
      BY StaleCopies DEF TypeOK
    <2>3. \A u \in Ticks : Stale(s)[u] = [tick[u] EXCEPT !.fresh = (u = s)]
      BY StaleCopies
    <2> HIDE DEF lg
    <2> QED
      BY <2>1, <2>2, <2>3 DEF Locals
  <1>5. /\ pc'[s] = IF l.failed THEN "index" ELSE "loop"
        /\ \A u \in Ticks \ {s} : pc'[u] = pc[u]
        /\ UNCHANGED <<ran, base>>
    BY DEF Complete, TypeOK
  <1>6. /\ base \in Int /\ Occurrences \subseteq Int /\ l.now \in Int
        /\ l.todo \subseteq Occurrences
    BY <1>1, SchedulesAssumption DEF TypeOK, Instant, Locals
  <1> HIDE DEF lg
  <1>7. ASSUME ~l.failed, NEW p \in Occurrences, base < p, p <= l.occ
        PROVE  p \in ran \cup ledger.skipped
    <2>0. l.occ \in Int /\ p \in Int /\ l.occ <= l.now
      BY <1>2, <1>6
    <2>1. p <= l.now /\ (p = l.occ \/ p \notin l.todo)
      BY <1>2, <1>6, <1>7, <2>0
    <2> QED
      BY <1>2, <1>7, <2>1
  <1>8. NoneForgotten'
    <2>1. CASE lg.last = ledger.last
      BY <1>3, <1>5, <2>1 DEF NoneForgotten
    <2>2. CASE ~l.failed /\ lg.last = l.occ
      BY <1>3, <1>5, <1>7, <2>2 DEF NoneForgotten
    <2> QED
      BY <1>3, <2>1, <2>2 DEF Latest
  <1>9. Accounted(pc'[s], tick'[s], ledger', ran', base')
    BY <1>2, <1>3, <1>4, <1>5 DEF Accounted
  <1>10. \A u \in Ticks \ {s} : Accounted(pc'[u], tick'[u], ledger', ran', base')
    BY <1>3, <1>4, <1>5, <1>6, OthersAccounted
  <1> QED
    BY <1>8, <1>9, <1>10 DEF AllAccounted

(* A step of a tick that is not at work on the ledger after it.            *)
LEMMA ElsewhereAccounts ==
  ASSUME TypeOK, TypeOK', AllAccounted, NoneForgotten, NEW s \in Ticks,
         UNCHANGED <<ledger, ran, base>>,
         \A u \in Ticks \ {s} : pc'[u] = pc[u] /\ tick'[u] = tick[u],
         pc'[s] \notin {"loop", "call", "complete"}
  PROVE  AllAccounted' /\ NoneForgotten'
  BY DEF AllAccounted, Accounted, NoneForgotten

LEMMA NextAccounts ==
  TypeOK /\ AllAccounted /\ NoneForgotten /\ [Next]_vars => AllAccounted' /\ NoneForgotten'
  <1> SUFFICES ASSUME TypeOK, AllAccounted, NoneForgotten, [Next]_vars
               PROVE  AllAccounted' /\ NoneForgotten'
    OBVIOUS
  <1>0. TypeOK'
    BY TypeKept
  <1>1. CASE Advance \/ Track \/ UNCHANGED vars
    BY <1>1 DEF Advance, Track, vars, AllAccounted, NoneForgotten
  <1>2. ASSUME NEW s \in Ticks, ReadLedger(s) \/ Call(s) \/ Complete(s)
        PROVE  AllAccounted' /\ NoneForgotten'
    BY <1>0, <1>2, ReadAccounts, CallAccounts, CompleteAccounts
  <1>3. ASSUME NEW s \in Ticks, Skip(s) \/ Claim(s) PROVE AllAccounted' /\ NoneForgotten'
    <2>1. CASE tick[s].fresh
      BY <1>0, <1>3, <2>1, SkipAccounts, ClaimAccounts
    <2>2. CASE ~tick[s].fresh
      <3>1. pc' = [pc EXCEPT ![s] = "index"] /\ UNCHANGED <<ledger, tick, ran, base>>
        BY <1>3, <2>2 DEF Skip, Claim
      <3>2. pc'[s] = "index" /\ \A u \in Ticks \ {s} : pc'[u] = pc[u] /\ tick'[u] = tick[u]
        BY <3>1 DEF TypeOK
      <3> QED
        BY <1>0, <3>1, <3>2, ElsewhereAccounts
    <2> QED
      BY <2>1, <2>2
  <1>4. ASSUME NEW s \in Ticks,
               \/ SweepTick(s) \/ OperatorTick(s) \/ Record(s) \/ UpdateIndex(s)
               \/ Crash(s) \/ LoopEnds(s)
        PROVE  AllAccounted' /\ NoneForgotten'
    <2>1. /\ pc'[s] \in {"idle", "index", "read", "record"}
          /\ \A u \in Ticks \ {s} : pc'[u] = pc[u]
      BY <1>4 DEF SweepTick, OperatorTick, Record, UpdateIndex, Crash, LoopEnds, TypeOK
    <2>2. /\ \A u \in Ticks \ {s} : tick'[u] = tick[u]
          /\ UNCHANGED <<ledger, ran, base>>
      BY <1>4 DEF SweepTick, OperatorTick, Record, UpdateIndex, Crash, LoopEnds, TypeOK
    <2> QED
      BY <1>0, <2>1, <2>2, ElsewhereAccounts
  <1> QED
    BY <1>1, <1>2, <1>3, <1>4 DEF Next

(* Every occurrence between the first look and the last record ran or is   *)
(* listed as skipped, under either policy, whatever ticks overlap, fail or *)
(* die.                                                                    *)
THEOREM NothingIsForgotten == Spec => []NoneForgotten
  <1>1. Init => AllAccounted /\ NoneForgotten
    BY DEF Init, AllAccounted, Accounted, NoneForgotten, EmptyLedger
  <1> QED
    BY <1>1, NextAccounts, TypeCorrect, PTL DEF Spec

-----------------------------------------------------------------------------
(* The index entry a sweep holds was not later than the first occurrence   *)
(* to come when its tick began.                                            *)
EntriesInTime ==
  \A s \in Ticks : pc[s] # "idle" =>
    /\ tick[s].now <= now
    /\ tick[s].at # None => \A o \in Occurrences : o > tick[s].now => tick[s].at <= o

LEMMA NextDueFirst ==
  ASSUME NEW t \in Int, NextDue(t) # None
  PROVE  \A o \in Occurrences : o > t => NextDue(t) <= o
  <1> DEFINE later == {o \in Occurrences : o > t}
  <1>1. later # {} /\ NextDue(t) = Min(later)
    BY DEF NextDue
  <1> QED
    BY <1>1, MinOf

LEMMA NextInTime ==
  TypeOK /\ EntriesInTime /\ IndexWakesInTime /\ [Next]_vars =>
    EntriesInTime' /\ IndexWakesInTime'
  <1> SUFFICES ASSUME TypeOK, EntriesInTime, IndexWakesInTime, [Next]_vars
               PROVE  EntriesInTime' /\ IndexWakesInTime'
    OBVIOUS
  <1>0. /\ TypeOK' /\ now \in Int /\ now - Minute \in Int /\ now - Minute < now
        /\ Occurrences \subseteq Int
        /\ \A s \in Ticks : tick[s] \in Locals /\ tick[s].now \in Int
        /\ now' \in Int /\ due' \in MaybeOccurrence
    <2>1. TypeOK'
      BY TypeKept
    <2> QED
      BY <2>1, SchedulesAssumption DEF TypeOK, Locals
  <1>1. CASE Advance
    BY <1>0, <1>1 DEF Advance, EntriesInTime, IndexWakesInTime
  <1>2. CASE Track
    BY <1>0, <1>2, NextDueFirst DEF Track, EntriesInTime, IndexWakesInTime
  <1>3. CASE UNCHANGED vars
    BY <1>3 DEF vars, EntriesInTime, IndexWakesInTime
  <1>4. ASSUME NEW s \in Ticks, SweepTick(s) \/ OperatorTick(s)
        PROVE  EntriesInTime' /\ IndexWakesInTime'
    <2>1. Entry # None => \A o \in Occurrences : o > now => Entry <= o
      <3>1. CASE due # None
        BY <3>1 DEF Entry, IndexWakesInTime
      <3>2. CASE due = None /\ NextDue(now - Minute) # None
        <4>1. \A o \in Occurrences : o > now => o > now - Minute
          BY <1>0
        <4> QED
          BY <1>0, <3>2, <4>1, NextDueFirst DEF Entry
      <3> QED
        BY <3>1, <3>2 DEF Entry
    <2>2. PICK at \in {Entry, None} : tick' = [tick EXCEPT ![s] = [tick[s] EXCEPT !.now = now, !.at = at]]
      BY <1>4 DEF SweepTick, OperatorTick
    <2>3. tick'[s].now = now /\ tick'[s].at = at /\ \A u \in Ticks \ {s} : tick'[u] = tick[u]
      BY <1>0, <2>2 DEF Locals, TypeOK
    <2>4. UNCHANGED <<now, due>> /\ \A u \in Ticks \ {s} : pc'[u] = pc[u]
      BY <1>4 DEF SweepTick, OperatorTick, TypeOK
    <2>5. at # None => \A o \in Occurrences : o > now => at <= o
      BY <2>1
    <2> QED
      BY <1>0, <2>3, <2>4, <2>5 DEF EntriesInTime, IndexWakesInTime
  <1>5. ASSUME NEW s \in Ticks, Record(s) \/ UpdateIndex(s)
        PROVE  EntriesInTime' /\ IndexWakesInTime'
    <2>1. /\ pc[s] # "idle" /\ pc'[s] = "idle" /\ now' = now
          /\ \A u \in Ticks \ {s} : pc'[u] = pc[u] /\ tick'[u] = tick[u]
      BY <1>5 DEF Record, UpdateIndex, TypeOK
    <2>2. EntriesInTime'
      BY <2>1 DEF EntriesInTime
    <2>3. tick[s].now <= now
      BY <2>1 DEF EntriesInTime
    <2>4. due' = due \/ due' = tick[s].at \/ due' = NextDue(tick[s].now)
      BY <1>5 DEF Record, UpdateIndex, NextEntry
    <2>5. ASSUME due' # None, NEW o \in Occurrences, o > now PROVE due' <= o
      <3>1. o > tick[s].now
        BY <1>0, <2>3, <2>5
      <3> QED
        BY <1>0, <2>1, <2>4, <2>5, <3>1, NextDueFirst DEF EntriesInTime, IndexWakesInTime
    <2> QED
      BY <2>1, <2>2, <2>5 DEF IndexWakesInTime
  <1>6. ASSUME NEW s \in Ticks, ReadLedger(s) \/ Skip(s) \/ Claim(s) \/ Call(s) \/ Complete(s)
        PROVE  EntriesInTime' /\ IndexWakesInTime'
    <2>1. UNCHANGED <<now, due>> /\ \A u \in Ticks : pc'[u] # "idle" => pc[u] # "idle"
      BY <1>6 DEF ReadLedger, Skip, Claim, Call, Complete, TypeOK
    <2>2. \A u \in Ticks : tick'[u].now = tick[u].now /\ tick'[u].at = tick[u].at
      <3>1. /\ Stale(s) \in [Ticks -> Locals]
            /\ \A u \in Ticks : Stale(s)[u] = [tick[u] EXCEPT !.fresh = (u = s)]
        BY StaleCopies
      <3>2. \A u \in Ticks : Stale(s)[u].now = tick[u].now /\ Stale(s)[u].at = tick[u].at
        BY <1>0, <3>1 DEF Locals
      <3>0. tick \in [Ticks -> Locals]
        BY <1>0 DEF TypeOK
      <3>3. CASE ReadLedger(s)
        <4>1. PICK lg, S, from :
                tick' = [tick EXCEPT ![s] =
                          [tick[s] EXCEPT !.state = lg, !.fresh = TRUE, !.todo = S, !.from = from]]
          BY <3>3 DEF ReadLedger
        <4>2. /\ tick'[s] = [tick[s] EXCEPT !.state = lg, !.fresh = TRUE, !.todo = S, !.from = from]
              /\ \A u \in Ticks \ {s} : tick'[u] = tick[u]
          BY <3>0, <4>1
        <4>3. tick'[s].now = tick[s].now /\ tick'[s].at = tick[s].at
          BY <3>0, <4>2 DEF Locals
        <4> QED
          BY <4>2, <4>3
      <3>4. CASE Skip(s)
        <4>1. \/ tick' = tick
              \/ \E lg, S : tick' = [Stale(s) EXCEPT ![s] =
                                      [Stale(s)[s] EXCEPT !.state = lg, !.todo = S]]
          BY <3>4 DEF Skip
        <4>2. ASSUME NEW lg, NEW S,
                     tick' = [Stale(s) EXCEPT ![s] = [Stale(s)[s] EXCEPT !.state = lg, !.todo = S]]
              PROVE  \A u \in Ticks : tick'[u].now = tick[u].now /\ tick'[u].at = tick[u].at
          <5>1. Stale(s)[s] \in Locals
            BY <3>1
          <5>2. /\ tick'[s] = [Stale(s)[s] EXCEPT !.state = lg, !.todo = S]
                /\ \A u \in Ticks \ {s} : tick'[u] = Stale(s)[u]
            BY <3>1, <4>2
          <5>3. tick'[s].now = Stale(s)[s].now /\ tick'[s].at = Stale(s)[s].at
            BY <5>1, <5>2 DEF Locals
          <5> QED
            BY <3>2, <5>2, <5>3
        <4> QED
          BY <4>1, <4>2
      <3>5. CASE Claim(s)
        <4>1. \/ tick' = tick
              \/ \E lg, o : tick' = [Stale(s) EXCEPT ![s] =
                                      [Stale(s)[s] EXCEPT !.state = lg, !.occ = o]]
          BY <3>5 DEF Claim
        <4>2. ASSUME NEW lg, NEW o,
                     tick' = [Stale(s) EXCEPT ![s] = [Stale(s)[s] EXCEPT !.state = lg, !.occ = o]]
              PROVE  \A u \in Ticks : tick'[u].now = tick[u].now /\ tick'[u].at = tick[u].at
          <5>1. Stale(s)[s] \in Locals
            BY <3>1
          <5>2. /\ tick'[s] = [Stale(s)[s] EXCEPT !.state = lg, !.occ = o]
                /\ \A u \in Ticks \ {s} : tick'[u] = Stale(s)[u]
            BY <3>1, <4>2
          <5>3. tick'[s].now = Stale(s)[s].now /\ tick'[s].at = Stale(s)[s].at
            BY <5>1, <5>2 DEF Locals
          <5> QED
            BY <3>2, <5>2, <5>3
        <4> QED
          BY <4>1, <4>2
      <3>6. CASE Call(s)
        <4>1. PICK ok \in BOOLEAN : tick' = [tick EXCEPT ![s] = [tick[s] EXCEPT !.failed = ~ok]]
          BY <3>6 DEF Call
        <4> QED
          BY <1>0, <4>1 DEF Locals, TypeOK
      <3>7. CASE Complete(s)
        BY <1>0, <3>1, <3>2, <3>7 DEF Complete, Locals, TypeOK
      <3> QED
        BY <1>6, <3>3, <3>4, <3>5, <3>6, <3>7
    <2> QED
      BY <2>1, <2>2 DEF EntriesInTime, IndexWakesInTime
  <1>7. ASSUME NEW s \in Ticks, Crash(s) \/ LoopEnds(s)
        PROVE  EntriesInTime' /\ IndexWakesInTime'
    <2>1. /\ UNCHANGED <<now, due>> /\ (pc'[s] = "idle" \/ (pc[s] # "idle" /\ tick' = tick))
          /\ \A u \in Ticks \ {s} : pc'[u] = pc[u] /\ tick'[u] = tick[u]
      BY <1>7 DEF Crash, LoopEnds, TypeOK
    <2> QED
      BY <2>1 DEF EntriesInTime, IndexWakesInTime
  <1> QED
    BY <1>1, <1>2, <1>3, <1>4, <1>5, <1>6, <1>7 DEF Next

(* The index entry of a tenant is never later than its first occurrence to *)
(* come, whichever of two sweeps, a request or a late tick wrote it.       *)
THEOREM TenantsWakeInTime == Spec => []IndexWakesInTime
  <1>1. Init => EntriesInTime /\ IndexWakesInTime
    BY DEF Init, EntriesInTime, IndexWakesInTime
  <1> QED
    BY <1>1, NextInTime, TypeCorrect, PTL DEF Spec
=============================================================================
