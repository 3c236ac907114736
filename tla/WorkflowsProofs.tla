--------------------------- MODULE WorkflowsProofs ---------------------------
(***************************************************************************)
(* Proofs about Workflows, for every program without loops, any number of  *)
(* instances, drivers and messages, and any bound on faults.               *)
(*                                                                         *)
(* Everything rests on Base: the types, what a document under way has      *)
(* behind it (InstOK), that the copy a driver holds was the instance once  *)
(* and is it still when the versions agree (DriversOK), and that nobody    *)
(* has met an instance that is not listed and whose key document was not   *)
(* written (StartOK).  A step then leaves every instance as it is or takes *)
(* it on by one transition (InstStep).  Activities, the active list, the   *)
(* keys and the signals each have an invariant of their own on top of it,  *)
(* and so has the refinement of WorkflowProcess (RunOK).                   *)
(***************************************************************************)
EXTENDS Workflows, FiniteSetTheorems, WellFoundedInduction, TLAPS

-----------------------------------------------------------------------------
(* Documents.                                                              *)

Rank ==
  CHOOSE rank \in [Steps -> Steps] :
    \A k \in Steps : \A p \in Successors(k) \cap Steps : rank[p] > rank[k]

(* Position p is behind step k: every way from k to the end.               *)
Later(p, k) == p \in Steps => Rank[p] > Rank[k]

(* A document under way has been only at steps before its own, and has     *)
(* consumed a message at each wait step among them.                        *)
Past(c) ==
  \A x \in 1 .. Len(c.history) : c.history[x] \in Steps /\ Later(c.pc, c.history[x])

Counted(c) ==
  /\ IsFiniteSet(c.consumed)
  /\ Cardinality(c.consumed) =
       Cardinality({x \in 1 .. Len(c.history) : c.history[x] \in WaitSteps})

DocOK(c) ==
  /\ c.status = "waiting" => c.pc \in WaitSteps
  /\ c.status = "sleeping" => c.pc \in Steps /\ Program[c.pc].kind = "sleep"
  /\ c.status \in Live => Past(c) /\ Counted(c)

(* The same but for the version.                                           *)
Agree(a, c) ==
  /\ a.status = c.status /\ a.pc = c.pc
  /\ a.consumed = c.consumed /\ a.history = c.history

(* One transition takes c to n.                                            *)
Moves(c, n) ==
  \/ n.status \in Over
  \/ n.status = "running" /\ c.pc \in Steps /\ Later(n.pc, c.pc)
  \/ c.status = "running" /\ n.status \in {"waiting", "sleeping"} /\ n.pc = c.pc

(* a has gone the way that c is on at least as far as c.                   *)
Ahead(a, c) ==
  \/ Agree(a, c)
  \/ a.status \in Over
  \/ c.status \in Live /\ c.pc \in Steps /\ Later(a.pc, c.pc)
  \/ c.status = "running" /\ a.status \in {"waiting", "sleeping"} /\ a.pc = c.pc

-----------------------------------------------------------------------------
(* The instances and the drivers at work on them.                          *)

InstOK == \A i \in Instances : inst[i] # None => DocOK(inst[i])

(* What a driver at label knows of its copy c and of its next state n.     *)
LabelOK(label, c, n) ==
  /\ label \in {"call", "perform"} =>
       c.status \in Live /\ c.pc \in Steps /\ Program[c.pc].kind = "call"
  /\ label = "register" => c.status = "running" /\ c.pc \in WaitSteps
  /\ label \in {"inbox", "unregister"} => c.status = "waiting"
  /\ label \in {"unregister", "save"} =>
       c.status \in Live /\ n.version = c.version /\ DocOK(n) /\ Moves(c, n)

(* A driver at label with locals r, whose instance is document a.          *)
DriverAt(label, r, a) ==
  label # "idle" =>
    /\ a # None
    /\ r.copy.version <= a.version
    /\ r.copy.version = a.version => r.copy = a
    /\ DocOK(r.copy) /\ Ahead(a, r.copy)
    /\ LabelOK(label, r.copy, r.next)
    /\ label = "leave" => a.status \in Over

DriversOK == \A d \in Drivers : DriverAt(dpc[d], drv[d], inst[drv[d].i])

(* The instances that others may have met: those start has listed, and     *)
(* those a key document names.                                             *)
Met ==
  {i \in Instances : /\ inst[i] # None
                     /\ starting[i] \in {"enroll", "done", "listed"} \/ keyDoc[KeyOf[i]] = i}

StartOK ==
  /\ \A i \in Instances :
       /\ starting[i] \in {"new", "create"} => inst[i] = None
       /\ starting[i] \in {"key", "register", "enroll", "listed"} => inst[i] # None
  /\ active \cup wanted \subseteq Met
  /\ \A k \in WaitSteps : waiters[k] \subseteq Met
  /\ \A m \in Messages : sig[m].todo \subseteq Met
  /\ \A d \in Drivers : dpc[d] # "idle" => drv[d].i \in Met

Base == TypeOK /\ InstOK /\ DriversOK /\ StartOK

(* A delivery under way is at a wait step.                                 *)
SentOK ==
  \A m \in Messages : sig[m].stage \in {"put", "look", "wake"} => sig[m].step \in WaitSteps

-----------------------------------------------------------------------------
(* Activities: no step is passed twice, and its receipt tells whether its  *)
(* activity was performed.                                                 *)

EffectsOK ==
  \A i \in Instances, k \in Steps : effects[i][k] = IF <<i, k, 0>> \in receipts THEN 1 ELSE 0

-----------------------------------------------------------------------------
(* Keys.                                                                   *)

(* i was made by a call of start that goes on, or others may have met it.  *)
InPlay(i) == starting[i] \in {"create", "key", "register"} \/ i \in Met

KeysOK ==
  /\ \A i \in Instances : starting[i] = "register" \/ i \in Met => keyDoc[KeyOf[i]] # None
  /\ \A i, j \in Instances :
       i # j /\ KeyOf[i] = KeyOf[j] /\ KeyOf[i] \notin raced => ~(InPlay(i) /\ InPlay(j))

-----------------------------------------------------------------------------
(* Signals.                                                                *)

(* The driver will look at the instance as it is now, or has just done so. *)
Minding(d, i) ==
  /\ dpc[d] # "idle" /\ drv[d].i = i
  /\ \/ dpc[d] \in {"call", "perform", "register", "unregister", "save", "reload"}
     \/ dpc[d] \in {"loop", "inbox"} /\ Agree(inst[i], drv[d].copy)

(* The delivery of m has still to come to i, which waits at step k.        *)
Pending(m, i, k) ==
  \/ sig[m].stage \in {"put", "look"} /\ sig[m].step <= k
  \/ sig[m].stage = "wake" /\ (sig[m].step < k \/ (sig[m].step = k /\ i \in sig[m].todo))

SignalsMinded ==
  \A i \in Instances :
    inst[i] # None /\ inst[i].status = "waiting" =>
      \A m \in inbox[inst[i].pc] \ inst[i].consumed :
        (\E d \in Drivers : Minding(d, i)) \/ i \in wanted \/ Pending(m, i, inst[i].pc)

(* The wait of document c can end: of the signals in the inboxes one is    *)
(* not consumed, or the step, which has a timeout, is among those due.     *)
CanEnd(box, due, c) ==
  box[c.pc] \ c.consumed # {} \/ (c.pc \in due /\ Program[c.pc].exit # None)

(* An instance that waits without being registered is one whose wait can   *)
(* end and that a driver has in hand.                                      *)
InHand(d, i) ==
  Minding(d, i) /\ (dpc[d] = "inbox" => drv[d].due \/ Unconsumed(drv[d].copy) # {})

Registered ==
  \A i \in Instances :
    inst[i] # None /\ inst[i].status = "waiting" /\ i \notin waiters[inst[i].pc] =>
      CanEnd(inbox, elapsed[i], inst[i]) /\ \E d \in Drivers : InHand(d, i)

(* What a driver at a wait has found out stays true: that the wait was due *)
(* or can end, and, until the instance goes on, that it is registered.     *)
WaitAt(d) ==
  /\ dpc[d] = "inbox" /\ drv[d].due => drv[d].copy.pc \in elapsed[drv[d].i]
  /\ dpc[d] = "unregister" => CanEnd(inbox, elapsed[drv[d].i], drv[d].copy)
  /\ dpc[d] = "save" /\ drv[d].next.status = "waiting" /\ Agree(inst[drv[d].i], drv[d].copy) =>
       drv[d].i \in waiters[drv[d].copy.pc]

WaitsOK == \A d \in Drivers : WaitAt(d)

SignalsOK == WaitsOK /\ (crashes = 0 => SignalsMinded /\ Registered)

-----------------------------------------------------------------------------
(* The active list.                                                        *)

(* A call of start that has listed its instance, if it made one, is here.  *)
ListedPhases == {"enroll", "done", "listed"}

(* While no driver has died, a listed instance that is over is about to be *)
(* taken off by the driver that ended it, or was over before it was listed.*)
FinishedLeaves ==
  \A i \in Instances : crashes = 0 /\ i \in active /\ inst[i].status \in Over =>
    i \in late \/ \E d \in Drivers : dpc[d] = "leave" /\ drv[d].i = i

LiveActive ==
  \A i \in Instances :
    inst[i] # None /\ starting[i] \in ListedPhases /\ inst[i].status \in Live => i \in active

ListOK == LiveActive /\ FinishedLeaves

-----------------------------------------------------------------------------
(* The process that the drivers run together.                              *)

(* The program takes an instance that is as c says to where it is as n     *)
(* says, with the activities performed, the signals and the timers so far. *)
Leads(i, c, n) == View(n) \in Process!After(i, View(c))

(* What a driver is about to save the program leads to from its copy.      *)
Led(d) ==
  dpc[d] \in {"unregister", "save"} => Leads(drv[d].i, drv[d].copy, drv[d].next)

(* No driver lags behind at a call whose activity was not performed: the   *)
(* instance has not gone past it.                                          *)
CallMade(d) ==
  LET i == drv[d].i
      c == drv[d].copy
  IN dpc[d] # "idle" /\ c.status \in Live /\ c.pc \in Steps /\ Program[c.pc].kind = "call" =>
       inst[i].pc = c.pc \/ effects[i][c.pc] = 1

RunOK == \A d \in Drivers : Led(d) /\ CallMade(d)

-----------------------------------------------------------------------------
(* What the assumptions say.                                               *)

LEMMA RankOK ==
  /\ Rank \in [Steps -> Steps]
  /\ \A k \in Steps : \A p \in Successors(k) \cap Steps : Rank[p] > Rank[k]
  BY ProgramAssumption DEF Rank

LEMMA LaterTrans ==
  ASSUME NEW p, NEW q \in Steps, NEW k \in Steps, Later(p, q), Later(q, k)
  PROVE  Later(p, k)
  <1>1. \A s \in Steps : Rank[s] \in Int
    BY RankOK DEF Steps
  <1> QED
    BY <1>1 DEF Later

LEMMA NotLater ==
  ASSUME NEW k \in Steps
  PROVE  ~Later(k, k)
  <1>1. Rank[k] \in Int
    BY RankOK DEF Steps
  <1> QED
    BY <1>1 DEF Later

LEMMA NodeTyped ==
  ASSUME NEW k \in Steps
  PROVE  /\ Program[k] \in Node /\ k \in Nat
         /\ Program[k].next \in Nat /\ Program[k].otherwise \in Nat
         /\ Program[k].exit \in {"completed", "failed", None}
         /\ Program[k].kind \in {"call", "sleep", "wait", "choice", "return", "fail"}
  <1>1. Program[k] \in Node /\ k \in Nat
    BY WorkflowsAssumption DEF Steps
  <1> QED
    BY <1>1 DEF Node

LEMMA SuccessorLater ==
  ASSUME NEW k \in Steps
  PROVE  /\ Later(Program[k].next, k)
         /\ Program[k].kind = "choice" => Later(Program[k].otherwise, k)
  BY RankOK DEF Later, Successors

LEMMA NoneApart == None \notin Document /\ None \notin Instances
  BY WorkflowsAssumption

LEMMA CallExit ==
  ASSUME NEW k \in Steps, Program[k].kind = "call"
  PROVE  Program[k].exit \in Over
  BY NodeTyped, ProgramAssumption DEF Over

-----------------------------------------------------------------------------
(* How the transitions change a document.                                  *)

LEMMA DocumentTyped ==
  ASSUME NEW c \in Document
  PROVE  /\ c.status \in Live \cup Over /\ c.pc \in Nat /\ c.consumed \in SUBSET Messages
         /\ c.history \in Seq(Steps \cup {0}) /\ c.version \in Nat /\ c.version # 0
  BY DEF Document

LEMMA LiveNotOver == Live \cap Over = {}
  BY DEF Live, Over

LEMMA FinishOK ==
  ASSUME NEW c \in Document, NEW status \in Over, NEW k \in Steps \cup {0}
  PROVE  LET n == Finish(c, status, k)
         IN  /\ n \in Document /\ n.status = status /\ n.version = c.version
             /\ DocOK(n) /\ Moves(c, n)
  <1> DEFINE n == Finish(c, status, k)
  <1>1. Append(c.history, k) \in Seq(Steps \cup {0})
    BY DocumentTyped
  <1>2. n \in Document /\ n.status = status /\ n.version = c.version
    BY <1>1 DEF Finish, Document
  <1>3. DocOK(n)
    BY <1>2 DEF DocOK, Live, Over
  <1> QED
    BY <1>2, <1>3 DEF Moves

(* The history of a document that goes on from its step.                   *)
LEMMA PastGrows ==
  ASSUME NEW c \in Document, NEW n \in Document, Past(c), c.pc \in Steps, Later(n.pc, c.pc),
         n.history = Append(c.history, c.pc)
  PROVE  Past(n)
  <1>1. c.history \in Seq(Steps \cup {0}) /\ c.pc \in Steps \cup {0}
    BY DocumentTyped
  <1>2. /\ Len(n.history) = Len(c.history) + 1 /\ Len(c.history) \in Nat
        /\ \A x \in 1 .. Len(c.history) : n.history[x] = c.history[x]
        /\ n.history[Len(c.history) + 1] = c.pc
    BY <1>1
  <1>3. ASSUME NEW x \in 1 .. Len(n.history)
        PROVE  n.history[x] \in Steps /\ Later(n.pc, n.history[x])
    <2>1. CASE x \in 1 .. Len(c.history)
      <3>1. c.history[x] \in Steps /\ Later(c.pc, c.history[x])
        BY <2>1 DEF Past
      <3> QED
        BY <1>2, <2>1, <3>1, LaterTrans
    <2>2. CASE x = Len(c.history) + 1
      BY <1>2, <2>2
    <2> QED
      BY <1>2, <2>1, <2>2
  <1> QED
    BY <1>3 DEF Past

(* The wait steps that a history names, at their places in it.             *)
WaitsIn(h) == {x \in 1 .. Len(h) : h[x] \in WaitSteps}

LEMMA WaitsGrow ==
  ASSUME NEW h \in Seq(Steps \cup {0}), NEW k \in Steps
  PROVE  /\ IsFiniteSet(WaitsIn(h)) /\ Cardinality(WaitsIn(h)) \in Nat
         /\ k \notin WaitSteps => WaitsIn(Append(h, k)) = WaitsIn(h)
         /\ k \in WaitSteps =>
              Cardinality(WaitsIn(Append(h, k))) = Cardinality(WaitsIn(h)) + 1
  <1>1. /\ Len(Append(h, k)) = Len(h) + 1 /\ Len(h) \in Nat
        /\ \A x \in 1 .. Len(h) : Append(h, k)[x] = h[x]
        /\ Append(h, k)[Len(h) + 1] = k
    OBVIOUS
  <1>2. IsFiniteSet(1 .. Len(h))
    BY <1>1, FS_Interval
  <1>3. WaitsIn(h) \in SUBSET (1 .. Len(h))
    BY DEF WaitsIn
  <1>4. IsFiniteSet(WaitsIn(h))
    BY <1>2, <1>3, FS_Subset
  <1>5. Cardinality(WaitsIn(h)) \in Nat
    BY <1>4, FS_CardinalityType
  <1>6. ASSUME k \notin WaitSteps
        PROVE  WaitsIn(Append(h, k)) = WaitsIn(h)
    BY <1>1, <1>6 DEF WaitsIn
  <1>7. ASSUME k \in WaitSteps
        PROVE  Cardinality(WaitsIn(Append(h, k))) = Cardinality(WaitsIn(h)) + 1
    <2>1. WaitsIn(Append(h, k)) = WaitsIn(h) \cup {Len(h) + 1}
      BY <1>1, <1>7 DEF WaitsIn
    <2>2. Len(h) + 1 \notin WaitsIn(h)
      BY <1>1, <1>3
    <2> QED
      BY <1>4, <2>1, <2>2, FS_AddElement
  <1> QED
    BY <1>4, <1>5, <1>6, <1>7

LEMMA ProceedOK ==
  ASSUME NEW c \in Document, DocOK(c), c.status \in Live, c.pc \in Steps,
         c.pc \notin WaitSteps, NEW p \in Nat, Later(p, c.pc)
  PROVE  LET n == Proceed(c, c.pc, p)
         IN  /\ n \in Document /\ n.status = "running" /\ n.version = c.version
             /\ DocOK(n) /\ Moves(c, n)
  <1> DEFINE n == Proceed(c, c.pc, p)
  <1>1. c.history \in Seq(Steps \cup {0}) /\ Append(c.history, c.pc) \in Seq(Steps \cup {0})
    BY DocumentTyped
  <1>2. /\ n \in Document /\ n.status = "running" /\ n.version = c.version /\ n.pc = p
        /\ n.history = Append(c.history, c.pc) /\ n.consumed = c.consumed
    BY <1>1 DEF Proceed, Document, Live
  <1> HIDE DEF n
  <1>3. Past(c) /\ Counted(c)
    BY DEF DocOK
  <1>4. Past(n)
    BY <1>2, <1>3, PastGrows
  <1>5. Counted(n)
    BY <1>1, <1>2, <1>3, WaitsGrow DEF Counted, WaitsIn
  <1>6. DocOK(n) /\ Moves(c, n)
    BY <1>2, <1>4, <1>5 DEF DocOK, Moves
  <1> QED
    BY <1>2, <1>6 DEF n

LEMMA ConsumeOK ==
  ASSUME NEW c \in Document, DocOK(c), c.status \in Live, c.pc \in WaitSteps,
         NEW p \in Nat, Later(p, c.pc), NEW m \in Messages \ c.consumed
  PROVE  LET n == [Proceed(c, c.pc, p) EXCEPT !.consumed = @ \cup {m}]
         IN  /\ n \in Document /\ n.status = "running" /\ n.version = c.version
             /\ DocOK(n) /\ Moves(c, n)
  <1> DEFINE n == [Proceed(c, c.pc, p) EXCEPT !.consumed = @ \cup {m}]
  <1>0. c.pc \in Steps
    BY DEF WaitSteps
  <1>1. /\ c.history \in Seq(Steps \cup {0}) /\ Append(c.history, c.pc) \in Seq(Steps \cup {0})
        /\ c.consumed \cup {m} \in SUBSET Messages
    BY <1>0, DocumentTyped
  <1>2. /\ n \in Document /\ n.status = "running" /\ n.version = c.version /\ n.pc = p
        /\ n.history = Append(c.history, c.pc) /\ n.consumed = c.consumed \cup {m}
    BY <1>1 DEF Proceed, Document, Live
  <1> HIDE DEF n
  <1>3. Past(c) /\ Counted(c)
    BY DEF DocOK
  <1>4. Past(n)
    BY <1>0, <1>2, <1>3, PastGrows
  <1>5. Counted(n)
    <2>1. IsFiniteSet(c.consumed) /\ Cardinality(c.consumed) = Cardinality(WaitsIn(c.history))
      BY <1>3 DEF Counted, WaitsIn
    <2>2. /\ IsFiniteSet(n.consumed)
          /\ Cardinality(n.consumed) = Cardinality(c.consumed) + 1
      BY <1>2, <2>1, FS_AddElement
    <2>3. Cardinality(WaitsIn(n.history)) = Cardinality(WaitsIn(c.history)) + 1
      BY <1>0, <1>1, <1>2, WaitsGrow
    <2> QED
      BY <2>1, <2>2, <2>3 DEF Counted, WaitsIn
  <1>6. DocOK(n) /\ Moves(c, n)
    BY <1>0, <1>2, <1>4, <1>5 DEF DocOK, Moves
  <1> QED
    BY <1>2, <1>6 DEF n

(* A step that is entered: only the status changes.                        *)
LEMMA EnterOK ==
  ASSUME NEW c \in Document, DocOK(c), c.status = "running", c.pc \in Steps,
         NEW status \in {"waiting", "sleeping"},
         Program[c.pc].kind = IF status = "waiting" THEN "wait" ELSE "sleep"
  PROVE  LET n == [c EXCEPT !.status = status]
         IN  /\ n \in Document /\ n.status = status /\ n.version = c.version /\ n.pc = c.pc
             /\ DocOK(n) /\ Moves(c, n)
  <1> DEFINE n == [c EXCEPT !.status = status]
  <1>1. /\ n \in Document /\ n.status = status /\ n.version = c.version /\ n.pc = c.pc
        /\ n.history = c.history /\ n.consumed = c.consumed
    BY DEF Document, Live
  <1> HIDE DEF n
  <1>2. Past(c) /\ Counted(c)
    BY DEF DocOK, Live
  <1>3. Past(n) /\ Counted(n)
    BY <1>1, <1>2 DEF Past, Counted
  <1>4. DocOK(n) /\ Moves(c, n)
    BY <1>1, <1>3 DEF DocOK, Moves, WaitSteps
  <1> QED
    BY <1>1, <1>4 DEF n

(* The version alone changes nothing that matters.                         *)
LEMMA BumpOK ==
  ASSUME NEW c \in Document
  PROVE  LET n == [c EXCEPT !.version = @ + 1]
         IN  /\ n \in Document /\ n.version = c.version + 1 /\ Agree(n, c)
             /\ DocOK(c) => DocOK(n)
  <1> DEFINE n == [c EXCEPT !.version = @ + 1]
  <1>1. /\ n \in Document /\ n.version = c.version + 1 /\ n.status = c.status /\ n.pc = c.pc
        /\ n.history = c.history /\ n.consumed = c.consumed
    BY DocumentTyped DEF Document
  <1> HIDE DEF n
  <1>2. Agree(n, c) /\ (DocOK(c) => DocOK(n))
    BY <1>1 DEF Agree, DocOK, Past, Counted
  <1> QED
    BY <1>1, <1>2 DEF n

-----------------------------------------------------------------------------
(* What the transitions are to an instance's callers.                      *)

LEMMA Viewed ==
  ASSUME NEW c \in Document
  PROVE  /\ View(c) \in State /\ View(c) # None
         /\ View(c).status = c.status /\ View(c).pc = c.pc
         /\ View(c).consumed = c.consumed /\ View(c).history = c.history
  <1> DEFINE v == [status |-> c.status, pc |-> c.pc, consumed |-> c.consumed,
                   history |-> c.history]
  <1>1. v \in State
    BY DocumentTyped DEF State
  <1>2. v # None /\ c # None
    BY <1>1, WorkflowsAssumption
  <1>3. View(c) = v
    BY <1>2 DEF View
  <1> QED
    BY <1>1, <1>2, <1>3

LEMMA StateIs ==
  ASSUME NEW a \in State, NEW b \in State, a.status = b.status, a.pc = b.pc,
         a.consumed = b.consumed, a.history = b.history
  PROVE  a = b
  BY DEF State

LEMMA ViewOfAgreeing ==
  ASSUME NEW a \in Document, NEW c \in Document, Agree(a, c)
  PROVE  View(a) = View(c)
  BY Viewed, StateIs DEF Agree

LEMMA ViewOfFinish ==
  ASSUME NEW c \in Document, NEW status \in Over, NEW k \in Steps \cup {0}
  PROVE  View(Finish(c, status, k)) = Process!Ended(View(c), status, k)
  <1> DEFINE n == Finish(c, status, k)
             v == View(c)
             e == Process!Ended(v, status, k)
  <1>1. n \in Document
    BY FinishOK
  <1>2. /\ n.status = status /\ n.pc = c.pc /\ n.consumed = c.consumed
        /\ n.history = Append(c.history, k)
    BY DEF Finish, Document
  <1>3. v \in State /\ v.pc = c.pc /\ v.consumed = c.consumed /\ v.history = c.history
    BY Viewed
  <1>4. Append(c.history, k) \in Seq(Steps \cup {0})
    BY DocumentTyped
  <1> HIDE DEF n, v
  <1>5. /\ e \in State /\ e.status = status /\ e.pc = c.pc /\ e.consumed = c.consumed
        /\ e.history = Append(c.history, k)
    BY <1>3, <1>4 DEF Process!Ended, State
  <1> HIDE DEF e
  <1>6. View(n) = e
    BY <1>1, <1>2, <1>5, Viewed, StateIs
  <1> QED
    BY <1>6 DEF n, v, e

LEMMA ViewOfProceed ==
  ASSUME NEW c \in Document, NEW p, Proceed(c, c.pc, p) \in Document
  PROVE  View(Proceed(c, c.pc, p)) = Process!Gone(View(c), p)
  <1> DEFINE n == Proceed(c, c.pc, p)
             v == View(c)
             e == Process!Gone(v, p)
  <1>1. /\ n.status = "running" /\ n.pc = p /\ n.consumed = c.consumed
        /\ n.history = Append(c.history, c.pc)
    BY DEF Proceed, Document
  <1>2. v \in State /\ v.pc = c.pc /\ v.consumed = c.consumed /\ v.history = c.history
    BY Viewed
  <1> HIDE DEF v
  <1>3. n \in Document
    OBVIOUS
  <1> HIDE DEF n
  <1>4. p \in Nat /\ Append(c.history, c.pc) \in Seq(Steps \cup {0})
    BY <1>1, <1>3, DocumentTyped
  <1>5. /\ e \in State /\ e.status = "running" /\ e.pc = p /\ e.consumed = c.consumed
        /\ e.history = Append(c.history, c.pc)
    BY <1>2, <1>4 DEF Process!Gone, State, Live
  <1> HIDE DEF e
  <1>6. View(n) = e
    BY <1>1, <1>3, <1>5, Viewed, StateIs
  <1> QED
    BY <1>6 DEF n, v, e

LEMMA ViewOfConsume ==
  ASSUME NEW c \in Document, NEW p, NEW m,
         [Proceed(c, c.pc, p) EXCEPT !.consumed = @ \cup {m}] \in Document
  PROVE  View([Proceed(c, c.pc, p) EXCEPT !.consumed = @ \cup {m}])
           = [Process!Gone(View(c), p) EXCEPT !.consumed = @ \cup {m}]
  <1> DEFINE n == [Proceed(c, c.pc, p) EXCEPT !.consumed = @ \cup {m}]
             v == View(c)
             e == [Process!Gone(v, p) EXCEPT !.consumed = @ \cup {m}]
  <1>1. /\ n.status = "running" /\ n.pc = p /\ n.consumed = c.consumed \cup {m}
        /\ n.history = Append(c.history, c.pc)
    BY DEF Proceed, Document
  <1>2. v \in State /\ v.pc = c.pc /\ v.consumed = c.consumed /\ v.history = c.history
    BY Viewed
  <1> HIDE DEF v
  <1>3. n \in Document
    OBVIOUS
  <1> HIDE DEF n
  <1>4. /\ p \in Nat /\ Append(c.history, c.pc) \in Seq(Steps \cup {0})
        /\ c.consumed \cup {m} \in SUBSET Messages
    BY <1>1, <1>3, DocumentTyped
  <1>5. /\ e \in State /\ e.status = "running" /\ e.pc = p /\ e.consumed = c.consumed \cup {m}
        /\ e.history = Append(c.history, c.pc)
    BY <1>2, <1>4 DEF Process!Gone, State, Live
  <1> HIDE DEF e
  <1>6. /\ View(n) \in State /\ View(n).status = "running" /\ View(n).pc = p
        /\ View(n).consumed = c.consumed \cup {m} /\ View(n).history = Append(c.history, c.pc)
    BY <1>1, <1>3, Viewed
  <1>7. View(n) = e
    BY <1>5, <1>6, StateIs
  <1> QED
    BY <1>7 DEF n, v, e

LEMMA ViewOfEntry ==
  ASSUME NEW c \in Document, NEW status, [c EXCEPT !.status = status] \in Document
  PROVE  View([c EXCEPT !.status = status]) = [View(c) EXCEPT !.status = status]
  <1> DEFINE n == [c EXCEPT !.status = status]
             v == View(c)
             e == [v EXCEPT !.status = status]
  <1>1. /\ n.status = status /\ n.pc = c.pc /\ n.consumed = c.consumed
        /\ n.history = c.history
    BY DEF Document
  <1>2. /\ v \in State /\ v.pc = c.pc /\ v.consumed = c.consumed /\ v.history = c.history
    BY Viewed
  <1> HIDE DEF v
  <1>3. n \in Document
    OBVIOUS
  <1> HIDE DEF n
  <1>4. status \in Live \cup Over
    BY <1>1, <1>3, DocumentTyped
  <1>5. /\ e \in State /\ e.status = status /\ e.pc = c.pc /\ e.consumed = c.consumed
        /\ e.history = c.history
    BY <1>2, <1>4 DEF State
  <1> HIDE DEF e
  <1>6. View(n) = e
    BY <1>1, <1>3, <1>5, Viewed, StateIs
  <1> QED
    BY <1>6 DEF n, v, e

(* The outcomes at the node that c is at.                                  *)
LEMMA AfterNode ==
  ASSUME NEW c \in Document, NEW i
  PROVE  LET k == c.pc
             v == View(c)
             Kind(kind) == k \in Steps /\ Program[k].kind = kind
             S == Process!After(i, v)
         IN  /\ v.pc = k /\ v.status = c.status /\ v.consumed = c.consumed
             /\ k \notin Steps => S = {Process!Ended(v, "completed", 0)}
             /\ Kind("call") => S = Process!AfterCall(i, v)
             /\ Kind("sleep") => S = Process!AfterSleep(i, v)
             /\ Kind("wait") => S = Process!AfterWait(i, v)
             /\ Kind("choice") => S = Process!AfterChoice(v)
             /\ Kind("return") => S = {Process!Ended(v, "completed", k)}
             /\ Kind("fail") => S = {Process!Ended(v, "failed", k)}
  <1>1. View(c).pc = c.pc /\ View(c).status = c.status /\ View(c).consumed = c.consumed
    BY Viewed
  <1>2. Process!Steps = Steps
    BY DEF Process!Steps, Steps
  <1> QED
    BY <1>1, <1>2 DEF Process!After

-----------------------------------------------------------------------------
(* What a step may do to the instances.                                    *)

(* The document is written: it says the same, or it has gone on.           *)
Advanced(a, b) ==
  /\ b \in Document /\ b.version = a.version + 1 /\ DocOK(b)
  /\ Agree(b, a) \/ (a.status \in Live /\ Moves(a, b))

InstStep ==
  \A i \in Instances :
    IF inst[i] = None THEN inst'[i] = None \/ (inst'[i] = FreshInstance /\ starting[i] = "create")
    ELSE inst'[i] = inst[i] \/ Advanced(inst[i], inst'[i])

LEMMA AheadOfAgreeing ==
  ASSUME NEW a, NEW b, NEW c, Agree(b, a), Ahead(a, c)
  PROVE  Ahead(b, c)
  BY DEF Agree, Ahead

LEMMA AheadMoves ==
  ASSUME NEW a \in Document, NEW b \in Document, NEW c \in Document,
         a.status \in Live, Moves(a, b), Ahead(a, c)
  PROVE  Ahead(b, c) /\ c.status \in Live /\ ~Agree(b, c)
  <1>1. a.status \notin Over /\ (b.status \in Over => b.status \notin Live)
    BY LiveNotOver
  <1>2. c.status \in Live
    BY <1>1 DEF Ahead, Agree, Live
  <1>3. CASE b.status \in Over
    BY <1>1, <1>2, <1>3 DEF Ahead, Agree
  <1>4. CASE b.status = "running" /\ a.pc \in Steps /\ Later(b.pc, a.pc)
    <2>1. CASE Agree(a, c)
      BY <1>2, <1>4, <2>1, NotLater DEF Ahead, Agree
    <2>2. CASE c.pc \in Steps /\ Later(a.pc, c.pc)
      <3>1. Later(b.pc, c.pc)
        BY <1>4, <2>2, LaterTrans
      <3> QED
        BY <1>2, <2>2, <3>1, NotLater DEF Ahead, Agree
    <2>3. CASE c.status = "running" /\ a.status \in {"waiting", "sleeping"} /\ a.pc = c.pc
      BY <1>2, <1>4, <2>3, NotLater DEF Ahead, Agree
    <2> QED
      BY <1>1, <2>1, <2>2, <2>3 DEF Ahead
  <1>5. CASE a.status = "running" /\ b.status \in {"waiting", "sleeping"} /\ b.pc = a.pc
    <2>1. CASE Agree(a, c)
      BY <1>2, <1>5, <2>1 DEF Ahead, Agree
    <2>2. CASE c.pc \in Steps /\ Later(a.pc, c.pc)
      BY <1>2, <1>5, <2>2, NotLater DEF Ahead, Agree
    <2> QED
      BY <1>1, <1>5, <2>1, <2>2 DEF Ahead
  <1> QED
    BY <1>3, <1>4, <1>5 DEF Moves

DrvRec ==
  [i : Instances \cup {None}, copy : Document \cup {None}, next : Document \cup {None},
   due : BOOLEAN]

DriverLabels ==
  {"idle", "loop", "call", "perform", "register", "inbox", "unregister", "save", "reload",
   "leave"}

(* A driver that does nothing stays sound while its instance moves on.     *)
LEMMA DriverKept ==
  ASSUME NEW label, NEW r, r.copy \in Document,
         NEW a \in Document, NEW b, b = a \/ Advanced(a, b), DriverAt(label, r, a)
  PROVE  DriverAt(label, r, b)
  <1>1. CASE b = a
    BY <1>1
  <1>2. CASE Advanced(a, b) /\ label # "idle"
    <2>1. b \in Document /\ b # None
      BY <1>2, NoneApart DEF Advanced
    <2>2. r.copy.version < b.version
      BY <1>2, DocumentTyped DEF DriverAt, Advanced
    <2>3. Ahead(b, r.copy)
      BY <1>2, <2>1, AheadMoves, AheadOfAgreeing DEF DriverAt, Advanced
    <2>4. a.status \in Over => b.status \in Over
      BY <1>2, LiveNotOver DEF Advanced, Agree
    <2> QED
      BY <1>2, <2>1, <2>2, <2>3, <2>4, DocumentTyped DEF DriverAt
  <1> QED
    BY <1>1, <1>2 DEF DriverAt

LEMMA FreshOK ==
  FreshInstance \in Document /\ FreshInstance # None /\ DocOK(FreshInstance)
  /\ FreshInstance.status = "running"
  <1>1. <<>> \in Seq(Steps \cup {0}) /\ {} \in SUBSET Messages
    OBVIOUS
  <1>2. FreshInstance \in Document
    BY <1>1 DEF FreshInstance, Document, Live
  <1>3. {x \in 1 .. Len(<<>>) : <<>>[x] \in WaitSteps} = {}
    OBVIOUS
  <1>4. Past(FreshInstance) /\ Counted(FreshInstance)
    BY <1>3, FS_EmptySet DEF Past, Counted, FreshInstance
  <1>5. DocOK(FreshInstance)
    BY <1>4 DEF DocOK, FreshInstance
  <1> QED
    BY <1>2, <1>5, NoneApart DEF FreshInstance

-----------------------------------------------------------------------------
(* The types, split: what is stored and what the drivers hold.             *)

StoredTyped ==
  /\ inst \in [Instances -> Document \cup {None}]
  /\ keyDoc \in [Keys -> Instances \cup {None}]
  /\ active \subseteq Instances /\ enrolled \in BOOLEAN /\ wanted \subseteq Instances
  /\ waiters \in [WaitSteps -> SUBSET Instances]
  /\ inbox \in [WaitSteps -> SUBSET Messages]
  /\ receipts \subseteq Instances \X Steps \X Nat
  /\ starting \in [Instances -> StartPhases]
  /\ sig \in [Messages -> [stage : {"unsent", "put", "look", "wake", "acked"},
                           step : WaitSteps \cup {0}, todo : SUBSET Instances]]
  /\ elapsed \in [Instances -> SUBSET Steps]
  /\ parks \in 0 .. MaxFaults /\ crashes \in 0 .. MaxFaults
  /\ effects \in [Instances -> [Steps -> Nat]]
  /\ raced \subseteq Keys /\ late \subseteq Instances

DriversTyped ==
  /\ dpc \in [Drivers -> DriverLabels]
  /\ drv \in [Drivers -> DrvRec]
  /\ \A d \in Drivers :
       /\ dpc[d] # "idle" => drv[d].i # None /\ drv[d].copy # None
       /\ dpc[d] \in {"save", "unregister"} => drv[d].next # None

LEMMA TypesSplit == TypeOK <=> StoredTyped /\ DriversTyped
  BY DEF TypeOK, StoredTyped, DriversTyped, DrvRec, DriverLabels

LEMMA TypesSplitNext == TypeOK' <=> StoredTyped' /\ DriversTyped'
  BY TypesSplit, PTL

(* A driver at work has an instance and a copy.                            *)
LEMMA AtWork ==
  ASSUME Base, NEW d \in Drivers, dpc[d] # "idle"
  PROVE  /\ drv[d] \in DrvRec /\ drv[d].i \in Instances /\ drv[d].copy \in Document
         /\ inst[drv[d].i] \in Document /\ inst[drv[d].i] # None
         /\ drv[d].copy # None /\ drv[d].i # None
         /\ drv[d].i \in Met
         /\ DriverAt(dpc[d], drv[d], inst[drv[d].i])
         /\ dpc[d] \in {"save", "unregister"} => drv[d].next \in Document
  <1>1. StoredTyped /\ DriversTyped
    BY TypesSplit DEF Base
  <1>2. drv[d] \in DrvRec /\ drv[d].i \in Instances /\ drv[d].copy \in Document
    BY <1>1 DEF DriversTyped, DrvRec
  <1>3. DriverAt(dpc[d], drv[d], inst[drv[d].i]) /\ drv[d].i \in Met
    BY DEF Base, DriversOK, StartOK
  <1>4. inst[drv[d].i] # None
    BY <1>3 DEF DriverAt
  <1>5. inst[drv[d].i] \in Document
    BY <1>1, <1>2, <1>4 DEF StoredTyped
  <1>6. dpc[d] \in {"save", "unregister"} => drv[d].next \in Document
    BY <1>1 DEF DriversTyped, DrvRec
  <1> QED
    BY <1>1, <1>2, <1>3, <1>4, <1>5, <1>6 DEF DriversTyped

-----------------------------------------------------------------------------
(* What every step has to show.                                            *)

LEMMA InstKept ==
  ASSUME Base, StoredTyped', InstStep
  PROVE  InstOK' /\ \A i \in Instances : inst[i] # None => inst'[i] # None
  <1>1. ASSUME NEW i \in Instances
        PROVE  /\ inst'[i] # None => DocOK(inst'[i])
               /\ inst[i] # None => inst'[i] # None
    <2>1. CASE inst[i] = None
      BY <2>1, FreshOK DEF InstStep
    <2>2. CASE inst[i] # None /\ inst'[i] = inst[i]
      BY <2>2 DEF Base, InstOK
    <2>3. CASE inst[i] # None /\ Advanced(inst[i], inst'[i])
      BY <2>3, NoneApart DEF Advanced
    <2> QED
      BY <2>1, <2>2, <2>3 DEF InstStep
  <1> QED
    BY <1>1 DEF InstOK

LEMMA OtherDriver ==
  ASSUME Base, InstStep, NEW e \in Drivers, dpc'[e] = dpc[e], drv'[e] = drv[e]
  PROVE  DriverAt(dpc'[e], drv'[e], inst'[drv'[e].i])
  <1>1. CASE dpc[e] = "idle"
    BY <1>1 DEF DriverAt
  <1>2. CASE dpc[e] # "idle"
    <2> DEFINE a == inst[drv[e].i]
               b == inst'[drv[e].i]
    <2>1. /\ drv[e].i \in Instances /\ drv[e].copy \in Document
          /\ a \in Document /\ a # None /\ DriverAt(dpc[e], drv[e], a)
      BY <1>2, AtWork
    <2>2. b = a \/ Advanced(a, b)
      BY <2>1 DEF InstStep
    <2> HIDE DEF a, b
    <2>3. DriverAt(dpc[e], drv[e], b)
      BY <2>1, <2>2, DriverKept
    <2> QED
      BY <2>3 DEF b
  <1> QED
    BY <1>1, <1>2

(* Who has met an instance goes on knowing it.                             *)
LEMMA MetGrows ==
  ASSUME Base, StoredTyped', InstStep, UNCHANGED <<starting, keyDoc>>
  PROVE  Met \subseteq Met'
  <1>1. \A i \in Instances : inst[i] # None => inst'[i] # None
    BY InstKept
  <1> QED
    BY <1>1 DEF Met

(* A step of one driver.                                                   *)
LEMMA DriverGoes ==
  ASSUME Base, StoredTyped', InstStep,
         NEW d \in Drivers, NEW label \in DriverLabels, NEW r \in DrvRec,
         drv' = [drv EXCEPT ![d] = r], dpc' = [dpc EXCEPT ![d] = label],
         label # "idle" => r.i \in Met /\ r.copy \in Document,
         label \in {"save", "unregister"} => r.next \in Document,
         DriverAt(label, r, inst'[r.i]),
         \A i \in Instances : inst'[i] # inst[i] => inst[i] # None,
         UNCHANGED <<keyDoc, starting, sig>>, active' \subseteq active, wanted' \subseteq wanted,
         \A k \in WaitSteps : \A i \in waiters'[k] :
           i \in waiters[k] \/ (dpc[d] # "idle" /\ i = drv[d].i)
  PROVE  Base'
  <1>1. StoredTyped /\ DriversTyped
    BY TypesSplit DEF Base
  <1>2. /\ drv'[d] = r /\ dpc'[d] = label
        /\ \A e \in Drivers \ {d} : drv'[e] = drv[e] /\ dpc'[e] = dpc[e]
    BY <1>1 DEF DriversTyped
  <1>3. DriversTyped'
    <2>1. dpc' \in [Drivers -> DriverLabels] /\ drv' \in [Drivers -> DrvRec]
      BY <1>1 DEF DriversTyped
    <2>2. /\ label # "idle" => r.i # None /\ r.copy # None
          /\ label \in {"save", "unregister"} => r.next # None
      BY NoneApart DEF Met
    <2> QED
      BY <1>1, <1>2, <2>1, <2>2 DEF DriversTyped
  <1>4. TypeOK'
    BY <1>3, TypesSplitNext
  <1>5. InstOK' /\ \A i \in Instances : inst[i] # None => inst'[i] # None
    BY InstKept
  <1>6. DriversOK'
    <2>1. ASSUME NEW e \in Drivers
          PROVE  DriverAt(dpc'[e], drv'[e], inst'[drv'[e].i])
      <3>1. CASE e = d
        BY <1>2, <3>1
      <3>2. CASE e # d
        BY <1>2, <3>2, OtherDriver
      <3> QED
        BY <3>1, <3>2
    <2> QED
      BY <2>1 DEF DriversOK
  <1>7. StartOK'
    <2>1. \A i \in Instances :
            /\ starting[i] \in {"new", "create"} => inst'[i] = None
            /\ starting[i] \in {"key", "register", "enroll", "listed"} => inst'[i] # None
      BY <1>5 DEF Base, StartOK
    <2>2. Met \subseteq Met'
      BY MetGrows
    <2>3. \A k \in WaitSteps : waiters'[k] \subseteq Met
      BY AtWork DEF Base, StartOK
    <2>4. \A e \in Drivers : dpc'[e] # "idle" => drv'[e].i \in Met
      BY <1>2 DEF Base, StartOK
    <2> QED
      BY <2>1, <2>2, <2>3, <2>4 DEF Base, StartOK
  <1> QED
    BY <1>4, <1>5, <1>6, <1>7 DEF Base

(* A step of no driver.                                                    *)
LEMMA DriversStay ==
  ASSUME Base, StoredTyped', InstStep, UNCHANGED <<dpc, drv>>
  PROVE  TypeOK' /\ InstOK' /\ DriversOK'
         /\ \A i \in Instances : inst[i] # None => inst'[i] # None
  <1>1. TypeOK'
    <2>1. DriversTyped
      BY TypesSplit DEF Base
    <2>2. DriversTyped'
      BY <2>1 DEF DriversTyped
    <2> QED
      BY <2>2, TypesSplitNext
  <1>2. DriversOK'
    BY OtherDriver DEF DriversOK
  <1> QED
    BY <1>1, <1>2, InstKept

(* No instance is written.                                                 *)
LEMMA NoWrite ==
  ASSUME inst' = inst
  PROVE  InstStep
  BY DEF InstStep

-----------------------------------------------------------------------------
(* The steps of a driver that write no instance.                           *)

(* The driver goes on with the copy it has.                                *)
LEMMA GoesOn ==
  ASSUME Base, NEW d \in Drivers, dpc[d] # "idle",
         NEW label \in DriverLabels \ {"idle", "leave"}, NEW r \in DrvRec,
         r.i = drv[d].i, r.copy = drv[d].copy,
         drv' = [drv EXCEPT ![d] = r], dpc' = [dpc EXCEPT ![d] = label],
         label \in {"save", "unregister"} => r.next \in Document,
         LabelOK(label, r.copy, r.next),
         StoredTyped', UNCHANGED <<inst, keyDoc, starting, active, wanted, sig>>,
         \A k \in WaitSteps : \A i \in waiters'[k] : i \in waiters[k] \/ i = drv[d].i
  PROVE  Base'
  <1>1. /\ r.i \in Met /\ r.copy \in Document
        /\ DriverAt(dpc[d], drv[d], inst[r.i])
    BY AtWork
  <1>2. DriverAt(label, r, inst'[r.i])
    BY <1>1 DEF DriverAt
  <1>3. InstStep
    BY NoWrite
  <1> QED
    BY <1>1, <1>2, <1>3, DriverGoes

(* The driver's work ends.                                                 *)
LEMMA Rests ==
  ASSUME Base, NEW d \in Drivers,
         drv' = [drv EXCEPT ![d] = NoDriver], dpc' = [dpc EXCEPT ![d] = "idle"],
         StoredTyped', UNCHANGED <<inst, keyDoc, starting, active, wanted, sig, waiters>>
  PROVE  Base'
  <1>1. NoDriver \in DrvRec /\ "idle" \in DriverLabels
    BY DEF NoDriver, DrvRec, DriverLabels
  <1>2. DriverAt("idle", NoDriver, inst'[NoDriver.i])
    BY DEF DriverAt
  <1>3. InstStep
    BY NoWrite
  <1> QED
    BY <1>1, <1>2, <1>3, DriverGoes

(* Nothing stored has changed.                                             *)
LEMMA SameStored ==
  ASSUME Base, UNCHANGED <<stored, starting, sig, wanted, elapsed, history>>
  PROVE  StoredTyped' /\ UNCHANGED <<inst, keyDoc, starting, active, wanted, sig, waiters>>
  BY TypesSplit DEF Base, StoredTyped, stored, history

LEMMA LoadBase ==
  ASSUME Base, NEW d \in Drivers, NEW i \in Instances, Load(d, i)
  PROVE  InstStep /\ Base'
  <1> DEFINE r == [NoDriver EXCEPT !.i = i, !.copy = inst[i]]
  <1>1. inst[i] # None /\ inst[i] \in Document /\ i \in Met
    BY TypesSplit DEF Base, StartOK, StoredTyped, Load, Met
  <1>2. r \in DrvRec /\ r.i = i /\ r.copy = inst[i]
    BY <1>1 DEF NoDriver, DrvRec
  <1>3. drv' = [drv EXCEPT ![d] = r] /\ dpc' = [dpc EXCEPT ![d] = "loop"]
    BY DEF Load
  <1>4. StoredTyped'
    BY TypesSplit DEF Base, StoredTyped, Load, stored, history
  <1>5. UNCHANGED <<inst, keyDoc, starting, active, sig, waiters>> /\ wanted' \subseteq wanted
    BY DEF Load, stored
  <1> HIDE DEF r
  <1>6. DriverAt("loop", r, inst'[r.i])
    BY <1>1, <1>2, <1>5, DocumentTyped DEF DriverAt, LabelOK, Ahead, Agree, Base, InstOK
  <1>7. InstStep
    BY <1>5, NoWrite
  <1> QED
    BY <1>1, <1>2, <1>3, <1>4, <1>5, <1>6, <1>7, DriverGoes DEF DriverLabels

LEMMA RoundTo ==
  ASSUME Base, NEW d \in Drivers, dpc[d] = "loop",
         NEW label \in {"call", "register", "inbox", "save"},
         NEW n \in Document \cup {None}, NEW due \in BOOLEAN,
         drv' = [drv EXCEPT ![d].next = n, ![d].due = due], dpc' = [dpc EXCEPT ![d] = label],
         UNCHANGED <<stored, starting, sig, wanted, elapsed, history>>,
         label = "save" => n \in Document,
         LabelOK(label, drv[d].copy, n)
  PROVE  Base'
  <1> DEFINE r == [drv[d] EXCEPT !.next = n, !.due = due]
  <1>1. drv[d] \in DrvRec
    BY AtWork
  <1>2. /\ r \in DrvRec /\ r.i = drv[d].i /\ r.copy = drv[d].copy /\ r.next = n
    BY <1>1 DEF DrvRec
  <1>3. drv' = [drv EXCEPT ![d] = r]
    OBVIOUS
  <1>4. StoredTyped' /\ UNCHANGED <<inst, keyDoc, starting, active, wanted, sig, waiters>>
    BY SameStored
  <1> HIDE DEF r
  <1> QED
    BY <1>2, <1>3, <1>4, GoesOn DEF DriverLabels

(* Where a round leads.                                                    *)
Ends(d) == dpc' = [dpc EXCEPT ![d] = "idle"] /\ drv' = [drv EXCEPT ![d] = NoDriver]

Goes(d, label, n) ==
  /\ dpc' = [dpc EXCEPT ![d] = label]
  /\ drv' = [drv EXCEPT ![d].next = n, ![d].due = drv[d].copy.pc \in elapsed[drv[d].i]]

LEMMA RoundGoes ==
  ASSUME Base, NEW d \in Drivers, Round(d)
  PROVE  \/ Ends(d) /\ drv[d].copy.status # "waiting"
         \/ \E label \in {"call", "register", "inbox", "save"}, n \in Document \cup {None} :
              /\ Goes(d, label, n) /\ LabelOK(label, drv[d].copy, n)
              /\ label = "save" =>
                   n \in Document /\ n.status # "waiting" /\ Leads(drv[d].i, drv[d].copy, n)
  <1> DEFINE i == drv[d].i
             c == drv[d].copy
             k == c.pc
             Outcome ==
               \/ Ends(d) /\ c.status # "waiting"
               \/ \E label \in {"call", "register", "inbox", "save"}, n \in Document \cup {None} :
                    /\ Goes(d, label, n) /\ LabelOK(label, c, n)
                    /\ label = "save" => n \in Document /\ n.status # "waiting" /\ Leads(i, c, n)
  <1>1. c \in Document /\ DocOK(c) /\ c.status \in Live \cup Over /\ k \in Nat
    BY AtWork, DocumentTyped DEF Round, DriverAt
  <1>2. ASSUME NEW n \in Document, Goes(d, "save", n), n.status # "waiting",
               c.status \in Live, n.version = c.version, DocOK(n), Moves(c, n), Leads(i, c, n)
        PROVE  Outcome
    <2>1. LabelOK("save", c, n)
      BY <1>2 DEF LabelOK
    <2> QED
      BY <1>2, <2>1
  <1>3. ASSUME NEW label \in {"call", "register", "inbox"}, Goes(d, label, None),
               LabelOK(label, c, None)
        PROVE  Outcome
    BY <1>3
  <1>4. CASE c.status \in Over
    <2>1. Ends(d) /\ c.status # "waiting"
      BY <1>4 DEF Round, Ends, Over
    <2> QED
      BY <2>1
  <1>5. CASE c.status \in Live /\ k \notin Steps
    <2> DEFINE n == Finish(c, "completed", 0)
    <2>1. Goes(d, "save", n)
      BY <1>5, LiveNotOver DEF Round, Goes
    <2>2. n \in Document /\ n.status # "waiting" /\ n.version = c.version /\ DocOK(n) /\ Moves(c, n)
      BY <1>1, FinishOK DEF Over
    <2>3. Leads(i, c, n)
      BY <1>1, <1>5, AfterNode, ViewOfFinish DEF Leads, Over
    <2> HIDE DEF n, Outcome
    <2>4. Outcome
      BY <1>2, <1>5, <2>1, <2>2, <2>3
    <2> QED
      BY <2>4 DEF Outcome
  <1>6. CASE c.status \in Live /\ k \in Steps
    <2> DEFINE node == Program[k]
    <2>1. /\ node.next \in Nat /\ node.otherwise \in Nat
          /\ node.kind \in {"call", "sleep", "wait", "choice", "return", "fail"}
          /\ Later(node.next, k) /\ (node.kind = "choice" => Later(node.otherwise, k))
      BY <1>6, NodeTyped, SuccessorLater
    <2>2. c.status \notin Over
      BY <1>6, LiveNotOver
    <2>3. CASE node.kind = "call"
      <3>1. Goes(d, "call", None)
        BY <1>6, <2>2, <2>3 DEF Round, Goes
      <3>2. LabelOK("call", c, None)
        BY <1>6, <2>3 DEF LabelOK
      <3> QED
        BY <1>3, <3>1, <3>2
    <2>4. CASE node.kind = "sleep" /\ c.status # "sleeping"
      <3> DEFINE n == [c EXCEPT !.status = "sleeping"]
      <3>1. Goes(d, "save", n)
        BY <1>6, <2>2, <2>4 DEF Round, Goes
      <3>2. c.status = "running"
        BY <1>1, <1>6, <2>4 DEF DocOK, Live, WaitSteps
      <3>3. /\ n \in Document /\ n.status # "waiting" /\ n.version = c.version
            /\ DocOK(n) /\ Moves(c, n)
        BY <1>1, <1>6, <2>4, <3>2, EnterOK
      <3>4. Leads(i, c, n)
        BY <1>1, <1>6, <2>4, <3>3, AfterNode, ViewOfEntry DEF Leads, Process!AfterSleep
      <3> HIDE DEF n, Outcome
      <3>5. Outcome
        BY <1>2, <1>6, <3>1, <3>3, <3>4
      <3> QED
        BY <3>5 DEF Outcome
    <2>5. CASE node.kind = "sleep" /\ c.status = "sleeping"
      <3> DEFINE n == Proceed(c, k, node.next)
      <3>1. Ends(d) \/ (Goes(d, "save", n) /\ k \in elapsed[i])
        BY <1>6, <2>2, <2>5 DEF Round, Goes, Ends
      <3>2. k \notin WaitSteps
        BY <2>5 DEF WaitSteps
      <3>3. /\ n \in Document /\ n.status # "waiting" /\ n.version = c.version
            /\ DocOK(n) /\ Moves(c, n)
        BY <1>1, <1>6, <2>1, <3>2, ProceedOK
      <3>4. k \in elapsed[i] => Leads(i, c, n)
        BY <1>1, <1>6, <2>5, <3>3, AfterNode, ViewOfProceed DEF Leads, Process!AfterSleep
      <3> HIDE DEF n, Outcome
      <3>5. Goes(d, "save", n) /\ k \in elapsed[i] => Outcome
        BY <1>2, <1>6, <3>3, <3>4
      <3> QED
        BY <2>5, <3>1, <3>5 DEF Outcome
    <2>6. CASE node.kind = "wait" /\ c.status = "waiting"
      <3>1. Goes(d, "inbox", None)
        BY <1>6, <2>2, <2>6 DEF Round, Goes
      <3>2. LabelOK("inbox", c, None)
        BY <2>6 DEF LabelOK
      <3> QED
        BY <1>3, <3>1, <3>2
    <2>7. CASE node.kind = "wait" /\ c.status # "waiting"
      <3>1. Goes(d, "register", None)
        BY <1>6, <2>2, <2>7 DEF Round, Goes
      <3>2. c.status = "running" /\ k \in WaitSteps
        BY <1>1, <1>6, <2>7 DEF DocOK, Live, WaitSteps
      <3>3. LabelOK("register", c, None)
        BY <3>2 DEF LabelOK
      <3> QED
        BY <1>3, <3>1, <3>3
    <2>8. CASE node.kind = "choice"
      <3>1. PICK p \in {node.next, node.otherwise} : Goes(d, "save", Proceed(c, k, p))
        BY <1>6, <2>2, <2>8 DEF Round, Goes
      <3>2. k \notin WaitSteps /\ p \in Nat /\ Later(p, k)
        BY <2>1, <2>8 DEF WaitSteps
      <3> DEFINE n == Proceed(c, k, p)
      <3>3. /\ n \in Document /\ n.status # "waiting" /\ n.version = c.version
            /\ DocOK(n) /\ Moves(c, n)
        BY <1>1, <1>6, <3>2, ProceedOK
      <3>4. Leads(i, c, n)
        BY <1>1, <1>6, <2>8, <3>3, AfterNode, ViewOfProceed DEF Leads, Process!AfterChoice
      <3> HIDE DEF n, Outcome
      <3>5. Outcome
        BY <1>2, <1>6, <3>1, <3>3, <3>4 DEF n
      <3> QED
        BY <3>5 DEF Outcome
    <2>9. CASE node.kind \in {"return", "fail"}
      <3>1. PICK status \in {"completed", "failed"} :
              /\ Goes(d, "save", Finish(c, status, k))
              /\ status = IF node.kind = "return" THEN "completed" ELSE "failed"
        BY <1>6, <2>2, <2>9 DEF Round, Goes
      <3> DEFINE n == Finish(c, status, k)
      <3>2. /\ n \in Document /\ n.status # "waiting" /\ n.version = c.version
            /\ DocOK(n) /\ Moves(c, n)
        BY <1>1, <1>6, FinishOK DEF Over
      <3>3. Leads(i, c, n)
        BY <1>1, <1>6, <2>9, <3>1, AfterNode, ViewOfFinish DEF Leads, Over
      <3> HIDE DEF n, Outcome
      <3>4. Outcome
        BY <1>2, <1>6, <3>1, <3>2, <3>3 DEF n
      <3> QED
        BY <3>4 DEF Outcome
    <2> QED
      BY <2>1, <2>3, <2>4, <2>5, <2>6, <2>7, <2>8, <2>9
  <1> QED
    BY <1>1, <1>4, <1>5, <1>6

LEMMA RoundBase ==
  ASSUME Base, NEW d \in Drivers, Round(d)
  PROVE  Base'
  <1>1. dpc[d] = "loop" /\ UNCHANGED <<stored, starting, sig, wanted, elapsed, history>>
    BY DEF Round
  <1>2. CASE Ends(d)
    BY <1>1, <1>2, SameStored, Rests DEF Ends
  <1>3. ASSUME NEW label \in {"call", "register", "inbox", "save"}, NEW n \in Document \cup {None},
               Goes(d, label, n), LabelOK(label, drv[d].copy, n), label = "save" => n \in Document
        PROVE  Base'
    <2> DEFINE due == drv[d].copy.pc \in elapsed[drv[d].i]
    <2>1. due \in BOOLEAN
      OBVIOUS
    <2>2. drv' = [drv EXCEPT ![d].next = n, ![d].due = due] /\ dpc' = [dpc EXCEPT ![d] = label]
      BY <1>3 DEF Goes
    <2> HIDE DEF due
    <2> QED
      BY <1>1, <1>3, <2>1, <2>2, RoundTo
  <1> QED
    BY <1>2, <1>3, RoundGoes

LEMMA ReplayBase ==
  ASSUME Base, NEW d \in Drivers, Replay(d)
  PROVE  Base'
  <1> DEFINE c == drv[d].copy
             n == Proceed(c, c.pc, Program[c.pc].next)
  <1>1. dpc[d] = "call" /\ UNCHANGED <<stored, starting, sig, wanted, elapsed, history>>
    BY DEF Replay
  <1>2. /\ c \in Document /\ DocOK(c) /\ drv[d] \in DrvRec
        /\ c.status \in Live /\ c.pc \in Steps /\ Program[c.pc].kind = "call"
    BY <1>1, AtWork DEF DriverAt, LabelOK
  <1>3. n \in Document /\ LabelOK("save", c, n) /\ LabelOK("perform", c, drv[d].next)
    <2>1. /\ Program[c.pc].next \in Nat /\ Later(Program[c.pc].next, c.pc)
          /\ c.pc \notin WaitSteps
      BY <1>2, NodeTyped, SuccessorLater DEF WaitSteps
    <2> QED
      BY <1>2, <2>1, ProceedOK DEF LabelOK
  <1>5. StoredTyped' /\ UNCHANGED <<inst, keyDoc, starting, active, wanted, sig, waiters>>
    BY <1>1, SameStored
  <1>6. CASE /\ dpc' = [dpc EXCEPT ![d] = "save"]
             /\ drv' = [drv EXCEPT ![d].next = n]
    <2> DEFINE r == [drv[d] EXCEPT !.next = n]
    <2>1. r \in DrvRec /\ r.i = drv[d].i /\ r.copy = c /\ r.next = n
      BY <1>2, <1>3 DEF DrvRec
    <2>2. drv' = [drv EXCEPT ![d] = r]
      BY <1>6
    <2> HIDE DEF r, n
    <2> QED
      BY <1>1, <1>3, <1>5, <1>6, <2>1, <2>2, GoesOn DEF DriverLabels
  <1>7. CASE dpc' = [dpc EXCEPT ![d] = "perform"] /\ drv' = drv
    <2>1. drv' = [drv EXCEPT ![d] = drv[d]]
      BY <1>7, TypesSplit DEF Base, DriversTyped
    <2> QED
      BY <1>1, <1>2, <1>3, <1>5, <1>7, <2>1, GoesOn DEF DriverLabels
  <1> QED
    BY <1>6, <1>7 DEF Replay

(* No step is passed twice: every call of an activity has the pass 0.      *)
LEMMA FirstPass ==
  ASSUME NEW c \in Document, DocOK(c), c.status \in Live, c.pc \in Steps, NEW i
  PROVE  StepKey(i, c, c.pc) = <<i, c.pc, 0>>
  <1>1. {x \in 1 .. Len(c.history) : c.history[x] = c.pc} = {}
    BY NotLater DEF DocOK, Past
  <1> QED
    BY <1>1, FS_EmptySet DEF StepKey

(* The driver goes on to a state to save.                                  *)
LEMMA Prepares ==
  ASSUME Base, NEW d \in Drivers, dpc[d] # "idle",
         NEW label \in {"save", "unregister"}, NEW n \in Document,
         drv' = [drv EXCEPT ![d].next = n], dpc' = [dpc EXCEPT ![d] = label],
         LabelOK(label, drv[d].copy, n),
         StoredTyped', UNCHANGED <<inst, keyDoc, starting, active, wanted, sig>>,
         \A k \in WaitSteps : \A i \in waiters'[k] : i \in waiters[k] \/ i = drv[d].i
  PROVE  Base'
  <1> DEFINE r == [drv[d] EXCEPT !.next = n]
  <1>1. drv[d] \in DrvRec
    BY AtWork
  <1>2. r \in DrvRec /\ r.i = drv[d].i /\ r.copy = drv[d].copy /\ r.next = n
    BY <1>1 DEF DrvRec
  <1>3. drv' = [drv EXCEPT ![d] = r]
    OBVIOUS
  <1> HIDE DEF r
  <1> QED
    BY <1>2, <1>3, GoesOn DEF DriverLabels

LEMMA PerformBase ==
  ASSUME Base, NEW d \in Drivers, Perform(d)
  PROVE  Base'
  <1> DEFINE i == drv[d].i
             c == drv[d].copy
             k == c.pc
             key == StepKey(i, c, k)
  <1>1. /\ dpc[d] = "perform"
        /\ UNCHANGED <<inst, keyDoc, active, enrolled, waiters, inbox, starting, sig, wanted,
                       elapsed, parks, crashes, raced, late>>
    BY DEF Perform
  <1>2. /\ i \in Instances /\ c \in Document /\ DocOK(c) /\ drv[d] \in DrvRec
        /\ c.status \in Live /\ k \in Steps /\ Program[k].kind = "call"
    BY <1>1, AtWork DEF DriverAt, LabelOK
  <1>3. key \in Instances \X Steps \X Nat
    BY <1>2, FirstPass
  <1>4. StoredTyped'
    <2>1. StoredTyped
      BY TypesSplit DEF Base
    <2>2. receipts' \subseteq Instances \X Steps \X Nat
      BY <1>3, <2>1 DEF Perform, StoredTyped
    <2>3. effects' \in [Instances -> [Steps -> Nat]]
      <3>1. effects \in [Instances -> [Steps -> Nat]]
        BY <2>1 DEF StoredTyped
      <3>2. effects' = effects \/ effects' = [effects EXCEPT ![i][k] = @ + 1]
        BY DEF Perform
      <3> HIDE DEF i, k
      <3> QED
        BY <1>2, <3>1, <3>2
    <2> QED
      BY <1>1, <2>1, <2>2, <2>3 DEF StoredTyped
  <1>5. UNCHANGED <<inst, keyDoc, starting, active, wanted, sig, waiters>>
    BY <1>1
  <1>6. CASE dpc' = [dpc EXCEPT ![d] = "reload"] /\ drv' = drv
    <2>1. drv' = [drv EXCEPT ![d] = drv[d]]
      BY <1>6, TypesSplit DEF Base, DriversTyped
    <2>2. LabelOK("reload", c, drv[d].next)
      BY DEF LabelOK
    <2> QED
      BY <1>1, <1>2, <1>4, <1>5, <1>6, <2>1, <2>2, GoesOn DEF DriverLabels
  <1>7. ASSUME NEW n \in Document, LabelOK("save", c, n),
               drv' = [drv EXCEPT ![d].next = n], dpc' = [dpc EXCEPT ![d] = "save"]
        PROVE  Base'
    BY <1>1, <1>4, <1>5, <1>7, Prepares
  <1>8. CASE /\ drv' = [drv EXCEPT ![d].next = Proceed(c, k, Program[k].next)]
             /\ dpc' = [dpc EXCEPT ![d] = "save"]
    <2>1. /\ Program[k].next \in Nat /\ Later(Program[k].next, k) /\ k \notin WaitSteps
      BY <1>2, NodeTyped, SuccessorLater DEF WaitSteps
    <2>2. /\ Proceed(c, k, Program[k].next) \in Document
          /\ LabelOK("save", c, Proceed(c, k, Program[k].next))
      BY <1>2, <2>1, ProceedOK DEF LabelOK
    <2> HIDE DEF c, k
    <2> QED
      BY <1>7, <1>8, <2>2
  <1>9. CASE /\ drv' = [drv EXCEPT ![d].next = Finish(c, Program[k].exit, k)]
             /\ dpc' = [dpc EXCEPT ![d] = "save"]
    <2>1. Program[k].exit \in Over
      BY <1>2, CallExit
    <2>2. /\ Finish(c, Program[k].exit, k) \in Document
          /\ LabelOK("save", c, Finish(c, Program[k].exit, k))
      BY <1>2, <2>1, FinishOK DEF LabelOK
    <2> HIDE DEF c, k
    <2> QED
      BY <1>7, <1>9, <2>2
  <1> QED
    BY <1>6, <1>8, <1>9 DEF Perform

LEMMA RegisterWaiterBase ==
  ASSUME Base, NEW d \in Drivers, RegisterWaiter(d)
  PROVE  Base'
  <1> DEFINE i == drv[d].i
             c == drv[d].copy
             n == [c EXCEPT !.status = "waiting"]
  <1>1. /\ dpc[d] = "register"
        /\ waiters' = [waiters EXCEPT ![c.pc] = @ \cup {i}]
        /\ UNCHANGED <<inst, keyDoc, active, enrolled, inbox, receipts, starting, sig, wanted,
                       elapsed, history>>
        /\ drv' = [drv EXCEPT ![d].next = n] /\ dpc' = [dpc EXCEPT ![d] = "save"]
    BY DEF RegisterWaiter
  <1>2. /\ i \in Instances /\ c \in Document /\ DocOK(c)
        /\ c.status = "running" /\ c.pc \in WaitSteps
    BY <1>1, AtWork DEF DriverAt, LabelOK
  <1>3. n \in Document /\ LabelOK("save", c, n)
    BY <1>2, EnterOK DEF LabelOK, Live, WaitSteps
  <1>4. StoredTyped'
    <2>1. StoredTyped
      BY TypesSplit DEF Base
    <2>2. waiters' \in [WaitSteps -> SUBSET Instances]
      <3>1. waiters \in [WaitSteps -> SUBSET Instances]
        BY <2>1 DEF StoredTyped
      <3> HIDE DEF i, c
      <3> QED
        BY <1>1, <1>2, <3>1
    <2> QED
      BY <1>1, <2>1, <2>2 DEF StoredTyped, history
  <1>5. \A k \in WaitSteps : \A j \in waiters'[k] : j \in waiters[k] \/ j = drv[d].i
    <2>1. waiters \in [WaitSteps -> SUBSET Instances]
      BY TypesSplit DEF Base, StoredTyped
    <2> QED
      BY <1>1, <2>1
  <1> HIDE DEF n
  <1> QED
    BY <1>1, <1>3, <1>4, <1>5, Prepares

LEMMA ReadInboxBase ==
  ASSUME Base, NEW d \in Drivers, ReadInbox(d)
  PROVE  Base'
  <1> DEFINE c == drv[d].copy
             k == c.pc
  <1>1. dpc[d] = "inbox" /\ UNCHANGED <<stored, starting, sig, wanted, elapsed, history>>
    BY DEF ReadInbox
  <1>2. /\ c \in Document /\ DocOK(c) /\ c.status = "waiting"
        /\ c.status \in Live /\ k \in WaitSteps /\ k \in Steps
    BY <1>1, AtWork DEF DriverAt, LabelOK, DocOK, Live, WaitSteps
  <1>3. StoredTyped' /\ UNCHANGED <<inst, keyDoc, starting, active, wanted, sig, waiters>>
    BY <1>1, SameStored
  <1>4. ASSUME NEW n \in Document, LabelOK("unregister", c, n),
               drv' = [drv EXCEPT ![d].next = n], dpc' = [dpc EXCEPT ![d] = "unregister"]
        PROVE  Base'
    BY <1>1, <1>3, <1>4, Prepares
  <1>5. CASE \E m \in Unconsumed(c) :
               /\ drv' = [drv EXCEPT ![d].next =
                      [Proceed(c, k, Program[k].next) EXCEPT !.consumed = @ \cup {m}]]
               /\ dpc' = [dpc EXCEPT ![d] = "unregister"]
    <2>1. PICK m \in Unconsumed(c) :
               /\ drv' = [drv EXCEPT ![d].next =
                      [Proceed(c, k, Program[k].next) EXCEPT !.consumed = @ \cup {m}]]
               /\ dpc' = [dpc EXCEPT ![d] = "unregister"]
      BY <1>5
    <2> DEFINE n == [Proceed(c, k, Program[k].next) EXCEPT !.consumed = @ \cup {m}]
    <2>2. m \in Messages \ c.consumed
      BY <1>2, TypesSplit DEF Base, StoredTyped, Unconsumed
    <2>3. Program[k].next \in Nat /\ Later(Program[k].next, k)
      BY <1>2, NodeTyped, SuccessorLater
    <2>4. n \in Document /\ LabelOK("unregister", c, n)
      BY <1>2, <2>2, <2>3, ConsumeOK DEF LabelOK
    <2> HIDE DEF n, c
    <2> QED
      BY <1>4, <2>1, <2>4 DEF n
  <1>6. CASE /\ drv[d].due /\ Program[k].exit # None
             /\ drv' = [drv EXCEPT ![d].next = Finish(c, Program[k].exit, k)]
             /\ dpc' = [dpc EXCEPT ![d] = "unregister"]
    <2>1. Program[k].exit \in Over
      BY <1>2, <1>6, NodeTyped DEF Over
    <2>2. /\ Finish(c, Program[k].exit, k) \in Document
          /\ LabelOK("unregister", c, Finish(c, Program[k].exit, k))
      BY <1>2, <2>1, FinishOK DEF LabelOK
    <2> HIDE DEF c, k
    <2> QED
      BY <1>4, <1>6, <2>2
  <1>7. CASE drv' = [drv EXCEPT ![d] = NoDriver] /\ dpc' = [dpc EXCEPT ![d] = "idle"]
    BY <1>3, <1>7, Rests
  <1> QED
    BY <1>5, <1>6, <1>7 DEF ReadInbox

LEMMA UnregisterWaiterBase ==
  ASSUME Base, NEW d \in Drivers, UnregisterWaiter(d)
  PROVE  Base'
  <1> DEFINE c == drv[d].copy
  <1>1. /\ dpc[d] = "unregister"
        /\ waiters' = [waiters EXCEPT ![c.pc] = @ \ {drv[d].i}]
        /\ dpc' = [dpc EXCEPT ![d] = "save"]
        /\ UNCHANGED <<inst, keyDoc, active, enrolled, inbox, receipts, starting, drv, sig, wanted,
                       elapsed, history>>
    BY DEF UnregisterWaiter
  <1>2. /\ drv[d] \in DrvRec /\ drv[d].next \in Document
        /\ LabelOK("save", c, drv[d].next)
    BY <1>1, AtWork DEF DriverAt, LabelOK
  <1>3. waiters \in [WaitSteps -> SUBSET Instances]
    BY TypesSplit DEF Base, StoredTyped
  <1>4. /\ waiters' \in [WaitSteps -> SUBSET Instances]
        /\ \A k \in WaitSteps : \A j \in waiters'[k] : j \in waiters[k] \/ j = drv[d].i
    BY <1>1, <1>3
  <1>5. StoredTyped'
    BY <1>1, <1>4, TypesSplit DEF Base, StoredTyped, history
  <1>6. drv' = [drv EXCEPT ![d] = drv[d]]
    BY <1>1, TypesSplit DEF Base, DriversTyped
  <1> QED
    BY <1>1, <1>2, <1>4, <1>5, <1>6, GoesOn DEF DriverLabels

LEMMA CrashBase ==
  ASSUME Base, NEW d \in Drivers, Crash(d)
  PROVE  Base'
  <1>1. StoredTyped'
    BY TypesSplit, WorkflowsAssumption DEF Base, StoredTyped, Crash, stored
  <1> QED
    BY <1>1, Rests DEF Crash, stored

-----------------------------------------------------------------------------
(* The steps of a driver that load or write an instance.                   *)

LEMMA ReloadBase ==
  ASSUME Base, NEW d \in Drivers, Reload(d)
  PROVE  Base'
  <1> DEFINE a == inst[drv[d].i]
             r == [drv[d] EXCEPT !.copy = a]
  <1>1. /\ dpc[d] = "reload" /\ dpc' = [dpc EXCEPT ![d] = "loop"]
        /\ UNCHANGED <<stored, starting, sig, wanted, elapsed, history>>
    BY DEF Reload
  <1>2. /\ drv[d].i \in Instances /\ a \in Document /\ a # None /\ drv[d] \in DrvRec
        /\ drv[d].i \in Met
    BY <1>1, AtWork
  <1>3. r \in DrvRec /\ r.i = drv[d].i /\ r.copy = a
    BY <1>2 DEF DrvRec
  <1>4. drv' = [drv EXCEPT ![d] = r]
    BY DEF Reload
  <1>5. StoredTyped' /\ UNCHANGED <<inst, keyDoc, starting, active, wanted, sig, waiters>>
    BY <1>1, SameStored
  <1>6. DocOK(a)
    BY <1>2 DEF Base, InstOK
  <1>7. DriverAt("loop", r, a)
    <2> HIDE DEF a, r
    <2> QED
      BY <1>2, <1>3, <1>6, DocumentTyped DEF DriverAt, LabelOK, Ahead, Agree
  <1>8. InstStep
    BY <1>5, NoWrite
  <1> HIDE DEF r
  <1> QED
    BY <1>1, <1>2, <1>3, <1>4, <1>5, <1>7, <1>8, DriverGoes DEF DriverLabels

LEMMA LeaveBase ==
  ASSUME Base, NEW d \in Drivers, Leave(d)
  PROVE  Base'
  <1>1. /\ dpc[d] = "leave" /\ dpc' = [dpc EXCEPT ![d] = "loop"] /\ active' = active \ {drv[d].i}
        /\ UNCHANGED <<inst, keyDoc, enrolled, waiters, inbox, receipts, starting, drv, sig, wanted,
                       elapsed, history>>
    BY DEF Leave
  <1>2. /\ drv[d].i \in Instances /\ drv[d].copy \in Document /\ drv[d] \in DrvRec
        /\ drv[d].i \in Met /\ DriverAt("leave", drv[d], inst[drv[d].i])
    BY <1>1, AtWork
  <1>3. drv' = [drv EXCEPT ![d] = drv[d]]
    BY <1>1, TypesSplit DEF Base, DriversTyped
  <1>4. StoredTyped'
    BY <1>1, TypesSplit DEF Base, StoredTyped, history
  <1>5. DriverAt("loop", drv[d], inst'[drv[d].i])
    BY <1>1, <1>2 DEF DriverAt, LabelOK
  <1>6. InstStep
    BY <1>1, NoWrite
  <1> QED
    BY <1>1, <1>2, <1>3, <1>4, <1>5, <1>6, DriverGoes DEF DriverLabels

(* One instance is written by a driver that knows it to be current.        *)
LEMMA OneWritten ==
  ASSUME Base, NEW i \in Instances, NEW b, Advanced(inst[i], b), inst[i] # None,
         inst' = [inst EXCEPT ![i] = b]
  PROVE  /\ InstStep /\ inst' \in [Instances -> Document \cup {None}] /\ inst'[i] = b
         /\ \A j \in Instances : j # i => inst'[j] = inst[j]
  <1>1. inst \in [Instances -> Document \cup {None}] /\ b \in Document
    BY TypesSplit DEF Base, StoredTyped, Advanced
  <1>2. inst' \in [Instances -> Document \cup {None}]
    BY <1>1
  <1>3. inst'[i] = b /\ \A j \in Instances : j # i => inst'[j] = inst[j]
    BY <1>1
  <1>4. InstStep
    BY <1>3 DEF InstStep
  <1> QED
    BY <1>2, <1>3, <1>4

(* What is saved has gone on from the copy, which is what is stored.       *)
LEMMA SaveAdvances ==
  ASSUME Base, NEW d \in Drivers, Save(d), Current(d)
  PROVE  LET saved == [drv[d].next EXCEPT !.version = @ + 1]
             a == inst[drv[d].i]
         IN  /\ drv[d].copy = a /\ a.status \in Live /\ Moves(a, saved)
             /\ Advanced(a, saved) /\ Agree(saved, drv[d].next)
  <1> DEFINE n == drv[d].next
             saved == [n EXCEPT !.version = @ + 1]
             a == inst[drv[d].i]
  <1>1. /\ n \in Document /\ a \in Document /\ DriverAt("save", drv[d], a)
        /\ drv[d].copy \in Document
    BY AtWork DEF Save
  <1>2. drv[d].copy = a
    BY <1>1 DEF DriverAt, Current
  <1>3. a.status \in Live /\ n.version = a.version /\ DocOK(n) /\ Moves(a, n)
    BY <1>1, <1>2 DEF DriverAt, LabelOK
  <1>4. saved \in Document /\ saved.version = n.version + 1 /\ Agree(saved, n) /\ DocOK(saved)
    BY <1>1, <1>3, BumpOK
  <1> HIDE DEF saved, n, a
  <1>5. Moves(a, saved)
    BY <1>3, <1>4 DEF Moves, Agree
  <1>6. Advanced(a, saved)
    BY <1>3, <1>4, <1>5 DEF Advanced
  <1> QED
    BY <1>2, <1>3, <1>4, <1>5, <1>6 DEF saved, n, a

LEMMA SaveBase ==
  ASSUME Base, NEW d \in Drivers, Save(d)
  PROVE  InstStep /\ Base'
  <1> DEFINE i == drv[d].i
             saved == [drv[d].next EXCEPT !.version = @ + 1]
  <1>1. /\ dpc[d] = "save"
        /\ UNCHANGED <<keyDoc, active, enrolled, waiters, inbox, receipts, starting, sig, wanted,
                       elapsed, history>>
    BY DEF Save
  <1>2. /\ i \in Instances /\ drv[d] \in DrvRec /\ i \in Met /\ inst[i] # None
        /\ drv[d].copy \in Document /\ DriverAt("save", drv[d], inst[i])
    BY <1>1, AtWork
  <1>3. StoredTyped
    BY TypesSplit DEF Base
  <1>4. CASE Current(d)
    <2> DEFINE label == IF saved.status \in Over THEN "leave" ELSE "loop"
               r == [drv[d] EXCEPT !.copy = saved, !.next = None]
    <2>1. /\ inst' = [inst EXCEPT ![i] = saved]
          /\ drv' = [drv EXCEPT ![d].copy = saved, ![d].next = None]
          /\ dpc' = [dpc EXCEPT ![d] = label]
      BY <1>4 DEF Save
    <2>2. Advanced(inst[i], saved)
      BY <1>4, SaveAdvances
    <2>3. saved \in Document /\ DocOK(saved)
      BY <2>2 DEF Advanced
    <2>4. r \in DrvRec /\ r.i = i /\ r.copy = saved
      BY <1>2, <2>3 DEF DrvRec
    <2>5. drv' = [drv EXCEPT ![d] = r]
      BY <2>1
    <2>6. label \in DriverLabels /\ label \notin {"idle", "save", "unregister"}
      BY DEF DriverLabels
    <2> HIDE DEF saved, r
    <2>7. /\ InstStep /\ inst' \in [Instances -> Document \cup {None}] /\ inst'[i] = saved
          /\ \A j \in Instances : j # i => inst'[j] = inst[j]
      BY <1>2, <2>1, <2>2, OneWritten
    <2>8. StoredTyped'
      BY <1>1, <1>3, <2>7 DEF StoredTyped, history
    <2>9. DriverAt(label, r, inst'[r.i])
      BY <2>3, <2>4, <2>7, NoneApart, DocumentTyped DEF DriverAt, LabelOK, Ahead, Agree
    <2>10. \A j \in Instances : inst'[j] # inst[j] => inst[j] # None
      BY <1>2, <2>7
    <2> HIDE DEF label, i
    <2> QED
      BY <1>1, <1>2, <2>1, <2>3, <2>4, <2>5, <2>6, <2>7, <2>8, <2>9, <2>10, DriverGoes DEF i
  <1>5. CASE ~Current(d)
    <2> DEFINE r == [drv[d] EXCEPT !.next = None]
    <2>1. /\ inst' = inst /\ drv' = [drv EXCEPT ![d] = r] /\ dpc' = [dpc EXCEPT ![d] = "reload"]
      BY <1>5 DEF Save
    <2>2. r \in DrvRec /\ r.i = i /\ r.copy = drv[d].copy
      BY <1>2 DEF DrvRec
    <2>3. StoredTyped'
      BY <1>1, <1>3, <2>1 DEF StoredTyped, history
    <2>4. LabelOK("reload", r.copy, r.next)
      BY DEF LabelOK
    <2> HIDE DEF r
    <2>5. Base'
      BY <1>1, <2>1, <2>2, <2>3, <2>4, GoesOn DEF DriverLabels
    <2> QED
      BY <2>1, <2>5, NoWrite
  <1> QED
    BY <1>4, <1>5

LEMMA CancelBase ==
  ASSUME Base, NEW d \in Drivers, NEW i \in Instances, Cancel(d, i)
  PROVE  InstStep /\ Base'
  <1> DEFINE a == inst[i]
             at == IF a.status = "running" THEN 0 ELSE a.pc
             n == Finish(a, "cancelled", at)
             saved == [n EXCEPT !.version = @ + 1]
             r == [NoDriver EXCEPT !.i = i, !.copy = saved]
  <1>1. /\ dpc[d] = "idle" /\ i \in Met /\ a # None /\ a.status \in Live
        /\ inst' = [inst EXCEPT ![i] = saved] /\ drv' = [drv EXCEPT ![d] = r]
        /\ dpc' = [dpc EXCEPT ![d] = "leave"]
        /\ UNCHANGED <<keyDoc, active, enrolled, waiters, inbox, receipts, starting, sig, wanted,
                       elapsed, history>>
    BY DEF Cancel, Known, Met
  <1>2. StoredTyped /\ a \in Document /\ DocOK(a)
    BY <1>1, TypesSplit DEF Base, StoredTyped, InstOK
  <1>3. "cancelled" \in Over /\ at \in Steps \cup {0}
    BY <1>1, <1>2 DEF Over, Live, DocOK, WaitSteps
  <1> HIDE DEF at
  <1>4. n \in Document /\ n.status = "cancelled" /\ n.version = a.version /\ DocOK(n)
    BY <1>2, <1>3, FinishOK
  <1> HIDE DEF n
  <1>5. saved \in Document /\ saved.version = a.version + 1 /\ Agree(saved, n) /\ DocOK(saved)
    BY <1>4, BumpOK
  <1>6. r \in DrvRec /\ r.i = i /\ r.copy = saved
    BY <1>5 DEF NoDriver, DrvRec
  <1> HIDE DEF saved, r
  <1>7. saved.status \in Over /\ Advanced(a, saved)
    BY <1>1, <1>3, <1>4, <1>5 DEF Advanced, Moves, Agree
  <1>8. /\ InstStep /\ inst' \in [Instances -> Document \cup {None}] /\ inst'[i] = saved
        /\ \A j \in Instances : j # i => inst'[j] = inst[j]
    BY <1>1, <1>7, OneWritten
  <1>9. StoredTyped'
    BY <1>1, <1>2, <1>8 DEF StoredTyped, history
  <1>10. DriverAt("leave", r, inst'[r.i])
    BY <1>5, <1>6, <1>7, <1>8, NoneApart, DocumentTyped DEF DriverAt, LabelOK, Ahead, Agree
  <1>11. \A j \in Instances : inst'[j] # inst[j] => inst[j] # None
    BY <1>1, <1>8
  <1> QED
    BY <1>1, <1>5, <1>6, <1>8, <1>9, <1>10, <1>11, DriverGoes DEF DriverLabels

-----------------------------------------------------------------------------
(* The steps of no driver.                                                 *)

LEMMA ParkBase ==
  ASSUME Base, NEW i \in Instances, Park(i)
  PROVE  InstStep /\ Base'
  <1> DEFINE a == inst[i]
             b == [a EXCEPT !.version = @ + 1]
  <1>1. /\ a # None /\ inst' = [inst EXCEPT ![i] = b]
        /\ parks + crashes < MaxFaults /\ parks' = parks + 1
        /\ UNCHANGED <<keyDoc, active, enrolled, waiters, inbox, receipts, starting, dpc, drv, sig,
                       wanted, elapsed, crashes, effects, raced, late>>
    BY DEF Park
  <1>2. StoredTyped /\ a \in Document /\ DocOK(a)
    BY <1>1, TypesSplit DEF Base, StoredTyped, InstOK
  <1>3. Advanced(a, b)
    BY <1>2, BumpOK DEF Advanced
  <1>4. b.status = a.status
    BY <1>2, DocumentTyped DEF Document
  <1> HIDE DEF b
  <1>5. /\ InstStep /\ inst' \in [Instances -> Document \cup {None}] /\ inst'[i] = b
        /\ \A j \in Instances : j # i => inst'[j] = inst[j]
    BY <1>1, <1>3, OneWritten
  <1>6. StoredTyped'
    BY <1>1, <1>2, <1>5, WorkflowsAssumption DEF StoredTyped
  <1>7. TypeOK' /\ InstOK' /\ DriversOK'
        /\ \A j \in Instances : inst[j] # None => inst'[j] # None
    BY <1>1, <1>5, <1>6, DriversStay
  <1>8. StartOK'
    <2>1. \A j \in Instances :
            /\ starting[j] \in {"new", "create"} => inst'[j] = None
            /\ starting[j] \in {"key", "register", "enroll", "listed"} => inst'[j] # None
      BY <1>1, <1>5, <1>7 DEF Base, StartOK
    <2>2. Met \subseteq Met'
      BY <1>1, <1>5, <1>6, MetGrows
    <2> QED
      BY <1>1, <2>1, <2>2 DEF Base, StartOK
  <1> QED
    BY <1>5, <1>7, <1>8 DEF Base

(* A step of a call of start, which makes its instance better known.       *)
LEMMA StartGoes ==
  ASSUME Base, NEW i \in Instances, NEW st,
         starting' = [starting EXCEPT ![i] = st],
         starting[i] \in {"new", "create", "key", "register"}
           \/ (starting[i] = "enroll" /\ st \in {"done", "listed"}),
         \A q \in Keys : keyDoc[q] # None => keyDoc'[q] = keyDoc[q],
         StoredTyped', InstStep, UNCHANGED <<dpc, drv, waiters, sig>>,
         \A j \in Instances : j # i => inst'[j] = inst[j],
         active' \cup wanted' \subseteq active \cup wanted \cup {i},
         i \in (active' \cup wanted') \ (active \cup wanted) => st \in {"enroll", "done"},
         st \in {"new", "create"} => inst'[i] = None,
         st \in {"key", "register", "enroll", "listed"} \/ i \in active' \cup wanted' =>
           inst'[i] # None
  PROVE  Base'
  <1>1. StoredTyped
    BY TypesSplit DEF Base
  <1>2. TypeOK' /\ InstOK' /\ DriversOK'
        /\ \A j \in Instances : inst[j] # None => inst'[j] # None
    BY DriversStay
  <1>3. starting'[i] = st /\ \A j \in Instances : j # i => starting'[j] = starting[j]
    BY <1>1 DEF StoredTyped
  <1>4. Met \subseteq Met'
    <2>1. ASSUME NEW j \in Instances, keyDoc[KeyOf[j]] = j
          PROVE  keyDoc'[KeyOf[j]] = j
      BY <2>1, NoneApart, WorkflowsAssumption
    <2> QED
      BY <1>2, <1>3, <2>1 DEF Met
  <1>5. \A j \in Instances :
          /\ starting'[j] \in {"new", "create"} => inst'[j] = None
          /\ starting'[j] \in {"key", "register", "enroll", "listed"} => inst'[j] # None
    BY <1>3 DEF Base, StartOK
  <1>6. active' \cup wanted' \subseteq Met'
    <2>1. i \in (active' \cup wanted') \ (active \cup wanted) => i \in Met'
      BY <1>3 DEF Met
    <2> QED
      BY <1>4, <2>1 DEF Base, StartOK
  <1>7. StartOK'
    BY <1>4, <1>5, <1>6 DEF Base, StartOK
  <1> QED
    BY <1>2, <1>7 DEF Base

LEMMA LookUpKeyBase ==
  ASSUME Base, NEW i \in Instances, LookUpKey(i)
  PROVE  Base'
  <1> DEFINE st == IF keyDoc[KeyOf[i]] # None THEN "done" ELSE "create"
  <1>1. /\ starting[i] = "new" /\ starting' = [starting EXCEPT ![i] = st]
        /\ UNCHANGED <<stored, dpc, drv, sig, wanted, elapsed, parks, crashes, effects, late>>
        /\ raced' = raced \/ raced' = raced \cup {KeyOf[i]}
    BY DEF LookUpKey
  <1>2. st \in {"done", "create"}
    OBVIOUS
  <1> HIDE DEF st
  <1>3. StoredTyped
    BY TypesSplit DEF Base
  <1>4. starting' \in [Instances -> StartPhases]
    BY <1>1, <1>2, <1>3 DEF StoredTyped, StartPhases
  <1>5. raced' \subseteq Keys
    BY <1>1, <1>3, WorkflowsAssumption DEF StoredTyped
  <1>6. StoredTyped'
    BY <1>1, <1>3, <1>4, <1>5 DEF StoredTyped, stored
  <1>7. inst[i] = None /\ i \notin active \cup wanted
    BY <1>1 DEF Base, StartOK, Met
  <1>8. UNCHANGED <<inst, keyDoc, active, waiters>>
    BY <1>1 DEF stored
  <1> QED
    BY <1>1, <1>2, <1>6, <1>7, <1>8, NoWrite, StartGoes

LEMMA CreateBase ==
  ASSUME Base, NEW i \in Instances, Create(i)
  PROVE  InstStep /\ Base'
  <1>1. /\ starting[i] = "create" /\ starting' = [starting EXCEPT ![i] = "key"]
        /\ inst' = [inst EXCEPT ![i] = FreshInstance]
        /\ UNCHANGED <<keyDoc, active, enrolled, waiters, inbox, receipts, dpc, drv, sig, wanted,
                       elapsed, history>>
    BY DEF Create
  <1>2. StoredTyped
    BY TypesSplit DEF Base
  <1>3. inst[i] = None /\ i \notin active \cup wanted
    BY <1>1 DEF Base, StartOK, Met
  <1>4. /\ inst' \in [Instances -> Document \cup {None}] /\ inst'[i] = FreshInstance
        /\ \A j \in Instances : j # i => inst'[j] = inst[j]
    BY <1>1, <1>2, FreshOK DEF StoredTyped
  <1>5. starting' \in [Instances -> StartPhases]
    BY <1>1, <1>2 DEF StoredTyped, StartPhases
  <1>6. StoredTyped'
    BY <1>1, <1>2, <1>4, <1>5 DEF StoredTyped, history
  <1>7. InstStep
    BY <1>1, <1>3, <1>4 DEF InstStep
  <1> QED
    BY <1>1, <1>3, <1>4, <1>6, <1>7, FreshOK, StartGoes

LEMMA PutKeyBase ==
  ASSUME Base, NEW i \in Instances, PutKey(i)
  PROVE  Base'
  <1>1. /\ starting[i] = "key" /\ starting' = [starting EXCEPT ![i] = "register"]
        /\ keyDoc' = IF keyDoc[KeyOf[i]] = None THEN [keyDoc EXCEPT ![KeyOf[i]] = i] ELSE keyDoc
        /\ UNCHANGED <<inst, active, enrolled, waiters, inbox, receipts, dpc, drv, sig, wanted,
                       elapsed, history>>
    BY DEF PutKey
  <1>2. StoredTyped
    BY TypesSplit DEF Base
  <1>3. inst[i] # None
    BY <1>1 DEF Base, StartOK
  <1>4. starting' \in [Instances -> StartPhases]
    BY <1>1, <1>2 DEF StoredTyped, StartPhases
  <1>5. keyDoc' \in [Keys -> Instances \cup {None}]
    BY <1>1, <1>2 DEF StoredTyped
  <1>6. StoredTyped'
    BY <1>1, <1>2, <1>4, <1>5 DEF StoredTyped, history
  <1>7. \A q \in Keys : keyDoc[q] # None => keyDoc'[q] = keyDoc[q]
    BY <1>1, <1>2 DEF StoredTyped
  <1> QED
    BY <1>1, <1>3, <1>6, <1>7, NoWrite, StartGoes

LEMMA RegisterBase ==
  ASSUME Base, NEW i \in Instances, Register(i)
  PROVE  Base'
  <1>1. /\ starting[i] = "register" /\ starting' = [starting EXCEPT ![i] = "enroll"]
        /\ active' = active \cup {i} /\ late' \in {late, late \cup {i}}
        /\ UNCHANGED <<inst, keyDoc, enrolled, waiters, inbox, receipts, dpc, drv, sig, wanted,
                       elapsed, parks, crashes, effects, raced>>
    BY DEF Register
  <1>2. StoredTyped
    BY TypesSplit DEF Base
  <1>3. inst[i] # None
    BY <1>1 DEF Base, StartOK
  <1>4. starting' \in [Instances -> StartPhases]
    BY <1>1, <1>2 DEF StoredTyped, StartPhases
  <1>5. StoredTyped'
    BY <1>1, <1>2, <1>4 DEF StoredTyped
  <1> QED
    BY <1>1, <1>3, <1>5, NoWrite, StartGoes

LEMMA EnrollBase ==
  ASSUME Base, NEW i \in Instances, Enroll(i)
  PROVE  Base'
  <1>1. /\ starting[i] = "enroll" /\ starting' = [starting EXCEPT ![i] = "done"]
        /\ enrolled' = TRUE /\ wanted' = wanted \cup {i}
        /\ UNCHANGED <<inst, keyDoc, active, waiters, inbox, receipts, dpc, drv, sig, elapsed,
                       history>>
    BY DEF Enroll
  <1>2. StoredTyped
    BY TypesSplit DEF Base
  <1>3. inst[i] # None
    BY <1>1 DEF Base, StartOK
  <1>4. starting' \in [Instances -> StartPhases]
    BY <1>1, <1>2 DEF StoredTyped, StartPhases
  <1>5. StoredTyped'
    BY <1>1, <1>2, <1>4 DEF StoredTyped, history
  <1> QED
    BY <1>1, <1>3, <1>5, NoWrite, StartGoes

LEMMA StartDiesBase ==
  ASSUME Base, NEW i \in Instances, StartDies(i)
  PROVE  Base'
  <1> DEFINE st == IF starting[i] = "enroll" THEN "listed" ELSE "dead"
  <1>1. /\ starting[i] \in {"create", "key", "register", "enroll"}
        /\ starting' = [starting EXCEPT ![i] = st]
        /\ UNCHANGED <<stored, dpc, drv, sig, wanted, elapsed, history>>
    BY DEF StartDies
  <1>2. StoredTyped
    BY TypesSplit DEF Base
  <1>3. st \in {"listed", "dead"} /\ (st = "listed" <=> starting[i] = "enroll")
    OBVIOUS
  <1> HIDE DEF st
  <1>4. i \in active \cup wanted \/ st = "listed" => inst[i] # None
    BY <1>3 DEF Base, StartOK, Met
  <1>5. starting' \in [Instances -> StartPhases]
    BY <1>1, <1>2, <1>3 DEF StoredTyped, StartPhases
  <1>6. StoredTyped' /\ UNCHANGED <<inst, keyDoc, active, waiters>>
    BY <1>1, <1>2, <1>5 DEF StoredTyped, stored, history
  <1> QED
    BY <1>1, <1>3, <1>4, <1>6, NoWrite, StartGoes

-----------------------------------------------------------------------------
(* The steps of a signal and of time.                                      *)

LEMMA LeastOf ==
  ASSUME NEW S, S \subseteq Nat, S # {}
  PROVE  \E x \in S : \A y \in S : x <= y
  <1>1. \E x \in S : \A y \in S : ~ (<<y, x>> \in OpToRel(<, Nat))
    BY NatLessThanWellFounded, WFMin
  <1>2. PICK x \in S : \A y \in S : ~ (<<y, x>> \in OpToRel(<, Nat))
    BY <1>1
  <1>3. \A y \in S : ~ (y < x)
    BY <1>2 DEF OpToRel
  <1> QED
    BY <1>3

(* A delivery passes the wait steps in the order they are numbered in.     *)
LEMMA NextWaitOK ==
  ASSUME NEW k \in Nat
  PROVE  /\ NextWait(k) \in WaitSteps \cup {0}
         /\ NextWait(k) # 0 =>
              NextWait(k) > k /\ \A w \in WaitSteps : w > k => NextWait(k) <= w
         /\ NextWait(k) = 0 => \A w \in WaitSteps : ~ (w > k)
  <1> DEFINE later == {w \in WaitSteps : w > k}
  <1>1. later \subseteq Nat /\ \A w \in later : w # 0
    BY DEF WaitSteps, Steps
  <1>2. CASE later = {}
    BY <1>2 DEF NextWait
  <1>3. CASE later # {}
    <2>1. \E w \in later : \A v \in later : w <= v
      BY <1>1, <1>3, LeastOf
    <2>2. NextWait(k) = CHOOSE w \in later : \A v \in later : w <= v
      BY <1>3 DEF NextWait
    <2>3. NextWait(k) \in later /\ \A v \in later : NextWait(k) <= v
      BY <2>1, <2>2
    <2> QED
      BY <1>1, <2>3
  <1> QED
    BY <1>2, <1>3

(* A step of a delivery, or of time.                                       *)
LEMMA SignalGoes ==
  ASSUME Base, StoredTyped', UNCHANGED <<inst, keyDoc, starting, active, dpc, drv, waiters>>,
         wanted' \subseteq Met,
         \A m \in Messages : \A i \in sig'[m].todo :
           i \in sig[m].todo \/ \E k \in WaitSteps : i \in waiters[k]
  PROVE  Base'
  <1>1. TypeOK' /\ InstOK' /\ DriversOK'
    BY NoWrite, DriversStay
  <1>2. Met' = Met
    BY DEF Met
  <1>3. StartOK'
    BY <1>2 DEF Base, StartOK
  <1> QED
    BY <1>1, <1>3 DEF Base

LEMMA ElapseBase ==
  ASSUME Base, NEW i \in Instances, Elapse(i)
  PROVE  Base'
  <1>1. /\ inst[i] # None /\ inst[i].status \in {"sleeping", "waiting"}
        /\ elapsed' = [elapsed EXCEPT ![i] = @ \cup {inst[i].pc}]
        /\ UNCHANGED <<stored, starting, dpc, drv, sig, wanted, history>>
    BY DEF Elapse
  <1>2. StoredTyped /\ inst[i].pc \in Steps
    BY <1>1, TypesSplit DEF Base, StoredTyped, InstOK, DocOK, WaitSteps
  <1>3. elapsed' \in [Instances -> SUBSET Steps]
    BY <1>1, <1>2 DEF StoredTyped
  <1>4. StoredTyped' /\ UNCHANGED <<inst, keyDoc, active, waiters>>
    BY <1>1, <1>2, <1>3 DEF StoredTyped, stored, history
  <1> QED
    BY <1>1, <1>4, SignalGoes DEF Base, StartOK

Delivery == [stage : {"unsent", "put", "look", "wake", "acked"}, step : WaitSteps \cup {0},
             todo : SUBSET Instances]

LEMMA SigTyped ==
  ASSUME Base
  PROVE  /\ StoredTyped /\ sig \in [Messages -> Delivery]
         /\ inbox \in [WaitSteps -> SUBSET Messages] /\ waiters \in [WaitSteps -> SUBSET Instances]
         /\ \A m \in Messages :
              /\ sig[m].step \in WaitSteps \cup {0} /\ sig[m].step \in Nat
              /\ sig[m].todo \subseteq Instances
  <1>1. StoredTyped /\ sig \in [Messages -> Delivery]
    BY TypesSplit DEF Base, StoredTyped, Delivery
  <1> QED
    BY <1>1 DEF StoredTyped, Delivery, WaitSteps, Steps

(* Only the delivery of m moves.                                           *)
LEMMA DeliveryGoes ==
  ASSUME Base, NEW m \in Messages, NEW s \in Delivery, sig' = [sig EXCEPT ![m] = s],
         UNCHANGED <<stored, starting, dpc, drv, wanted, elapsed, history>>,
         s.todo = {} \/ s.todo \subseteq sig[m].todo
           \/ (\E k \in WaitSteps : s.todo = waiters[k])
  PROVE  /\ Base' /\ sig'[m] = s
         /\ \A n \in Messages : n # m => sig'[n] = sig[n]
  <1>1. sig' \in [Messages -> Delivery]
    BY SigTyped
  <1>2. sig'[m] = s /\ \A n \in Messages : n # m => sig'[n] = sig[n]
    BY SigTyped
  <1>3. StoredTyped'
    BY <1>1, SigTyped DEF StoredTyped, stored, history, Delivery
  <1>4. \A n \in Messages : \A i \in sig'[n].todo :
          i \in sig[n].todo \/ \E k \in WaitSteps : i \in waiters[k]
    BY <1>2
  <1>5. Base'
    BY <1>3, <1>4, SignalGoes DEF stored, Base, StartOK
  <1> QED
    BY <1>2, <1>5

LEMMA SignalBase ==
  ASSUME Base, NEW m \in Messages, Signal(m)
  PROVE  Base' /\ sig'[m] = [stage |-> "put", step |-> NextWait(0), todo |-> {}]
         /\ \A n \in Messages : n # m => sig'[n] = sig[n]
  <1>1. [stage |-> "put", step |-> NextWait(0), todo |-> {}] \in Delivery
    BY NextWaitOK DEF Delivery
  <1> QED
    BY <1>1, DeliveryGoes DEF Signal

LEMMA SignalDiesBase ==
  ASSUME Base, NEW m \in Messages, SignalDies(m)
  PROVE  Base' /\ sig'[m] = [stage |-> "put", step |-> NextWait(0), todo |-> {}]
         /\ \A n \in Messages : n # m => sig'[n] = sig[n]
  <1>1. [stage |-> "put", step |-> NextWait(0), todo |-> {}] \in Delivery
    BY NextWaitOK DEF Delivery
  <1> QED
    BY <1>1, DeliveryGoes DEF SignalDies

LEMMA WokenAllBase ==
  ASSUME Base, NEW m \in Messages, WokenAll(m)
  PROVE  LET k == NextWait(sig[m].step)
         IN  /\ Base'
             /\ sig'[m] = [stage |-> IF k = 0 THEN "acked" ELSE "put", step |-> k, todo |-> {}]
             /\ \A n \in Messages : n # m => sig'[n] = sig[n]
  <1> DEFINE k == NextWait(sig[m].step)
             s == [stage |-> IF k = 0 THEN "acked" ELSE "put", step |-> k, todo |-> {}]
  <1>1. k \in WaitSteps \cup {0}
    BY SigTyped, NextWaitOK
  <1>2. sig' = [sig EXCEPT ![m] = s]
        /\ UNCHANGED <<stored, starting, dpc, drv, wanted, elapsed, history>>
    BY DEF WokenAll
  <1> HIDE DEF k
  <1>3. s \in Delivery /\ s.todo = {}
    BY <1>1 DEF Delivery
  <1> HIDE DEF s
  <1>4. /\ Base' /\ sig'[m] = s
        /\ \A n \in Messages : n # m => sig'[n] = sig[n]
    BY <1>2, <1>3, DeliveryGoes
  <1> QED
    BY <1>4 DEF s, k

LEMMA ReadWaitersBase ==
  ASSUME Base, NEW m \in Messages, ReadWaiters(m), sig[m].step \in WaitSteps
  PROVE  /\ Base'
         /\ sig'[m] = [sig[m] EXCEPT !.stage = "wake", !.todo = waiters[sig[m].step]]
         /\ \A n \in Messages : n # m => sig'[n] = sig[n]
  <1> DEFINE s == [sig[m] EXCEPT !.stage = "wake", !.todo = waiters[sig[m].step]]
  <1>1. sig' = [sig EXCEPT ![m] = s]
        /\ UNCHANGED <<stored, starting, dpc, drv, wanted, elapsed, history>>
    BY DEF ReadWaiters
  <1>2. s \in Delivery /\ s.todo = waiters[sig[m].step]
    BY SigTyped DEF Delivery
  <1> HIDE DEF s
  <1>3. /\ Base' /\ sig'[m] = s
        /\ \A n \in Messages : n # m => sig'[n] = sig[n]
    BY <1>1, <1>2, DeliveryGoes
  <1> QED
    BY <1>3 DEF s

LEMMA PutInboxBase ==
  ASSUME Base, NEW m \in Messages, PutInbox(m)
  PROVE  /\ Base' /\ sig'[m] = [sig[m] EXCEPT !.stage = "look"]
         /\ \A n \in Messages : n # m => sig'[n] = sig[n]
  <1> DEFINE s == [sig[m] EXCEPT !.stage = "look"]
  <1>1. /\ inbox' = [inbox EXCEPT ![sig[m].step] = @ \cup {m}] /\ sig' = [sig EXCEPT ![m] = s]
        /\ UNCHANGED <<inst, keyDoc, active, enrolled, waiters, receipts, starting, dpc, drv,
                       wanted, elapsed, history>>
    BY DEF PutInbox
  <1>2. s \in Delivery /\ s.todo = sig[m].todo
    BY SigTyped DEF Delivery
  <1> HIDE DEF s
  <1>3. /\ sig' \in [Messages -> Delivery] /\ sig'[m] = s
        /\ \A n \in Messages : n # m => sig'[n] = sig[n]
    BY <1>1, <1>2, SigTyped
  <1>4. inbox' \in [WaitSteps -> SUBSET Messages]
    BY <1>1, SigTyped
  <1>5. StoredTyped'
    BY <1>1, <1>3, <1>4, SigTyped DEF StoredTyped, history, Delivery
  <1>6. \A n \in Messages : sig'[n].todo = sig[n].todo
    BY <1>2, <1>3
  <1>7. Base'
    BY <1>1, <1>5, <1>6, SignalGoes DEF Base, StartOK
  <1> QED
    BY <1>3, <1>7 DEF s

LEMMA WakeBase ==
  ASSUME Base, NEW m \in Messages, NEW i \in Instances, Wake(m, i)
  PROVE  /\ Base' /\ sig'[m] = [sig[m] EXCEPT !.todo = @ \ {i}]
         /\ \A n \in Messages : n # m => sig'[n] = sig[n]
  <1> DEFINE s == [sig[m] EXCEPT !.todo = @ \ {i}]
  <1>1. /\ i \in sig[m].todo /\ sig' = [sig EXCEPT ![m] = s]
        /\ wanted' = wanted \/ wanted' = wanted \cup {i}
        /\ UNCHANGED <<stored, starting, dpc, drv, elapsed, history>>
    BY DEF Wake
  <1>2. s \in Delivery /\ s.todo \subseteq sig[m].todo
    BY SigTyped DEF Delivery
  <1> HIDE DEF s
  <1>3. /\ sig' \in [Messages -> Delivery] /\ sig'[m] = s
        /\ \A n \in Messages : n # m => sig'[n] = sig[n]
    BY <1>1, <1>2, SigTyped
  <1>4. StoredTyped'
    BY <1>1, <1>3, SigTyped DEF StoredTyped, stored, history, Delivery
  <1>5. \A n \in Messages : \A j \in sig'[n].todo : j \in sig[n].todo
    BY <1>2, <1>3
  <1>6. i \in Met
    BY <1>1 DEF Base, StartOK
  <1>7. wanted' \subseteq Met
    BY <1>1, <1>6 DEF Base, StartOK
  <1>8. Base'
    BY <1>1, <1>4, <1>5, <1>7, SignalGoes DEF stored
  <1> QED
    BY <1>3, <1>8 DEF s

-----------------------------------------------------------------------------
(* Every step keeps the base of the proofs, and every instance goes on.    *)

LEMMA BaseInit == Init => Base /\ SentOK
  <1> SUFFICES ASSUME Init
               PROVE  Base /\ SentOK
    OBVIOUS
  <1>1. StoredTyped
    <2>1. Undelivered \in Delivery
      BY DEF Undelivered, Delivery
    <2>2. enrolled \in BOOLEAN /\ starting \in [Instances -> StartPhases]
      BY DEF Init, StartPhases
    <2> QED
      BY <2>1, <2>2, WorkflowsAssumption DEF Init, StoredTyped, Delivery
  <1>2. DriversTyped
    BY DEF Init, DriversTyped, DriverLabels, DrvRec, NoDriver
  <1>3. InstOK /\ DriversOK /\ StartOK /\ SentOK
    BY DEF Init, InstOK, DriversOK, DriverAt, StartOK, SentOK, Undelivered
  <1> QED
    BY <1>1, <1>2, <1>3, TypesSplit DEF Base

LEMMA SentNext ==
  ASSUME Base, SentOK, [Next]_vars
  PROVE  SentOK'
  <1>1. ASSUME NEW m \in Messages, Signal(m) \/ SignalDies(m)
        PROVE  SentOK'
    <2>1. NextWait(0) \in WaitSteps
      <3>1. CASE Signal(m)
        BY <3>1, NextWaitOK DEF Signal
      <3>2. CASE SignalDies(m)
        <4>1. sig[m].step \in WaitSteps /\ sig[m].step > 0
          BY <3>2 DEF SentOK, SignalDies, WaitSteps, Steps
        <4> QED
          BY <4>1, NextWaitOK
      <3> QED
        BY <1>1, <3>1, <3>2
    <2>2. /\ sig'[m] = [stage |-> "put", step |-> NextWait(0), todo |-> {}]
          /\ \A n \in Messages : n # m => sig'[n] = sig[n]
      BY <1>1, SignalBase, SignalDiesBase
    <2>3. ASSUME NEW n \in Messages
          PROVE  sig'[n].stage \in {"put", "look", "wake"} => sig'[n].step \in WaitSteps
      BY <2>1, <2>2 DEF SentOK
    <2> QED
      BY <2>3 DEF SentOK
  <1>2. ASSUME NEW m \in Messages, WokenAll(m)
        PROVE  SentOK'
    <2> DEFINE k == NextWait(sig[m].step)
    <2>1. /\ sig'[m] = [stage |-> IF k = 0 THEN "acked" ELSE "put", step |-> k, todo |-> {}]
          /\ \A n \in Messages : n # m => sig'[n] = sig[n]
      BY <1>2, WokenAllBase
    <2>2. k \in WaitSteps \cup {0}
      BY SigTyped, NextWaitOK
    <2> HIDE DEF k
    <2>3. ASSUME NEW n \in Messages
          PROVE  sig'[n].stage \in {"put", "look", "wake"} => sig'[n].step \in WaitSteps
      BY <2>1, <2>2 DEF SentOK
    <2> QED
      BY <2>3 DEF SentOK
  <1>3. ASSUME NEW m \in Messages, PutInbox(m) \/ ReadWaiters(m) \/ \E i \in Instances : Wake(m, i)
        PROVE  SentOK'
    <2>1. sig[m].stage \in {"put", "look", "wake"} /\ sig[m] \in Delivery
      BY <1>3, SigTyped DEF PutInbox, ReadWaiters, Wake
    <2>2. sig[m].step \in WaitSteps
      BY <2>1 DEF SentOK
    <2>3. sig'[m].step = sig[m].step /\ \A n \in Messages : n # m => sig'[n] = sig[n]
      <3>1. CASE PutInbox(m)
        BY <2>1, <3>1, PutInboxBase DEF Delivery
      <3>2. CASE ReadWaiters(m)
        BY <2>1, <2>2, <3>2, ReadWaitersBase DEF Delivery
      <3>3. CASE \E i \in Instances : Wake(m, i)
        <4>1. PICK i \in Instances : Wake(m, i)
          BY <3>3
        <4> QED
          BY <2>1, <4>1, WakeBase DEF Delivery
      <3> QED
        BY <1>3, <3>1, <3>2, <3>3
    <2> QED
      BY <2>2, <2>3 DEF SentOK
  <1>4. CASE UNCHANGED sig
    BY <1>4 DEF SentOK
  <1>5. ASSUME NEW i \in Instances,
               LookUpKey(i) \/ Create(i) \/ PutKey(i) \/ Register(i) \/ Enroll(i) \/ StartDies(i)
                 \/ Park(i) \/ Elapse(i)
        PROVE  UNCHANGED sig
    BY <1>5 DEF LookUpKey, Create, PutKey, Register, Enroll, StartDies, Park, Elapse
  <1>6. ASSUME NEW d \in Drivers,
               Advance(d) \/ Crash(d) \/ \E i \in Instances : Load(d, i) \/ Cancel(d, i)
        PROVE  UNCHANGED sig
    BY <1>6 DEF Advance, Round, Replay, Perform, RegisterWaiter, ReadInbox, UnregisterWaiter, Save,
                Reload, Leave, Crash, Load, Cancel
  <1> QED
    BY <1>1, <1>2, <1>3, <1>4, <1>5, <1>6 DEF Next, vars

(* The steps that write no instance.                                       *)
LEMMA StepWritesNone ==
  ASSUME Next,
         ~ (\E i \in Instances : Create(i) \/ Park(i)),
         ~ (\E d \in Drivers : Save(d) \/ \E i \in Instances : Cancel(d, i))
  PROVE  inst' = inst
  <1>1. ASSUME NEW i \in Instances,
               \/ LookUpKey(i) \/ PutKey(i) \/ Register(i) \/ Enroll(i) \/ StartDies(i)
               \/ Elapse(i)
        PROVE  inst' = inst
    BY <1>1 DEF LookUpKey, PutKey, Register, Enroll, StartDies, Elapse, stored
  <1>2. ASSUME NEW d \in Drivers,
               \/ Round(d) \/ Replay(d) \/ Perform(d) \/ RegisterWaiter(d) \/ ReadInbox(d)
               \/ UnregisterWaiter(d) \/ Reload(d) \/ Leave(d) \/ Crash(d)
               \/ \E i \in Instances : Load(d, i)
        PROVE  inst' = inst
    BY <1>2 DEF Round, Replay, Perform, RegisterWaiter, ReadInbox, UnregisterWaiter, Reload, Leave,
       Crash, Load, stored
  <1>3. ASSUME NEW m \in Messages,
               \/ Signal(m) \/ PutInbox(m) \/ ReadWaiters(m) \/ WokenAll(m) \/ SignalDies(m)
               \/ \E i \in Instances : Wake(m, i)
        PROVE  inst' = inst
    BY <1>3 DEF Signal, PutInbox, ReadWaiters, Wake, WokenAll, SignalDies, stored
  <1> QED
    BY <1>1, <1>2, <1>3 DEF Next, Advance

LEMMA BaseNext ==
  ASSUME Base, SentOK, [Next]_vars
  PROVE  Base' /\ SentOK' /\ InstStep
  <1>1. SentOK'
    BY SentNext
  <1>2. CASE UNCHANGED vars
    BY <1>1, <1>2, NoWrite DEF vars, Base, TypeOK, InstOK, DriversOK, StartOK, Met
  <1>3. CASE Next
    <2>1. ASSUME NEW i \in Instances, Create(i) \/ Park(i)
          PROVE  Base' /\ InstStep
      BY <2>1, CreateBase, ParkBase
    <2>2. ASSUME NEW d \in Drivers, Save(d) \/ \E i \in Instances : Cancel(d, i)
          PROVE  Base' /\ InstStep
      BY <2>2, SaveBase, CancelBase
    <2>3. ASSUME NEW i \in Instances,
                 LookUpKey(i) \/ PutKey(i) \/ Register(i) \/ Enroll(i) \/ StartDies(i) \/ Elapse(i)
          PROVE  Base'
      BY <2>3, LookUpKeyBase, PutKeyBase, RegisterBase, EnrollBase, StartDiesBase, ElapseBase
    <2>4. ASSUME NEW d \in Drivers,
                 \/ Round(d) \/ Replay(d) \/ Perform(d) \/ RegisterWaiter(d) \/ ReadInbox(d)
                 \/ UnregisterWaiter(d) \/ Reload(d) \/ Leave(d) \/ Crash(d)
                 \/ \E i \in Instances : Load(d, i)
          PROVE  Base'
      BY <2>4, RoundBase, ReplayBase, PerformBase, RegisterWaiterBase, ReadInboxBase,
         UnregisterWaiterBase, ReloadBase, LeaveBase, CrashBase, LoadBase
    <2>5. ASSUME NEW m \in Messages,
                 \/ Signal(m) \/ PutInbox(m) \/ ReadWaiters(m) \/ WokenAll(m) \/ SignalDies(m)
                 \/ \E i \in Instances : Wake(m, i)
          PROVE  Base'
      <3>1. CASE ReadWaiters(m)
        BY <3>1, ReadWaitersBase DEF SentOK, ReadWaiters
      <3> QED
        BY <2>5, <3>1, SignalBase, PutInboxBase, WokenAllBase, SignalDiesBase, WakeBase
    <2>6. Base'
      BY <1>3, <2>1, <2>2, <2>3, <2>4, <2>5 DEF Next, Advance
    <2>7. InstStep
      BY <1>3, <2>1, <2>2, StepWritesNone, NoWrite
    <2> QED
      BY <1>1, <2>6, <2>7
  <1> QED
    BY <1>2, <1>3

(* The base of the proofs holds throughout: each driver's copy is a state  *)
(* its instance has been in, and the instance has gone on from there only  *)
(* by transitions of advance, cancel and the parking of a handle.          *)
THEOREM BaseHolds == Spec => [](Base /\ SentOK)
  <1>1. Base /\ SentOK /\ [Next]_vars => (Base /\ SentOK)'
    BY BaseNext
  <1> QED
    BY <1>1, BaseInit, PTL DEF Spec

(* Every variable keeps its type through start, advance, cancel, signal    *)
(* and the deaths of their callers: a driver at work has an instance and a *)
(* copy of it, and one that is to save has what it will save.              *)
THEOREM TypeCorrect == Spec => []TypeOK
  BY BaseHolds, PTL DEF Base

(* However often a message is delivered again and however many drivers     *)
(* read it from an inbox, a live instance has consumed as many messages as *)
(* it has left wait steps: save's compare-and-swap admits one transition   *)
(* out of a step, and no step is come back to.                             *)
THEOREM SignalConsumedOnceHolds == Spec => []SignalConsumedOnce
  <1>1. Base => SignalConsumedOnce
    BY DEF Base, InstOK, DocOK, Counted, SignalConsumedOnce
  <1> QED
    BY <1>1, BaseHolds, PTL

(* Once save or cancel has made an instance terminal no driver's late      *)
(* save, no parked handle and no other cancel changes its status or its    *)
(* history.                                                                *)
THEOREM OverIsFinalHolds == Spec => OverIsFinal
  <1>1. Base /\ SentOK /\ [Next]_vars =>
          \A i \in Instances : inst[i] # None /\ inst[i].status \in Over =>
            inst'[i].status = inst[i].status /\ inst'[i].history = inst[i].history
    <2> SUFFICES ASSUME Base, SentOK, [Next]_vars, NEW i \in Instances,
                        inst[i] # None, inst[i].status \in Over
                 PROVE  inst'[i].status = inst[i].status /\ inst'[i].history = inst[i].history
      OBVIOUS
    <2>1. inst'[i] = inst[i] \/ Advanced(inst[i], inst'[i])
      BY BaseNext DEF InstStep
    <2> QED
      BY <2>1, LiveNotOver DEF Advanced, Agree
  <1>2. Base /\ SentOK /\ [Next]_vars =>
          [\A i \in Instances : inst[i] # None /\ inst[i].status \in Over =>
            inst'[i].status = inst[i].status /\ inst'[i].history = inst[i].history]_vars
    BY <1>1
  <1> QED
    BY <1>2, BaseHolds, PTL DEF Spec, OverIsFinal

-----------------------------------------------------------------------------
(* Activities.                                                             *)

(* Only the commit of an activity changes the receipts.                    *)
LEMMA OnlyPerform ==
  ASSUME Next, ~ \E d \in Drivers : Perform(d)
  PROVE  UNCHANGED <<receipts, effects>>
  <1>1. ASSUME NEW i \in Instances,
               LookUpKey(i) \/ Create(i) \/ PutKey(i) \/ Register(i) \/ Enroll(i) \/ StartDies(i)
                 \/ Park(i) \/ Elapse(i)
        PROVE  UNCHANGED <<receipts, effects>>
    BY <1>1 DEF LookUpKey, Create, PutKey, Register, Enroll, StartDies, Park, Elapse, stored,
                history
  <1>2. ASSUME NEW d \in Drivers,
               \/ Round(d) \/ Replay(d) \/ RegisterWaiter(d) \/ ReadInbox(d)
               \/ UnregisterWaiter(d)
               \/ Save(d) \/ Reload(d) \/ Leave(d) \/ Crash(d)
               \/ \E i \in Instances : Load(d, i) \/ Cancel(d, i)
        PROVE  UNCHANGED <<receipts, effects>>
    BY <1>2 DEF Round, Replay, RegisterWaiter, ReadInbox, UnregisterWaiter, Save, Reload, Leave,
       Crash, Load, Cancel, stored, history
  <1>3. ASSUME NEW m \in Messages,
               \/ Signal(m) \/ PutInbox(m) \/ ReadWaiters(m) \/ WokenAll(m) \/ SignalDies(m)
               \/ \E i \in Instances : Wake(m, i)
        PROVE  UNCHANGED <<receipts, effects>>
    BY <1>3 DEF Signal, PutInbox, ReadWaiters, Wake, WokenAll, SignalDies, stored, history
  <1> QED
    BY <1>1, <1>2, <1>3 DEF Next, Advance

LEMMA EffectsNext ==
  ASSUME Base, EffectsOK, [Next]_vars
  PROVE  EffectsOK'
  <1>1. ASSUME NEW d \in Drivers, Perform(d)
        PROVE  EffectsOK'
    <2> DEFINE i == drv[d].i
               k == drv[d].copy.pc
    <2>1. i \in Instances /\ k \in Steps /\ StepKey(i, drv[d].copy, k) = <<i, k, 0>>
      <3> DEFINE c == drv[d].copy
      <3>1. dpc[d] = "perform"
        BY <1>1 DEF Perform
      <3>2. i \in Instances /\ c \in Document /\ DriverAt("perform", drv[d], inst[i])
        BY <3>1, AtWork
      <3>3. DocOK(c) /\ c.status \in Live /\ c.pc \in Steps
        BY <3>2 DEF DriverAt, LabelOK
      <3>4. StepKey(i, c, c.pc) = <<i, c.pc, 0>>
        BY <3>2, <3>3, FirstPass
      <3> QED
        BY <3>2, <3>3, <3>4
    <2>2. effects \in [Instances -> [Steps -> Nat]]
      BY TypesSplit DEF Base, StoredTyped
    <2>3. CASE UNCHANGED <<receipts, effects>>
      BY <2>3 DEF EffectsOK
    <2>4. CASE /\ <<i, k, 0>> \notin receipts /\ receipts' = receipts \cup {<<i, k, 0>>}
               /\ effects' = [effects EXCEPT ![i][k] = @ + 1]
      <3> HIDE DEF i, k
      <3>1. effects[i][k] = 0
        BY <2>1, <2>4 DEF EffectsOK
      <3>2. ASSUME NEW j \in Instances, NEW l \in Steps
            PROVE  effects'[j][l] = IF <<j, l, 0>> \in receipts' THEN 1 ELSE 0
        <4>1. CASE j = i /\ l = k
          BY <2>1, <2>2, <2>4, <3>1, <4>1
        <4>2. CASE ~ (j = i /\ l = k)
          <5>1. effects'[j][l] = effects[j][l]
            BY <2>1, <2>2, <2>4, <4>2
          <5>2. <<j, l, 0>> # <<i, k, 0>>
            BY <4>2
          <5> QED
            BY <2>4, <5>1, <5>2 DEF EffectsOK
        <4> QED
          BY <4>1, <4>2
      <3> QED
        BY <3>2 DEF EffectsOK
    <2> QED
      BY <1>1, <2>1, <2>3, <2>4 DEF Perform
  <1>2. CASE UNCHANGED <<receipts, effects>>
    BY <1>2 DEF EffectsOK
  <1> QED
    BY <1>1, <1>2, OnlyPerform DEF vars

(* Several drivers that reach one call, a driver that dies after it and    *)
(* one that loses its save ask for the activity with the same idempotency  *)
(* key, so that the receipt lets it be performed only once.                *)
THEOREM ActivityOnceHolds == Spec => []ActivityOnce
  <1>1. Init => EffectsOK
    BY DEF Init, EffectsOK
  <1>2. Base /\ EffectsOK /\ [Next]_vars => EffectsOK'
    BY EffectsNext
  <1>3. EffectsOK => ActivityOnce
    <2>1. ASSUME EffectsOK, NEW i \in Instances, NEW k \in Steps
          PROVE  effects[i][k] = 1 \/ effects[i][k] = 0
      BY <2>1 DEF EffectsOK
    <2> QED
      BY <2>1 DEF ActivityOnce
  <1> QED
    BY <1>1, <1>2, <1>3, BaseHolds, PTL DEF Spec

-----------------------------------------------------------------------------
(* The list of active instances.                                           *)

(* What save and cancel leave behind.                                      *)
LEMMA Ended ==
  ASSUME Base, NEW i \in Instances, inst'[i] # None, inst'[i].status \in Over,
         inst[i] = None \/ inst[i].status \notin Over, Next
  PROVE  \E d \in Drivers : dpc'[d] = "leave" /\ drv'[d].i = i
  <1> DEFINE Left == \E d \in Drivers : dpc'[d] = "leave" /\ drv'[d].i = i
  <1>1. inst' # inst
    OBVIOUS
  <1>2. StoredTyped /\ DriversTyped
    BY TypesSplit DEF Base
  <1>3. ASSUME NEW j \in Instances, Create(j) \/ Park(j)
        PROVE  FALSE
    <2>1. CASE Create(j)
      BY <1>2, <2>1, FreshOK DEF Create, StoredTyped, Over
    <2>2. CASE Park(j)
      <3>1. inst[j] \in Document
        BY <1>2, <2>2 DEF Park, StoredTyped
      <3>2. [inst[j] EXCEPT !.version = @ + 1].status = inst[j].status
        BY <3>1 DEF Document
      <3> QED
        BY <1>2, <2>2, <3>2 DEF Park, StoredTyped
    <2> QED
      BY <1>3, <2>1, <2>2
  <1>4. ASSUME NEW d \in Drivers, Save(d), inst' # inst
        PROVE  Left
    <2> DEFINE saved == [drv[d].next EXCEPT !.version = @ + 1]
    <2>1. /\ inst' = [inst EXCEPT ![drv[d].i] = saved]
          /\ drv' = [drv EXCEPT ![d].copy = saved, ![d].next = None]
          /\ dpc' = [dpc EXCEPT ![d] = IF saved.status \in Over THEN "leave" ELSE "loop"]
      BY <1>4 DEF Save
    <2> HIDE DEF saved
    <2>2. drv[d].i = i /\ saved.status \in Over
      BY <1>2, <2>1 DEF StoredTyped
    <2>3. drv'[d].i = i /\ dpc'[d] = "leave"
      BY <1>2, <2>1, <2>2 DEF DriversTyped, DrvRec
    <2> QED
      BY <2>3
  <1>5. ASSUME NEW d \in Drivers, NEW j \in Instances, Cancel(d, j)
        PROVE  Left
    <2>1. PICK saved : /\ inst' = [inst EXCEPT ![j] = saved]
                       /\ drv' = [drv EXCEPT ![d] = [NoDriver EXCEPT !.i = j, !.copy = saved]]
                       /\ dpc' = [dpc EXCEPT ![d] = "leave"]
      BY <1>5 DEF Cancel
    <2>2. i = j
      BY <1>2, <2>1 DEF StoredTyped
    <2>3. drv'[d].i = j /\ dpc'[d] = "leave"
      BY <1>2, <2>1 DEF DriversTyped, NoDriver
    <2> QED
      BY <2>2, <2>3
  <1>6. ASSUME NEW d \in Drivers, Save(d)
        PROVE  Left
    BY <1>1, <1>4, <1>6
  <1> QED
    BY <1>1, <1>3, <1>5, <1>6, StepWritesNone

(* What the steps may do to the list and to the calls of start.            *)
LEMMA ListStep ==
  ASSUME Base, Next, NEW i \in Instances
  PROVE  /\ i \in active' /\ i \notin active => Register(i)
         /\ i \in active /\ i \notin active' => \E d \in Drivers : Leave(d) /\ drv[d].i = i
         /\ starting'[i] \in ListedPhases /\ starting[i] \notin ListedPhases =>
              LookUpKey(i) \/ Register(i)
         /\ starting[i] \in ListedPhases => starting'[i] \in ListedPhases
         /\ late \subseteq late'
  <1>1. starting \in [Instances -> StartPhases]
    BY TypesSplit DEF Base, StoredTyped
  <1>2. CASE UNCHANGED <<active, starting, late>>
    BY <1>2
  <1>3. ASSUME NEW j \in Instances,
               \/ LookUpKey(j) \/ Create(j) \/ PutKey(j) \/ Register(j) \/ Enroll(j)
               \/ StartDies(j)
        PROVE  /\ i \in active' /\ i \notin active => Register(i)
               /\ i \in active => i \in active'
               /\ starting'[i] \in ListedPhases /\ starting[i] \notin ListedPhases =>
                    LookUpKey(i) \/ Register(i)
               /\ starting[i] \in ListedPhases => starting'[i] \in ListedPhases
               /\ late \subseteq late'
    <2>1. CASE LookUpKey(j)
      BY <1>1, <2>1 DEF LookUpKey, stored, ListedPhases
    <2>2. CASE Register(j)
      BY <1>1, <2>2 DEF Register, ListedPhases
    <2>3. CASE Create(j)
      BY <1>1, <2>3 DEF Create, history, ListedPhases
    <2>4. CASE PutKey(j)
      BY <1>1, <2>4 DEF PutKey, history, ListedPhases
    <2>5. CASE StartDies(j)
      BY <1>1, <2>5 DEF StartDies, stored, history, ListedPhases
    <2>6. CASE Enroll(j)
      BY <1>1, <2>6 DEF Enroll, history, ListedPhases
    <2> QED
      BY <1>3, <2>1, <2>2, <2>3, <2>4, <2>5, <2>6
  <1>4. ASSUME NEW d \in Drivers, Leave(d)
        PROVE  /\ i \in active /\ i \notin active' => drv[d].i = i
               /\ active' \subseteq active /\ starting' = starting /\ late' = late
    BY <1>4 DEF Leave, history
  <1>5. ASSUME NEW j \in Instances, Park(j) \/ Elapse(j)
        PROVE  UNCHANGED <<active, starting, late>>
    BY <1>5 DEF Park, Elapse, stored, history
  <1>6. ASSUME NEW d \in Drivers,
               \/ Round(d) \/ Replay(d) \/ Perform(d) \/ RegisterWaiter(d) \/ ReadInbox(d)
               \/ UnregisterWaiter(d) \/ Save(d) \/ Reload(d) \/ Crash(d)
               \/ \E j \in Instances : Load(d, j) \/ Cancel(d, j)
        PROVE  UNCHANGED <<active, starting, late>>
    BY <1>6 DEF Round, Replay, Perform, RegisterWaiter, ReadInbox, UnregisterWaiter, Save, Reload,
       Crash, Load, Cancel, stored, history
  <1>7. ASSUME NEW m \in Messages,
               \/ Signal(m) \/ PutInbox(m) \/ ReadWaiters(m) \/ WokenAll(m) \/ SignalDies(m)
               \/ \E j \in Instances : Wake(m, j)
        PROVE  UNCHANGED <<active, starting, late>>
    BY <1>7 DEF Signal, PutInbox, ReadWaiters, Wake, WokenAll, SignalDies, stored, history
  <1> QED
    BY <1>2, <1>3, <1>4, <1>5, <1>6, <1>7 DEF Next, Advance

(* Another's step, or one of the driver itself.                            *)
LEMMA DriverStep ==
  ASSUME Base, Next, NEW d \in Drivers
  PROVE  \/ dpc'[d] = dpc[d] /\ drv'[d] = drv[d]
         \/ Advance(d) \/ Crash(d) \/ \E i \in Instances : Load(d, i) \/ Cancel(d, i)
  <1>1. DriversTyped
    BY TypesSplit DEF Base
  <1>2. ASSUME NEW e \in Drivers, e # d,
               Advance(e) \/ Crash(e) \/ \E i \in Instances : Load(e, i) \/ Cancel(e, i)
        PROVE  dpc'[d] = dpc[d] /\ drv'[d] = drv[d]
    <2>1. CASE Round(e)
      <3>1. CASE Ends(e)
        BY <1>1, <1>2, <3>1 DEF DriversTyped, Ends
      <3>2. ASSUME NEW label, NEW n, Goes(e, label, n)
            PROVE  dpc'[d] = dpc[d] /\ drv'[d] = drv[d]
        BY <1>1, <1>2, <3>2 DEF DriversTyped, Goes
      <3> QED
        BY <2>1, <3>1, <3>2, RoundGoes
    <2>2. CASE Replay(e) \/ Perform(e) \/ RegisterWaiter(e) \/ ReadInbox(e) \/ UnregisterWaiter(e)
      BY <1>1, <1>2, <2>2
         DEF Replay, Perform, RegisterWaiter, ReadInbox, UnregisterWaiter, DriversTyped
    <2>3. CASE Save(e) \/ Reload(e) \/ Leave(e) \/ Crash(e)
      BY <1>1, <1>2, <2>3 DEF Save, Reload, Leave, Crash, DriversTyped
    <2>4. CASE \E i \in Instances : Load(e, i) \/ Cancel(e, i)
      BY <1>1, <1>2, <2>4 DEF Load, Cancel, DriversTyped
    <2> QED
      BY <1>2, <2>1, <2>2, <2>3, <2>4 DEF Advance
  <1>3. ASSUME NEW i \in Instances,
               LookUpKey(i) \/ Create(i) \/ PutKey(i) \/ Register(i) \/ Enroll(i) \/ StartDies(i)
                 \/ Park(i) \/ Elapse(i)
        PROVE  UNCHANGED <<dpc, drv>>
    BY <1>3 DEF LookUpKey, Create, PutKey, Register, Enroll, StartDies, Park, Elapse
  <1>4. ASSUME NEW m \in Messages,
               \/ Signal(m) \/ PutInbox(m) \/ ReadWaiters(m) \/ WokenAll(m) \/ SignalDies(m)
               \/ \E i \in Instances : Wake(m, i)
        PROVE  UNCHANGED <<dpc, drv>>
    BY <1>4 DEF Signal, PutInbox, ReadWaiters, Wake, WokenAll, SignalDies
  <1> QED
    BY <1>2, <1>3, <1>4 DEF Next

LEMMA CrashesGrow ==
  ASSUME Base, Next, crashes' = 0
  PROVE  crashes = 0 /\ \A d \in Drivers : ~Crash(d)
  <1>1. crashes \in Nat
    BY TypesSplit, WorkflowsAssumption DEF Base, StoredTyped
  <1>2. ASSUME NEW d \in Drivers, Crash(d)
        PROVE  FALSE
    BY <1>1, <1>2 DEF Crash
  <1>3. ASSUME NEW i \in Instances,
               LookUpKey(i) \/ Create(i) \/ PutKey(i) \/ Register(i) \/ Enroll(i) \/ StartDies(i)
                 \/ Park(i) \/ Elapse(i)
        PROVE  UNCHANGED crashes
    BY <1>3 DEF LookUpKey, Create, PutKey, Register, Enroll, StartDies, Park, Elapse, history
  <1>4. ASSUME NEW d \in Drivers, Advance(d) \/ \E i \in Instances : Load(d, i) \/ Cancel(d, i)
        PROVE  UNCHANGED crashes
    BY <1>4 DEF Advance, Round, Replay, Perform, RegisterWaiter, ReadInbox, UnregisterWaiter, Save,
       Reload, Leave, Load, Cancel, history
  <1>5. ASSUME NEW m \in Messages,
               \/ Signal(m) \/ PutInbox(m) \/ ReadWaiters(m) \/ WokenAll(m) \/ SignalDies(m)
               \/ \E i \in Instances : Wake(m, i)
        PROVE  UNCHANGED crashes
    BY <1>5 DEF Signal, PutInbox, ReadWaiters, Wake, WokenAll, SignalDies, history
  <1> QED
    BY <1>2, <1>3, <1>4, <1>5 DEF Next

LEMMA ListNext ==
  ASSUME Base, SentOK, ListOK, [Next]_vars
  PROVE  ListOK'
  <1>1. CASE UNCHANGED vars
    BY <1>1 DEF vars, ListOK, LiveActive, FinishedLeaves
  <1>2. CASE Next
    <2>1. Base' /\ InstStep
      BY BaseNext
    <2>2. LiveActive'
      <3> SUFFICES ASSUME NEW i \in Instances, inst'[i] # None, starting'[i] \in ListedPhases,
                          inst'[i].status \in Live, i \notin active'
                   PROVE  FALSE
        BY DEF LiveActive
      <3>1. CASE starting[i] \notin ListedPhases
        <4>1. LookUpKey(i) \/ Register(i)
          BY <1>2, <3>1, ListStep
        <4>2. CASE LookUpKey(i)
          BY <4>2 DEF LookUpKey, stored, Base, StartOK
        <4>3. CASE Register(i)
          BY <4>3 DEF Register
        <4> QED
          BY <4>1, <4>2, <4>3
      <3>2. CASE starting[i] \in ListedPhases
        <4>1. inst[i] # None /\ (inst'[i] = inst[i] \/ Advanced(inst[i], inst'[i]))
          BY <2>1, <3>2 DEF InstStep, ListedPhases
        <4>2. inst[i].status \in Live
          BY <4>1 DEF Advanced, Agree
        <4>3. i \in active
          BY <3>2, <4>1, <4>2 DEF ListOK, LiveActive
        <4>4. PICK d \in Drivers : Leave(d) /\ drv[d].i = i
          BY <1>2, <4>3, ListStep
        <4>5. inst[i].status \in Over
          BY <4>4, AtWork DEF Leave, DriverAt
        <4> QED
          BY <4>2, <4>5, LiveNotOver
      <3> QED
        BY <3>1, <3>2
    <2>3. FinishedLeaves'
      <3> SUFFICES ASSUME NEW i \in Instances, crashes' = 0, i \in active',
                          inst'[i].status \in Over, i \notin late'
                   PROVE  \E d \in Drivers : dpc'[d] = "leave" /\ drv'[d].i = i
        BY DEF FinishedLeaves
      <3>1. crashes = 0 /\ \A d \in Drivers : ~Crash(d)
        BY <1>2, CrashesGrow
      <3>2. inst'[i] # None
        BY <2>1 DEF Base, StartOK, Met
      <3>3. CASE inst[i] = None \/ inst[i].status \notin Over
        BY <1>2, <3>2, <3>3, Ended
      <3>4. CASE inst[i] # None /\ inst[i].status \in Over
        <4>1. i \in active
          <5>1. CASE Register(i)
            BY <3>4, <5>1 DEF Register
          <5> QED
            BY <1>2, <5>1, ListStep
        <4>2. PICK d \in Drivers : dpc[d] = "leave" /\ drv[d].i = i
          BY <1>2, <3>1, <3>4, <4>1, ListStep DEF ListOK, FinishedLeaves
        <4>3. ~Leave(d)
          BY <4>2 DEF Leave
        <4>4. ~ (Advance(d) \/ Crash(d) \/ \E j \in Instances : Load(d, j) \/ Cancel(d, j))
          BY <3>1, <4>2, <4>3 DEF Advance, Round, Replay, Perform, RegisterWaiter, ReadInbox,
             UnregisterWaiter, Save, Reload, Load, Cancel
        <4> QED
          BY <1>2, <4>2, <4>4, DriverStep
      <3> QED
        BY <3>3, <3>4
    <2> QED
      BY <2>2, <2>3 DEF ListOK
  <1> QED
    BY <1>1, <1>2

(* Instances that start has listed and that are under way are on the list  *)
(* the sweep goes through, also those whose start died on the way to the   *)
(* registry; and while no driver has died a finished one is there only     *)
(* between the save that finished it and the same driver's update, unless  *)
(* it was cancelled before start's append, which then put it there.        *)
THEOREM ActiveListHolds == Spec => []ActiveList
  <1>1. Init => ListOK
    BY DEF Init, ListOK, LiveActive, FinishedLeaves
  <1>2. Base /\ SentOK /\ ListOK /\ [Next]_vars => ListOK'
    BY ListNext
  <1>3. ListOK => ActiveList
    BY DEF ListOK, LiveActive, FinishedLeaves, ActiveList, ListedPhases
  <1> QED
    BY <1>1, <1>2, <1>3, BaseHolds, PTL DEF Spec

-----------------------------------------------------------------------------
(* Keys.                                                                   *)

LEMMA KeyStep ==
  ASSUME Base, Next
  PROVE  /\ \A q \in Keys : keyDoc[q] # None => keyDoc'[q] # None
         /\ raced \subseteq raced'
         /\ UNCHANGED <<keyDoc, starting>> \/ \E i \in Instances :
              LookUpKey(i) \/ Create(i) \/ PutKey(i) \/ Register(i) \/ Enroll(i) \/ StartDies(i)
  <1>1. StoredTyped
    BY TypesSplit DEF Base
  <1>2. ASSUME NEW i \in Instances,
               LookUpKey(i) \/ Create(i) \/ PutKey(i) \/ Register(i) \/ Enroll(i) \/ StartDies(i)
        PROVE  (\A q \in Keys : keyDoc[q] # None => keyDoc'[q] # None) /\ raced \subseteq raced'
    <2>1. CASE PutKey(i)
      BY <1>1, <2>1, NoneApart DEF PutKey, StoredTyped, history
    <2>2. CASE LookUpKey(i)
      BY <2>2 DEF LookUpKey, stored
    <2> QED
      BY <1>2, <2>1, <2>2 DEF Create, Register, Enroll, StartDies, stored, history
  <1>3. ASSUME NEW i \in Instances, Park(i) \/ Elapse(i)
        PROVE  UNCHANGED <<keyDoc, raced, starting>>
    BY <1>3 DEF Park, Elapse, stored, history
  <1>4. ASSUME NEW d \in Drivers,
               Advance(d) \/ Crash(d) \/ \E i \in Instances : Load(d, i) \/ Cancel(d, i)
        PROVE  UNCHANGED <<keyDoc, raced, starting>>
    BY <1>4 DEF Advance, Round, Replay, Perform, RegisterWaiter, ReadInbox, UnregisterWaiter, Save,
       Reload, Leave, Crash, Load, Cancel, stored, history
  <1>5. ASSUME NEW m \in Messages,
               \/ Signal(m) \/ PutInbox(m) \/ ReadWaiters(m) \/ WokenAll(m) \/ SignalDies(m)
               \/ \E i \in Instances : Wake(m, i)
        PROVE  UNCHANGED <<keyDoc, raced, starting>>
    BY <1>5 DEF Signal, PutInbox, ReadWaiters, Wake, WokenAll, SignalDies, stored, history
  <1> QED
    BY <1>2, <1>3, <1>4, <1>5 DEF Next

LEMMA KeysNext ==
  ASSUME Base, SentOK, KeysOK, [Next]_vars
  PROVE  KeysOK'
  <1>1. CASE UNCHANGED vars
    BY <1>1 DEF vars, KeysOK, InPlay, Met
  <1>2. CASE Next
    <2>1. /\ \A q \in Keys : keyDoc[q] # None => keyDoc'[q] # None
          /\ raced \subseteq raced'
      BY <1>2, KeyStep
    <2>2. StoredTyped /\ InstStep
      BY BaseNext, TypesSplit DEF Base
    <2>3. \A i \in Instances : KeyOf[i] \in Keys
      BY WorkflowsAssumption
    (* Who has come into play, and who needs a key document.               *)
    <2>4. ASSUME NEW i \in Instances, UNCHANGED <<keyDoc, starting>>
          PROVE  InPlay(i)' => InPlay(i)
      BY <2>2, <2>4 DEF InstStep, InPlay, Met
    <2>5. CASE UNCHANGED <<keyDoc, starting>>
      <3>1. ASSUME NEW i \in Instances, i \in Met'
            PROVE  keyDoc[KeyOf[i]] # None
        BY <2>2, <2>5, <3>1, NoneApart DEF InstStep, Met, KeysOK
      <3> QED
        BY <2>1, <2>3, <2>4, <2>5, <3>1 DEF KeysOK
    <2>6. ASSUME NEW j \in Instances,
                 PutKey(j) \/ Register(j) \/ Enroll(j) \/ StartDies(j) \/ Create(j)
          PROVE  KeysOK'
      <3>1. ASSUME NEW i \in Instances
            PROVE  /\ InPlay(i)' => InPlay(i)
                   /\ starting'[i] = "register" \/ i \in Met' => keyDoc'[KeyOf[i]] # None
        <4>1. CASE PutKey(j)
          <5>1. keyDoc'[KeyOf[j]] # None
            BY <2>2, <2>3, <4>1, NoneApart DEF PutKey, StoredTyped
          <5>2. i # j => keyDoc'[KeyOf[i]] # i \/ keyDoc[KeyOf[i]] = i
            BY <2>2, <2>3, <4>1 DEF PutKey, StoredTyped
          <5> QED
            BY <2>1, <2>2, <2>3, <4>1, <5>1, <5>2 DEF PutKey, StoredTyped, KeysOK, InPlay, Met
        <4>2. CASE Register(j)
          BY <2>1, <2>2, <2>3, <4>2 DEF Register, StoredTyped, KeysOK, InPlay, Met
        <4>3. CASE StartDies(j)
          BY <2>1, <2>2, <2>3, <4>3 DEF StartDies, StoredTyped, KeysOK, InPlay, Met, stored
        <4>5. CASE Enroll(j)
          BY <2>1, <2>2, <2>3, <4>5 DEF Enroll, StoredTyped, KeysOK, InPlay, Met
        <4>4. CASE Create(j)
          <5>1. /\ starting'[j] = "key" /\ starting[j] = "create" /\ keyDoc' = keyDoc
                /\ \A l \in Instances : l # j => starting'[l] = starting[l] /\ inst'[l] = inst[l]
            BY <2>2, <4>4 DEF Create, StoredTyped
          <5> QED
            BY <2>1, <2>3, <5>1, NoneApart DEF KeysOK, InPlay, Met
        <4> QED
          BY <2>6, <4>1, <4>2, <4>3, <4>4, <4>5
      <3> QED
        BY <2>1, <3>1 DEF KeysOK
    <2>7. ASSUME NEW j \in Instances, LookUpKey(j)
          PROVE  KeysOK'
      <3> DEFINE q == KeyOf[j]
                 others == {l \in Instances \ {j} :
                             KeyOf[l] = q /\ starting[l] \in {"create", "key"}}
      <3>1. /\ inst[j] = None /\ inst' = inst /\ keyDoc' = keyDoc /\ starting[j] = "new"
            /\ \A l \in Instances : l # j => starting'[l] = starting[l]
            /\ starting'[j] = IF keyDoc[q] # None THEN "done" ELSE "create"
            /\ raced' = IF keyDoc[q] = None /\ others # {} THEN raced \cup {q} ELSE raced
        BY <2>2, <2>7 DEF LookUpKey, StoredTyped, stored, Base, StartOK
      <3>2. \A i \in Instances :
              starting'[i] = "register" \/ i \in Met' => keyDoc'[KeyOf[i]] # None
        BY <3>1 DEF KeysOK, Met
      <3>3. \A i \in Instances : i # j => (InPlay(i)' <=> InPlay(i))
        BY <3>1 DEF InPlay, Met
      <3>4. ASSUME NEW l \in Instances, l # j, KeyOf[l] = q, q \notin raced', InPlay(j)'
            PROVE  ~InPlay(l)
        <4>1. keyDoc[q] = None
          BY <3>1, <3>4 DEF InPlay, Met
        <4>2. l \notin others
          BY <2>3, <3>1, <3>4, <4>1
        <4>3. starting[l] # "register" /\ l \notin Met
          BY <3>4, <4>1 DEF KeysOK
        <4> QED
          BY <3>4, <4>2, <4>3 DEF InPlay
      <3> HIDE DEF q, others
      <3>5. ASSUME NEW i \in Instances, NEW l \in Instances, i # l, KeyOf[i] = KeyOf[l],
                   KeyOf[i] \notin raced'
            PROVE  ~ (InPlay(i)' /\ InPlay(l)')
        <4>1. CASE i = j
          BY <3>3, <3>4, <3>5, <4>1 DEF q
        <4>2. CASE l = j
          BY <3>3, <3>4, <3>5, <4>2 DEF q
        <4>3. CASE i # j /\ l # j
          BY <2>1, <3>3, <3>5, <4>3 DEF KeysOK
        <4> QED
          BY <4>1, <4>2, <4>3
      <3> QED
        BY <3>2, <3>5 DEF KeysOK
    <2> QED
      BY <1>2, <2>5, <2>6, <2>7, KeyStep
  <1> QED
    BY <1>1, <1>2

(* start's key document, written only after the instance's own, keeps a    *)
(* repeated call of start from setting a second instance going: two calls  *)
(* with one key both do so only when neither saw the other's key document, *)
(* whoever died between the writes.                                        *)
THEOREM OneStartPerKeyHolds == Spec => []OneStartPerKey
  <1>1. Init => KeysOK
    BY DEF Init, KeysOK, InPlay, Met
  <1>2. Base /\ SentOK /\ KeysOK /\ [Next]_vars => KeysOK'
    BY KeysNext
  <1>3. Base /\ KeysOK => OneStartPerKey
    <2>1. ASSUME Base, NEW i \in Instances, i \in active \cup wanted
          PROVE  InPlay(i)
      BY <2>1 DEF Base, StartOK, InPlay
    <2> QED
      BY <2>1 DEF KeysOK, OneStartPerKey
  <1> QED
    BY <1>1, <1>2, <1>3, BaseHolds, PTL DEF Spec

-----------------------------------------------------------------------------
(* Signals.                                                                *)

(* Inboxes and due timers only grow.                                       *)
LEMMA Grows ==
  ASSUME Base, Next
  PROVE  /\ \A k \in WaitSteps : inbox[k] \subseteq inbox'[k]
         /\ \A i \in Instances : elapsed[i] \subseteq elapsed'[i]
         /\ inbox' = inbox \/ \E m \in Messages : PutInbox(m)
  <1>1. StoredTyped
    BY TypesSplit DEF Base
  <1>2. ASSUME NEW i \in Instances, Elapse(i)
        PROVE  (\A j \in Instances : elapsed[j] \subseteq elapsed'[j]) /\ inbox' = inbox
    BY <1>1, <1>2 DEF Elapse, StoredTyped, stored
  <1>3. ASSUME NEW m \in Messages, PutInbox(m)
        PROVE  (\A k \in WaitSteps : inbox[k] \subseteq inbox'[k]) /\ elapsed' = elapsed
    BY <1>1, <1>3 DEF PutInbox, StoredTyped
  <1>4. ASSUME NEW i \in Instances,
               LookUpKey(i) \/ Create(i) \/ PutKey(i) \/ Register(i) \/ Enroll(i) \/ StartDies(i)
                 \/ Park(i)
        PROVE  UNCHANGED <<inbox, elapsed>>
    BY <1>4 DEF LookUpKey, Create, PutKey, Register, Enroll, StartDies, Park, stored
  <1>5. ASSUME NEW d \in Drivers,
               Advance(d) \/ Crash(d) \/ \E i \in Instances : Load(d, i) \/ Cancel(d, i)
        PROVE  UNCHANGED <<inbox, elapsed>>
    BY <1>5 DEF Advance, Round, Replay, Perform, RegisterWaiter, ReadInbox, UnregisterWaiter, Save,
       Reload, Leave, Crash, Load, Cancel, stored
  <1>6. ASSUME NEW m \in Messages,
               \/ Signal(m) \/ ReadWaiters(m) \/ WokenAll(m) \/ SignalDies(m)
               \/ \E i \in Instances : Wake(m, i)
        PROVE  UNCHANGED <<inbox, elapsed>>
    BY <1>6 DEF Signal, ReadWaiters, Wake, WokenAll, SignalDies, stored
  <1> QED
    BY <1>2, <1>3, <1>4, <1>5, <1>6 DEF Next

LEMMA CanEndStays ==
  ASSUME Base, Next, NEW i \in Instances, NEW c, NEW b, c.pc \in WaitSteps, Agree(b, c),
         CanEnd(inbox, elapsed[i], c)
  PROVE  CanEnd(inbox', elapsed'[i], b)
  BY Grows DEF CanEnd, Agree

(* Nobody is taken off a wait step but by a driver that leaves it.         *)
LEMMA WaitersStep ==
  ASSUME Base, Next, NEW k \in WaitSteps, NEW i \in waiters[k], i \notin waiters'[k]
  PROVE  \E d \in Drivers : UnregisterWaiter(d) /\ drv[d].i = i /\ drv[d].copy.pc = k
  <1>1. waiters \in [WaitSteps -> SUBSET Instances]
    BY TypesSplit DEF Base, StoredTyped
  <1>2. ASSUME NEW d \in Drivers, UnregisterWaiter(d)
        PROVE  drv[d].i = i /\ drv[d].copy.pc = k
    BY <1>1, <1>2 DEF UnregisterWaiter
  <1>3. ASSUME NEW d \in Drivers, RegisterWaiter(d)
        PROVE  FALSE
    BY <1>1, <1>3 DEF RegisterWaiter
  <1>4. ASSUME NEW j \in Instances,
               LookUpKey(j) \/ Create(j) \/ PutKey(j) \/ Register(j) \/ Enroll(j) \/ StartDies(j)
                 \/ Park(j) \/ Elapse(j)
        PROVE  UNCHANGED waiters
    BY <1>4 DEF LookUpKey, Create, PutKey, Register, Enroll, StartDies, Park, Elapse, stored
  <1>5. ASSUME NEW d \in Drivers,
               \/ Round(d) \/ Replay(d) \/ Perform(d) \/ ReadInbox(d) \/ Save(d) \/ Reload(d)
               \/ Leave(d) \/ Crash(d) \/ \E j \in Instances : Load(d, j) \/ Cancel(d, j)
        PROVE  UNCHANGED waiters
    BY <1>5 DEF Round, Replay, Perform, ReadInbox, Save, Reload, Leave, Crash, Load, Cancel, stored
  <1>6. ASSUME NEW m \in Messages,
               \/ Signal(m) \/ PutInbox(m) \/ ReadWaiters(m) \/ WokenAll(m) \/ SignalDies(m)
               \/ \E j \in Instances : Wake(m, j)
        PROVE  UNCHANGED waiters
    BY <1>6 DEF Signal, PutInbox, ReadWaiters, Wake, WokenAll, SignalDies, stored
  <1> QED
    BY <1>2, <1>3, <1>4, <1>5, <1>6 DEF Next, Advance

(* An instance that agrees with an older copy has not moved since.         *)
LEMMA AgreedBefore ==
  ASSUME Base, InstStep, NEW d \in Drivers, dpc[d] # "idle",
         Agree(inst'[drv[d].i], drv[d].copy)
  PROVE  Agree(inst[drv[d].i], drv[d].copy)
  <1> DEFINE a == inst[drv[d].i]
             b == inst'[drv[d].i]
             c == drv[d].copy
  <1>1. a \in Document /\ c \in Document /\ Ahead(a, c)
    BY AtWork DEF DriverAt
  <1>2. b = a \/ Advanced(a, b)
    BY AtWork DEF InstStep
  <1> HIDE DEF a, b, c
  <1>3. CASE b = a
    BY <1>3 DEF a, b, c
  <1>4. CASE Advanced(a, b) /\ Agree(b, a)
    BY <1>4 DEF Agree, a, b, c
  <1>5. CASE Advanced(a, b) /\ a.status \in Live /\ Moves(a, b)
    <2>1. b \in Document
      BY <1>5 DEF Advanced
    <2>2. ~Agree(b, c)
      BY <1>1, <1>5, <2>1, AheadMoves
    <2> QED
      BY <2>2 DEF b, c
  <1> QED
    BY <1>2, <1>3, <1>4, <1>5 DEF Advanced

(* A driver at a wait of its own knows the instance to be there still, or  *)
(* to have gone on.                                                        *)
LEMMA AtSameWait ==
  ASSUME NEW a \in Document, NEW c \in Document, DocOK(c), Ahead(a, c), c.status = "waiting",
         a.status \in Live, a.pc = c.pc
  PROVE  Agree(a, c)
  <1>1. a.status \notin Over /\ c.pc \in Steps
    BY LiveNotOver DEF DocOK, WaitSteps
  <1> QED
    BY <1>1, NotLater DEF Ahead

LEMMA OtherWait ==
  ASSUME Base, InstStep, Next, NEW d \in Drivers, WaitAt(d), dpc'[d] = dpc[d], drv'[d] = drv[d]
  PROVE  WaitAt(d)'
  <1> DEFINE i == drv[d].i
             c == drv[d].copy
  <1>1. CASE dpc[d] = "inbox"
    <2>1. i \in Instances
      BY <1>1, AtWork
    <2> QED
      BY <1>1, <2>1, Grows DEF WaitAt
  <1>2. CASE dpc[d] = "unregister"
    <2>1. i \in Instances /\ c.pc \in WaitSteps
      BY <1>2, AtWork DEF DriverAt, LabelOK, DocOK
    <2>2. CanEnd(inbox', elapsed'[i], c)
      BY <1>2, <2>1, CanEndStays DEF WaitAt, Agree
    <2> QED
      BY <1>2, <2>2 DEF WaitAt
  <1>3. CASE dpc[d] = "save"
    <2> SUFFICES ASSUME drv[d].next.status = "waiting", Agree(inst'[i], c)
                 PROVE  i \in waiters'[c.pc]
      BY <1>3 DEF WaitAt
    <2>1. /\ i \in Instances /\ c \in Document /\ inst[i] \in Document
          /\ DriverAt("save", drv[d], inst[i])
      BY <1>3, AtWork
    <2>2. c.status = "running" /\ c.pc \in WaitSteps
      BY <2>1 DEF DriverAt, LabelOK, Moves, DocOK, Over
    <2>3. Agree(inst[i], c)
      BY <1>3, AgreedBefore
    <2>4. i \in waiters[c.pc]
      BY <1>3, <2>3 DEF WaitAt
    <2>5. ASSUME NEW e \in Drivers, UnregisterWaiter(e), drv[e].i = i, drv[e].copy.pc = c.pc
          PROVE  FALSE
      <3>1. /\ drv[e].copy \in Document /\ DocOK(drv[e].copy) /\ Ahead(inst[i], drv[e].copy)
            /\ drv[e].copy.status = "waiting"
        BY <2>5, AtWork DEF UnregisterWaiter, DriverAt, LabelOK
      <3>2. Agree(inst[i], drv[e].copy)
        BY <2>1, <2>2, <2>3, <2>5, <3>1, AtSameWait DEF Agree, Live
      <3> QED
        BY <2>2, <2>3, <3>1, <3>2 DEF Agree
    <2> QED
      BY <2>2, <2>4, <2>5, WaitersStep
  <1>4. CASE dpc[d] \notin {"inbox", "unregister", "save"}
    BY <1>4 DEF WaitAt
  <1> QED
    BY <1>1, <1>2, <1>3, <1>4

LEMMA OwnWait ==
  ASSUME Base, NEW d \in Drivers, WaitAt(d),
         Advance(d) \/ Crash(d) \/ \E i \in Instances : Load(d, i) \/ Cancel(d, i)
  PROVE  WaitAt(d)'
  <1> DEFINE i == drv[d].i
             c == drv[d].copy
  <1>1. DriversTyped
    BY TypesSplit DEF Base
  <1>2. ASSUME dpc'[d] \notin {"inbox", "unregister", "save"}
        PROVE  WaitAt(d)'
    BY <1>2 DEF WaitAt
  <1>3. CASE Round(d)
    <2>1. elapsed' = elapsed
      BY <1>3 DEF Round
    <2>2. CASE Ends(d)
      BY <1>1, <1>2, <2>2 DEF Ends, DriversTyped
    <2>3. ASSUME NEW label \in {"call", "register", "inbox", "save"}, NEW n,
                 Goes(d, label, n), label = "save" => n.status # "waiting"
          PROVE  WaitAt(d)'
      <3>1. /\ dpc'[d] = label /\ drv'[d].i = i /\ drv'[d].copy = c /\ drv'[d].next = n
            /\ drv'[d].due = (c.pc \in elapsed[i])
        BY <1>1, <2>3 DEF Goes, DriversTyped, DrvRec
      <3> HIDE DEF c, i
      <3> QED
        BY <2>1, <2>3, <3>1 DEF WaitAt
    <2> QED
      BY <1>3, <2>2, <2>3, RoundGoes
  <1>4. ASSUME NEW n, n.status # "waiting", dpc'[d] = "save", drv'[d].next = n
        PROVE  WaitAt(d)'
    BY <1>4 DEF WaitAt
  <1>5. CASE Replay(d) \/ Perform(d)
    <2>1. /\ c \in Document /\ DocOK(c) /\ drv[d] \in DrvRec
          /\ c.status \in Live /\ c.pc \in Steps /\ Program[c.pc].kind = "call"
      BY <1>5, AtWork DEF DriverAt, LabelOK, Replay, Perform
    <2>2. Proceed(c, c.pc, Program[c.pc].next).status # "waiting"
      <3>1. /\ Program[c.pc].next \in Nat /\ Later(Program[c.pc].next, c.pc)
            /\ c.pc \notin WaitSteps
        BY <2>1, NodeTyped, SuccessorLater DEF WaitSteps
      <3>2. Proceed(c, c.pc, Program[c.pc].next).status = "running"
        BY <2>1, <3>1, ProceedOK
      <3> QED
        BY <3>2
    <2>3. Finish(c, Program[c.pc].exit, c.pc).status # "waiting"
      <3>1. Program[c.pc].exit \in Over
        BY <2>1, CallExit
      <3>2. Finish(c, Program[c.pc].exit, c.pc).status \in Over
        BY <2>1, <3>1, FinishOK
      <3> QED
        BY <3>2 DEF Over
    <2>4. \/ dpc'[d] \in {"perform", "reload"}
          \/ /\ dpc'[d] = "save"
             /\ \/ drv'[d].next = Proceed(c, c.pc, Program[c.pc].next)
                \/ drv'[d].next = Finish(c, Program[c.pc].exit, c.pc)
      BY <1>1, <1>5, <2>1 DEF Replay, Perform, DriversTyped, DrvRec
    <2> HIDE DEF c
    <2> QED
      BY <1>2, <1>4, <2>2, <2>3, <2>4
  <1>6. CASE RegisterWaiter(d)
    <2>1. c.pc \in WaitSteps /\ waiters \in [WaitSteps -> SUBSET Instances]
      BY <1>6, AtWork, TypesSplit DEF RegisterWaiter, DriverAt, LabelOK, Base, StoredTyped
    <2>2. waiters'[c.pc] = waiters[c.pc] \cup {i}
      BY <1>6, <2>1 DEF RegisterWaiter
    <2>3. dpc'[d] = "save" /\ drv'[d].i = i /\ drv'[d].copy = c
      BY <1>1, <1>6 DEF RegisterWaiter, DriversTyped, DrvRec
    <2> QED
      BY <2>2, <2>3 DEF WaitAt
  <1>7. CASE ReadInbox(d)
    <2>1. dpc[d] = "inbox" /\ inbox' = inbox /\ elapsed' = elapsed
      BY <1>7 DEF ReadInbox, stored
    <2>2. CASE dpc' = [dpc EXCEPT ![d] = "idle"]
      BY <1>1, <1>2, <2>2 DEF DriversTyped
    <2>3. CASE dpc' = [dpc EXCEPT ![d] = "unregister"]
      <3>1. \/ Unconsumed(c) # {}
            \/ drv[d].due /\ Program[c.pc].exit # None
        BY <1>1, <1>7, <2>3 DEF ReadInbox, DriversTyped
      <3>2. CanEnd(inbox, elapsed[i], c)
        BY <2>1, <3>1 DEF CanEnd, Unconsumed, WaitAt
      <3>3. dpc'[d] = "unregister" /\ drv'[d].i = i /\ drv'[d].copy = c
        <4>1. dpc'[d] # "idle"
          BY <1>1, <2>3 DEF DriversTyped
        <4>2. \E n : drv' = [drv EXCEPT ![d].next = n]
          BY <1>1, <1>7, <4>1 DEF ReadInbox, DriversTyped
        <4> QED
          BY <1>1, <2>3, <4>2 DEF DriversTyped, DrvRec
      <3> QED
        BY <2>1, <3>2, <3>3 DEF WaitAt
    <2> QED
      BY <1>7, <2>2, <2>3 DEF ReadInbox
  <1>8. CASE UnregisterWaiter(d)
    <2>1. drv[d].next.status # "waiting"
      BY <1>8, AtWork DEF UnregisterWaiter, DriverAt, LabelOK, Moves, Over
    <2>2. dpc'[d] = "save" /\ drv'[d].next = drv[d].next
      BY <1>1, <1>8 DEF UnregisterWaiter, DriversTyped
    <2> QED
      BY <1>4, <2>1, <2>2
  <1>9. CASE \/ Save(d) \/ Reload(d) \/ Leave(d) \/ Crash(d)
             \/ \E j \in Instances : Load(d, j) \/ Cancel(d, j)
    <2>1. dpc'[d] \notin {"inbox", "unregister", "save"}
      BY <1>1, <1>9 DEF Save, Reload, Leave, Crash, Load, Cancel, DriversTyped
    <2> QED
      BY <1>2, <2>1
  <1> QED
    BY <1>3, <1>5, <1>6, <1>7, <1>8, <1>9 DEF Advance

LEMMA WaitsNext ==
  ASSUME Base, SentOK, WaitsOK, [Next]_vars
  PROVE  WaitsOK'
  <1>1. CASE UNCHANGED vars
    BY <1>1 DEF vars, WaitsOK, WaitAt
  <1>2. CASE Next
    <2>1. InstStep
      BY BaseNext
    <2>2. ASSUME NEW d \in Drivers
          PROVE  WaitAt(d)'
      <3>1. WaitAt(d)
        BY DEF WaitsOK
      <3>2. CASE dpc'[d] = dpc[d] /\ drv'[d] = drv[d]
        BY <1>2, <2>1, <3>1, <3>2, OtherWait
      <3>3. CASE Advance(d) \/ Crash(d) \/ \E i \in Instances : Load(d, i) \/ Cancel(d, i)
        BY <3>1, <3>3, OwnWait
      <3> QED
        BY <1>2, <3>2, <3>3, DriverStep
    <2> QED
      BY <2>2 DEF WaitsOK
  <1> QED
    BY <1>1, <1>2

(* An instance that waits has done so before, or one save has put it there. *)
LEMMA WaitingBegins ==
  ASSUME Base, Next, NEW i \in Instances, inst'[i] # None, inst'[i].status = "waiting",
         ~ (inst[i] # None /\ Agree(inst'[i], inst[i]))
  PROVE  \E d \in Drivers : Save(d) /\ Current(d) /\ drv[d].i = i
  <1>1. StoredTyped /\ DriversTyped
    BY TypesSplit DEF Base
  <1>2. inst' # inst
    BY DEF Agree
  <1>3. ASSUME NEW j \in Instances, Create(j) \/ Park(j)
        PROVE  FALSE
    <2>1. CASE Create(j)
      <3>1. inst'[i] = IF i = j THEN FreshInstance ELSE inst[i]
        BY <1>1, <2>1 DEF Create, StoredTyped
      <3> QED
        BY <3>1, FreshOK DEF Agree
    <2>2. CASE Park(j)
      <3>1. inst[j] \in Document /\ inst[j] # None
        BY <1>1, <2>2 DEF Park, StoredTyped
      <3> DEFINE b == [inst[j] EXCEPT !.version = @ + 1]
      <3>2. Agree(b, inst[j])
        BY <3>1, BumpOK
      <3>3. inst' = [inst EXCEPT ![j] = b]
        BY <2>2 DEF Park
      <3> HIDE DEF b
      <3>4. inst'[i] = IF i = j THEN b ELSE inst[i]
        BY <1>1, <3>3 DEF StoredTyped
      <3> QED
        BY <3>1, <3>2, <3>4 DEF Agree
    <2> QED
      BY <1>3, <2>1, <2>2
  <1>4. ASSUME NEW d \in Drivers, Save(d)
        PROVE  Current(d) /\ drv[d].i = i
    <2>1. Current(d)
      BY <1>2, <1>4 DEF Save
    <2>2. CASE drv[d].i # i
      <3>1. inst'[i] = inst[i]
        BY <1>1, <1>4, <2>1, <2>2 DEF Save, StoredTyped
      <3> QED
        BY <3>1 DEF Agree
    <2> QED
      BY <2>1, <2>2
  <1>5. ASSUME NEW d \in Drivers, NEW j \in Instances, Cancel(d, j)
        PROVE  FALSE
    <2> DEFINE at == IF inst[j].status = "running" THEN 0 ELSE inst[j].pc
               n == Finish(inst[j], "cancelled", at)
               saved == [n EXCEPT !.version = @ + 1]
    <2>1. inst' = [inst EXCEPT ![j] = saved] /\ inst[j] \in Document /\ DocOK(inst[j])
          /\ inst[j].status \in Live
      BY <1>1, <1>5 DEF Cancel, StoredTyped, Base, InstOK
    <2>2. at \in Steps \cup {0} /\ "cancelled" \in Over
      BY <2>1 DEF Over, Live, DocOK, WaitSteps
    <2> HIDE DEF at
    <2>3. n \in Document /\ n.status = "cancelled"
      BY <2>1, <2>2, FinishOK
    <2> HIDE DEF n
    <2>4. saved.status = "cancelled"
      BY <2>3, BumpOK DEF Agree
    <2> HIDE DEF saved
    <2>5. inst'[i] = IF i = j THEN saved ELSE inst[i]
      BY <1>1, <2>1 DEF StoredTyped
    <2> QED
      BY <2>4, <2>5 DEF Agree
  <1> QED
    BY <1>2, <1>3, <1>4, <1>5, StepWritesNone

(* A driver that minds an instance goes on doing so as long as it waits,   *)
(* unless it found the wait's inbox empty and nothing due.                 *)
LEMMA MindingStep ==
  ASSUME Base, Next, NEW d \in Drivers, NEW i \in Instances, Minding(d, i), ~Crash(d),
         inst[i] # None, inst'[i].status = "waiting", Agree(inst'[i], inst[i])
  PROVE  \/ Minding(d, i)'
         \/ /\ dpc[d] = "inbox" /\ Agree(inst[i], drv[d].copy)
            /\ Unconsumed(drv[d].copy) = {} /\ ~ (drv[d].due /\ Program[drv[d].copy.pc].exit # None)
  <1> DEFINE c == drv[d].copy
  <1>1. DriversTyped /\ StoredTyped /\ drv[d].i = i /\ dpc[d] # "idle"
    BY TypesSplit DEF Base, Minding
  <1>2. ASSUME dpc'[d] \in {"call", "perform", "register", "unregister", "save", "reload"},
               drv'[d].i = i
        PROVE  Minding(d, i)'
    BY <1>2 DEF Minding
  <1>3. ASSUME dpc'[d] \in {"loop", "inbox"}, drv'[d].i = i, Agree(inst'[i], drv'[d].copy)
        PROVE  Minding(d, i)'
    BY <1>3 DEF Minding
  <1>4. CASE dpc'[d] = dpc[d] /\ drv'[d] = drv[d]
    BY <1>4 DEF Minding, Agree
  <1>5. CASE Round(d)
    <2>1. Agree(inst[i], c) /\ c.status = "waiting"
      BY <1>5 DEF Minding, Round, Agree
    <2>2. ASSUME NEW label \in {"call", "register", "inbox", "save"}, NEW n, Goes(d, label, n)
          PROVE  Minding(d, i)'
      <3>1. dpc'[d] = label /\ drv'[d].i = i /\ drv'[d].copy = c
        BY <1>1, <2>2 DEF Goes, DriversTyped, DrvRec
      <3>2. Agree(inst'[i], c)
        BY <2>1 DEF Agree
      <3> QED
        BY <1>2, <1>3, <3>1, <3>2
    <2> QED
      BY <1>5, <2>1, <2>2, RoundGoes
  <1>6. CASE Replay(d) \/ Perform(d) \/ RegisterWaiter(d) \/ UnregisterWaiter(d)
    <2>1. dpc'[d] \in {"call", "perform", "register", "unregister", "save", "reload"}
      BY <1>1, <1>6 DEF Replay, Perform, RegisterWaiter, UnregisterWaiter, DriversTyped
    <2>2. drv'[d].i = i
      BY <1>1, <1>6 DEF Replay, Perform, RegisterWaiter, UnregisterWaiter, DriversTyped, DrvRec
    <2> QED
      BY <1>2, <2>1, <2>2
  <1>7. CASE ReadInbox(d)
    <2>1. dpc[d] = "inbox" /\ Agree(inst[i], c)
      BY <1>7 DEF ReadInbox, Minding
    <2>2. CASE dpc' = [dpc EXCEPT ![d] = "unregister"]
      <3>1. dpc'[d] # "idle" /\ dpc'[d] = "unregister"
        BY <1>1, <2>2 DEF DriversTyped
      <3>2. \E n : drv' = [drv EXCEPT ![d].next = n]
        BY <1>1, <1>7, <3>1 DEF ReadInbox, DriversTyped
      <3>3. drv'[d].i = i
        BY <1>1, <3>2 DEF DriversTyped, DrvRec
      <3> QED
        BY <1>2, <3>1, <3>3
    <2>3. CASE Unconsumed(c) = {} /\ ~ (drv[d].due /\ Program[c.pc].exit # None)
      BY <2>1, <2>3
    <2> QED
      BY <1>7, <2>2, <2>3 DEF ReadInbox
  <1>8. CASE Save(d)
    <2>1. CASE Current(d)
      <3> DEFINE saved == [drv[d].next EXCEPT !.version = @ + 1]
      <3>1. /\ inst' = [inst EXCEPT ![i] = saved]
            /\ drv' = [drv EXCEPT ![d].copy = saved, ![d].next = None]
            /\ dpc' = [dpc EXCEPT ![d] = IF saved.status \in Over THEN "leave" ELSE "loop"]
        BY <1>1, <1>8, <2>1 DEF Save
      <3> HIDE DEF saved
      <3>2. inst'[i] = saved /\ drv'[d].copy = saved /\ drv'[d].i = i
        BY <1>1, <3>1 DEF StoredTyped, DriversTyped, DrvRec
      <3>3. saved.status \notin Over
        BY <3>2 DEF Over
      <3>4. dpc'[d] = "loop"
        BY <1>1, <3>1, <3>3 DEF DriversTyped
      <3> QED
        BY <1>3, <3>2, <3>4 DEF Agree
    <2>2. CASE ~Current(d)
      <3>1. dpc'[d] = "reload" /\ drv'[d].i = i
        BY <1>1, <1>8, <2>2 DEF Save, DriversTyped, DrvRec
      <3> QED
        BY <1>2, <3>1
    <2> QED
      BY <2>1, <2>2
  <1>9. CASE Reload(d)
    <2>1. dpc'[d] = "loop" /\ drv'[d].i = i /\ drv'[d].copy = inst[i]
      BY <1>1, <1>9 DEF Reload, DriversTyped, DrvRec
    <2> QED
      BY <1>3, <2>1
  <1>10. ~Leave(d) /\ ~ \E j \in Instances : Load(d, j) \/ Cancel(d, j)
    BY DEF Minding, Leave, Load, Cancel
  <1> QED
    BY <1>4, <1>5, <1>6, <1>7, <1>8, <1>9, <1>10, DriverStep DEF Advance

(* An instance that is wanted stays so until a driver has loaded it.       *)
LEMMA WantedStep ==
  ASSUME Base, Next, NEW i \in wanted
  PROVE  i \in wanted' \/ \E d \in Drivers : Minding(d, i)'
  <1>1. DriversTyped /\ StoredTyped /\ i \in Instances
    BY TypesSplit DEF Base, StoredTyped
  <1>2. ASSUME NEW d \in Drivers, NEW j \in Instances, Load(d, j)
        PROVE  i \in wanted' \/ Minding(d, i)'
    <2>1. wanted' = wanted \ {j} /\ inst' = inst
      BY <1>2 DEF Load, stored
    <2>2. dpc'[d] = "loop" /\ drv'[d].i = j /\ drv'[d].copy = inst[j]
      BY <1>1, <1>2 DEF Load, DriversTyped, NoDriver
    <2> QED
      BY <2>1, <2>2 DEF Minding, Agree
  <1>3. ASSUME NEW j \in Instances,
               LookUpKey(j) \/ Create(j) \/ PutKey(j) \/ Register(j) \/ Enroll(j) \/ StartDies(j)
                 \/ Park(j) \/ Elapse(j)
        PROVE  i \in wanted'
    BY <1>3 DEF LookUpKey, Create, PutKey, Register, Enroll, StartDies, Park, Elapse
  <1>4. ASSUME NEW d \in Drivers, Advance(d) \/ Crash(d) \/ \E j \in Instances : Cancel(d, j)
        PROVE  i \in wanted'
    BY <1>4 DEF Advance, Round, Replay, Perform, RegisterWaiter, ReadInbox, UnregisterWaiter, Save,
       Reload, Leave, Crash, Cancel
  <1>5. ASSUME NEW m \in Messages,
               \/ Signal(m) \/ PutInbox(m) \/ ReadWaiters(m) \/ WokenAll(m) \/ SignalDies(m)
               \/ \E j \in Instances : Wake(m, j)
        PROVE  i \in wanted'
    BY <1>5 DEF Signal, PutInbox, ReadWaiters, Wake, WokenAll, SignalDies
  <1> QED
    BY <1>2, <1>3, <1>4, <1>5 DEF Next

(* Only a step of its own moves a delivery.                                *)
LEMMA SigStep ==
  ASSUME Base, SentOK, Next, NEW m \in Messages
  PROVE  \/ sig'[m] = sig[m]
         \/ Signal(m) \/ PutInbox(m) \/ ReadWaiters(m) \/ WokenAll(m) \/ SignalDies(m)
         \/ \E i \in Instances : Wake(m, i)
  <1>1. ASSUME NEW n \in Messages, n # m,
               \/ Signal(n) \/ PutInbox(n) \/ ReadWaiters(n) \/ WokenAll(n) \/ SignalDies(n)
               \/ \E i \in Instances : Wake(n, i)
        PROVE  sig'[m] = sig[m]
    BY <1>1, SigTyped DEF Signal, PutInbox, ReadWaiters, WokenAll, SignalDies, Wake
  <1>2. ASSUME NEW i \in Instances,
               LookUpKey(i) \/ Create(i) \/ PutKey(i) \/ Register(i) \/ Enroll(i) \/ StartDies(i)
                 \/ Park(i) \/ Elapse(i)
        PROVE  UNCHANGED sig
    BY <1>2 DEF LookUpKey, Create, PutKey, Register, Enroll, StartDies, Park, Elapse
  <1>3. ASSUME NEW d \in Drivers,
               Advance(d) \/ Crash(d) \/ \E i \in Instances : Load(d, i) \/ Cancel(d, i)
        PROVE  UNCHANGED sig
    BY <1>3 DEF Advance, Round, Replay, Perform, RegisterWaiter, ReadInbox, UnregisterWaiter, Save,
                Reload, Leave, Crash, Load, Cancel
  <1> QED
    BY <1>1, <1>2, <1>3 DEF Next

(* A delivery on its way to an instance's wait comes to it, unless it      *)
(* reads the waiters while the instance is not one of them.                *)
LEMMA PendingStep ==
  ASSUME Base, SentOK, Next, NEW m \in Messages, NEW i \in Instances, NEW k \in WaitSteps,
         Pending(m, i, k), inst[i].status = "waiting", m \notin inst[i].consumed
  PROVE  Pending(m, i, k)' \/ i \in wanted' \/ (ReadWaiters(m) /\ i \notin waiters[k])
  <1>1. /\ sig \in [Messages -> Delivery] /\ k \in Nat /\ k > 0
        /\ sig[m].step \in Nat /\ waiters \in [WaitSteps -> SUBSET Instances]
        /\ sig[m] \in Delivery
    BY SigTyped DEF WaitSteps, Steps
  <1>2. CASE sig'[m] = sig[m]
    BY <1>2 DEF Pending
  <1>3. CASE Signal(m)
    BY <1>3 DEF Signal, Pending
  <1>4. CASE PutInbox(m)
    <2>1. sig'[m].stage = "look" /\ sig'[m].step = sig[m].step
      <3>1. sig'[m] = [sig[m] EXCEPT !.stage = "look"]
        BY <1>4, PutInboxBase
      <3> QED
        BY <1>1, <3>1 DEF Delivery
    <2>2. sig[m].step <= k
      BY <1>4 DEF Pending, PutInbox
    <2> QED
      BY <2>1, <2>2 DEF Pending
  <1>5. CASE ReadWaiters(m) /\ i \in waiters[k]
    <2>1. sig[m].step \in WaitSteps /\ sig[m].step <= k
      BY <1>5 DEF SentOK, ReadWaiters, Pending
    <2>2. /\ sig'[m].stage = "wake" /\ sig'[m].step = sig[m].step
          /\ sig'[m].todo = waiters[sig[m].step]
      <3>1. sig'[m] = [sig[m] EXCEPT !.stage = "wake", !.todo = waiters[sig[m].step]]
        BY <1>5, <2>1, ReadWaitersBase
      <3> QED
        BY <1>1, <3>1 DEF Delivery
    <2> QED
      BY <1>1, <1>5, <2>1, <2>2 DEF Pending
  <1>6. CASE WokenAll(m)
    <2>1. sig[m].step < k
      BY <1>6 DEF WokenAll, Pending
    <2>2. NextWait(sig[m].step) # 0 /\ NextWait(sig[m].step) <= k
      BY <1>1, <2>1, NextWaitOK
    <2>3. sig'[m].stage = "put" /\ sig'[m].step = NextWait(sig[m].step)
      <3> DEFINE p == NextWait(sig[m].step)
      <3>1. sig'[m] = [stage |-> IF p = 0 THEN "acked" ELSE "put", step |-> p, todo |-> {}]
        BY <1>6, WokenAllBase
      <3> HIDE DEF p
      <3>2. sig'[m].stage = "put" /\ sig'[m].step = p
        BY <2>2, <3>1 DEF p
      <3> QED
        BY <3>2 DEF p
    <2> QED
      BY <2>2, <2>3 DEF Pending
  <1>7. CASE SignalDies(m)
    <2>1. NextWait(0) <= k
      BY <1>1, NextWaitOK
    <2>2. sig'[m].stage = "put" /\ sig'[m].step = NextWait(0)
      BY <1>7, SignalDiesBase
    <2> QED
      BY <2>1, <2>2 DEF Pending
  <1>8. ASSUME NEW j \in Instances, Wake(m, j)
        PROVE  Pending(m, i, k)' \/ i \in wanted'
    <2>1. /\ sig'[m].stage = "wake" /\ sig[m].stage = "wake" /\ sig'[m].step = sig[m].step
          /\ sig'[m].todo = sig[m].todo \ {j}
      BY <1>1, <1>8, WakeBase DEF Delivery, Wake
    <2>2. CASE i = j
      BY <1>8, <2>2 DEF Wake
    <2>3. CASE i # j
      BY <2>1, <2>3 DEF Pending
    <2> QED
      BY <2>2, <2>3
  <1> QED
    BY <1>2, <1>3, <1>4, <1>5, <1>6, <1>7, <1>8, SigStep

LEMMA RegisteredNext ==
  ASSUME Base, SentOK, WaitsOK, Registered, Next, \A d \in Drivers : ~Crash(d)
  PROVE  Registered'
  <1> SUFFICES ASSUME NEW i \in Instances, inst'[i] # None, inst'[i].status = "waiting",
                      i \notin waiters'[inst'[i].pc]
               PROVE  /\ CanEnd(inbox', elapsed'[i], inst'[i])
                      /\ \E d \in Drivers : InHand(d, i)'
    BY DEF Registered
  <1>1. Base' /\ InstStep /\ StoredTyped /\ DriversTyped
    BY BaseNext, TypesSplit DEF Base
  <1>2. CASE inst[i] # None /\ Agree(inst'[i], inst[i])
    <2>1. /\ inst[i].status = "waiting" /\ inst'[i].pc = inst[i].pc /\ inst[i].pc \in WaitSteps
          /\ inst[i] \in Document
      BY <1>1, <1>2 DEF Agree, Base, InstOK, DocOK, StoredTyped
    <2>2. CASE i \notin waiters[inst[i].pc]
      <3>1. CanEnd(inbox, elapsed[i], inst[i])
        BY <1>2, <2>1, <2>2 DEF Registered
      <3>2. PICK d \in Drivers : InHand(d, i)
        BY <1>2, <2>1, <2>2 DEF Registered
      <3>3. CanEnd(inbox', elapsed'[i], inst'[i])
        BY <1>2, <2>1, <3>1, CanEndStays
      <3>4. Minding(d, i)'
        <4>1. ASSUME dpc[d] = "inbox", Agree(inst[i], drv[d].copy), Unconsumed(drv[d].copy) = {},
                     ~ (drv[d].due /\ Program[drv[d].copy.pc].exit # None)
              PROVE  FALSE
          BY <3>1, <3>2, <4>1 DEF CanEnd, Unconsumed, Agree, InHand
        <4> QED
          BY <1>2, <2>1, <3>2, <4>1, MindingStep DEF InHand, Agree
      <3>5. ASSUME dpc'[d] = "inbox"
            PROVE  drv'[d].due \/ Unconsumed(drv[d].copy)' # {}
        <4>1. CASE dpc'[d] = dpc[d] /\ drv'[d] = drv[d]
          <5>1. drv[d].copy.pc \in WaitSteps
            BY <3>5, <4>1, AtWork DEF DriverAt, LabelOK, DocOK
          <5>2. inbox[drv[d].copy.pc] \subseteq inbox'[drv[d].copy.pc]
            BY <5>1, Grows
          <5> QED
            BY <3>2, <3>5, <4>1, <5>2 DEF InHand, Unconsumed
        <4>2. CASE Round(d)
          <5>1. Agree(inst[i], drv[d].copy) /\ drv[d].i = i /\ inbox' = inbox
            BY <3>2, <4>2 DEF InHand, Minding, Round, stored
          <5>2. drv'[d].due = (drv[d].copy.pc \in elapsed[i]) /\ drv'[d].copy = drv[d].copy
            <6>1. CASE Ends(d)
              BY <1>1, <3>5, <6>1 DEF Ends, DriversTyped
            <6>2. ASSUME NEW label, NEW n, Goes(d, label, n)
                  PROVE  drv'[d].due = (drv[d].copy.pc \in elapsed[i]) /\ drv'[d].copy = drv[d].copy
              BY <1>1, <5>1, <6>2 DEF Goes, DriversTyped, DrvRec
            <6> QED
              BY <4>2, <6>1, <6>2, RoundGoes
          <5> QED
            BY <3>1, <5>1, <5>2 DEF CanEnd, Unconsumed, Agree
        <4>3. ASSUME Advance(d), ~Round(d)
              PROVE  FALSE
          <5>1. dpc'[d] # "inbox"
            BY <1>1, <4>3 DEF Advance, Replay, Perform, RegisterWaiter, ReadInbox, UnregisterWaiter,
               Save, Reload, Leave, DriversTyped
          <5> QED
            BY <3>5, <5>1
        <4>4. ASSUME NEW j \in Instances, Load(d, j) \/ Cancel(d, j)
              PROVE  FALSE
          BY <1>1, <3>5, <4>4 DEF Load, Cancel, DriversTyped
        <4> QED
          BY <4>1, <4>2, <4>3, <4>4, DriverStep
      <3> QED
        BY <3>3, <3>4, <3>5 DEF InHand
    <2>3. CASE i \in waiters[inst[i].pc]
      <3>1. PICK d \in Drivers : UnregisterWaiter(d) /\ drv[d].i = i /\ drv[d].copy.pc = inst[i].pc
        BY <2>1, <2>3, WaitersStep
      <3>2. dpc[d] = "unregister" /\ drv[d].copy \in Document /\ drv[d].copy.status = "waiting"
            /\ DocOK(drv[d].copy) /\ Ahead(inst[i], drv[d].copy)
        BY <3>1, AtWork DEF UnregisterWaiter, DriverAt, LabelOK
      <3>3. Agree(inst[i], drv[d].copy)
        BY <2>1, <3>1, <3>2, AtSameWait DEF Live
      <3>4. CanEnd(inbox, elapsed[i], drv[d].copy)
        BY <3>1, <3>2 DEF WaitsOK, WaitAt
      <3>5. CanEnd(inbox', elapsed'[i], inst'[i])
        BY <1>2, <2>1, <3>1, <3>3, <3>4, CanEndStays DEF Agree
      <3>6. dpc'[d] = "save" /\ drv'[d].i = i
        BY <1>1, <3>1 DEF UnregisterWaiter, DriversTyped
      <3> QED
        BY <3>5, <3>6 DEF InHand, Minding
    <2> QED
      BY <2>2, <2>3
  <1>3. CASE ~ (inst[i] # None /\ Agree(inst'[i], inst[i]))
    <2>1. PICK d \in Drivers : Save(d) /\ Current(d) /\ drv[d].i = i
      BY <1>3, WaitingBegins
    <2> DEFINE n == drv[d].next
               saved == [n EXCEPT !.version = @ + 1]
    <2>2. /\ drv[d].copy = inst[i] /\ Agree(saved, n)
          /\ inst[i].status \in Live /\ Moves(inst[i], saved)
      BY <2>1, SaveAdvances
    <2>3. inst' = [inst EXCEPT ![i] = saved] /\ dpc[d] = "save" /\ waiters' = waiters
      BY <2>1 DEF Save
    <2> HIDE DEF saved
    <2>4. inst'[i] = saved
      BY <1>1, <2>3 DEF StoredTyped
    <2>5. n.status = "waiting" /\ saved.pc = inst[i].pc
      BY <2>2, <2>4 DEF Agree, Moves, Over
    <2>6. Agree(inst[i], drv[d].copy)
      BY <2>2 DEF Agree
    <2>7. i \in waiters[inst[i].pc]
      BY <2>1, <2>2, <2>3, <2>5, <2>6 DEF WaitsOK, WaitAt
    <2> QED
      BY <2>3, <2>4, <2>5, <2>7
  <1> QED
    BY <1>2, <1>3

LEMMA MindedNext ==
  ASSUME Base, SentOK, SignalsMinded, Registered, Next, \A d \in Drivers : ~Crash(d)
  PROVE  SignalsMinded'
  <1> SUFFICES ASSUME NEW i \in Instances, inst'[i] # None, inst'[i].status = "waiting",
                      NEW m \in inbox'[inst'[i].pc] \ inst'[i].consumed
               PROVE  (\E d \in Drivers : Minding(d, i)') \/ i \in wanted'
                        \/ Pending(m, i, inst[i].pc)'
    BY DEF SignalsMinded
  <1>1. Base' /\ InstStep /\ StoredTyped /\ DriversTyped /\ StoredTyped'
    BY BaseNext, TypesSplit, TypesSplitNext DEF Base
  <1>2. CASE inst[i] # None /\ Agree(inst'[i], inst[i])
    <2>1. /\ inst[i].status = "waiting" /\ inst[i].consumed = inst'[i].consumed
          /\ inst[i].pc \in WaitSteps
      BY <1>1, <1>2 DEF Agree, Base, InstOK, DocOK
    <2>2. PICK k \in WaitSteps : k = inst[i].pc /\ k = inst'[i].pc
      BY <1>2, <2>1 DEF Agree
    <2>3. m \in Messages
      BY <1>1, <2>2 DEF StoredTyped
    <2>4. Pending(m, i, k)' => Pending(m, i, inst[i].pc)'
      BY <2>2 DEF Pending
    (* A driver that minds the instance.                                    *)
    <2>5. ASSUME NEW d \in Drivers, Minding(d, i), m \in inbox[k]
          PROVE  Minding(d, i)'
      <3>1. ASSUME Agree(inst[i], drv[d].copy)
            PROVE  m \in Unconsumed(drv[d].copy)
        BY <2>1, <2>2, <2>5, <3>1 DEF Agree, Unconsumed
      <3> QED
        BY <1>2, <2>5, <3>1, MindingStep
    <2>6. CASE m \in inbox[k]
      <3>1. CASE \E d \in Drivers : Minding(d, i)
        BY <2>5, <2>6, <3>1
      <3>2. CASE i \in wanted
        BY <3>2, WantedStep
      <3>3. CASE Pending(m, i, k)
        <4>1. CASE ReadWaiters(m) /\ i \notin waiters[k]
          <5>1. PICK d \in Drivers : Minding(d, i)
            BY <1>2, <2>1, <2>2, <4>1 DEF Registered, InHand
          <5> QED
            BY <2>5, <2>6, <5>1
        <4> QED
          BY <2>1, <2>3, <2>4, <3>3, <4>1, PendingStep
      <3> QED
        BY <1>2, <2>1, <2>2, <2>6, <3>1, <3>2, <3>3 DEF SignalsMinded
    <2>7. CASE m \notin inbox[k]
      <3>1. PICK n \in Messages : PutInbox(n)
        BY <2>2, <2>7, Grows
      <3>2. n = m /\ sig[m].step = k
        BY <1>1, <2>2, <2>7, <3>1 DEF PutInbox, StoredTyped
      <3>3. sig'[m].stage = "look" /\ sig'[m].step = k
        <4>1. sig'[m] = [sig[m] EXCEPT !.stage = "look"] /\ sig[m] \in Delivery
          BY <2>3, <3>1, <3>2, PutInboxBase, SigTyped
        <4> QED
          BY <3>2, <4>1 DEF Delivery
      <3>4. k \in Nat
        BY DEF WaitSteps, Steps
      <3>5. Pending(m, i, k)'
        BY <3>3, <3>4 DEF Pending
      <3> QED
        BY <2>4, <3>5
    <2> QED
      BY <2>6, <2>7
  <1>3. CASE ~ (inst[i] # None /\ Agree(inst'[i], inst[i]))
    <2>1. PICK d \in Drivers : Save(d) /\ Current(d) /\ drv[d].i = i
      BY <1>3, WaitingBegins
    <2> DEFINE saved == [drv[d].next EXCEPT !.version = @ + 1]
    <2>2. /\ inst' = [inst EXCEPT ![i] = saved]
          /\ drv' = [drv EXCEPT ![d].copy = saved, ![d].next = None]
          /\ dpc' = [dpc EXCEPT ![d] = IF saved.status \in Over THEN "leave" ELSE "loop"]
      BY <2>1 DEF Save
    <2> HIDE DEF saved
    <2>3. inst'[i] = saved /\ drv'[d].copy = saved /\ drv'[d].i = i
      BY <1>1, <2>1, <2>2 DEF StoredTyped, DriversTyped, DrvRec
    <2>4. saved.status \notin Over
      BY <2>3 DEF Over
    <2>5. dpc'[d] = "loop"
      BY <1>1, <2>2, <2>4 DEF DriversTyped
    <2>6. Minding(d, i)'
      BY <2>3, <2>5 DEF Minding, Agree
    <2> QED
      BY <2>6
  <1> QED
    BY <1>2, <1>3

LEMMA SignalsNext ==
  ASSUME Base, SentOK, SignalsOK, [Next]_vars
  PROVE  SignalsOK'
  <1>1. CASE UNCHANGED vars
    <2>1. WaitsOK'
      BY WaitsNext DEF SignalsOK
    <2>2. SignalsMinded => SignalsMinded'
      BY <1>1 DEF vars, SignalsMinded, Minding, Pending
    <2>3. Registered => Registered'
      BY <1>1 DEF vars, Registered, InHand, Minding, CanEnd, Unconsumed
    <2> QED
      BY <1>1, <2>1, <2>2, <2>3 DEF SignalsOK, vars
  <1>2. CASE Next
    <2>1. WaitsOK'
      BY WaitsNext DEF SignalsOK
    <2>2. ASSUME crashes' = 0
          PROVE  SignalsMinded' /\ Registered'
      <3>1. crashes = 0 /\ \A d \in Drivers : ~Crash(d)
        BY <1>2, <2>2, CrashesGrow
      <3> QED
        BY <1>2, <3>1, MindedNext, RegisteredNext DEF SignalsOK
    <2> QED
      BY <2>1, <2>2 DEF SignalsOK
  <1> QED
    BY <1>1, <1>2

(* While no driver has died no signal is stranded between an inbox and an  *)
(* instance that waits for it: a wait registers its waiter before it saves *)
(* its status and looks at its inbox afterwards, and a delivery fills the  *)
(* inbox before it reads the waiters, so that one of the two sees the      *)
(* other.                                                                  *)
THEOREM NoStrandedSignalHolds == Spec => []NoStrandedSignal
  <1>1. Init => SignalsOK
    BY DEF Init, SignalsOK, WaitsOK, WaitAt, SignalsMinded, Registered
  <1>2. Base /\ SentOK /\ SignalsOK /\ [Next]_vars => SignalsOK'
    BY SignalsNext
  <1>3. Base /\ SignalsOK => NoStrandedSignal
    <2>1. ASSUME NEW d \in Drivers, NEW i \in Instances, Minding(d, i)
          PROVE  dpc[d] # "idle" /\ drv[d].i = i
      BY <2>1 DEF Minding
    <2>2. ASSUME NEW m, NEW i \in Instances, Pending(m, i, inst[i].pc)
          PROVE  sig[m].stage \notin {"unsent", "acked"}
      BY <2>2 DEF Pending
    <2> QED
      BY <2>1, <2>2 DEF SignalsOK, SignalsMinded, NoStrandedSignal
  <1> QED
    BY <1>1, <1>2, <1>3, BaseHolds, PTL DEF Spec
-----------------------------------------------------------------------------
(* Workflows implements WorkflowProcess.                                   *)

(* What has been performed stays so.                                       *)
LEMMA PerformedStays ==
  ASSUME Base, EffectsOK, [Next]_vars, NEW i \in Instances, NEW k \in Steps, effects[i][k] = 1
  PROVE  effects'[i][k] = 1
  <1>1. <<i, k, 0>> \in receipts
    BY DEF EffectsOK
  <1>2. receipts \subseteq receipts'
    <2>1. ASSUME NEW d \in Drivers, Perform(d)
          PROVE  receipts \subseteq receipts'
      BY <2>1 DEF Perform
    <2> QED
      BY <2>1, OnlyPerform DEF vars
  <1> QED
    BY <1>1, <1>2, EffectsNext DEF EffectsOK

(* More signals, more due timers and more performed activities leave every *)
(* way open that was.                                                      *)
LEMMA WaysStayOpen ==
  ASSUME Base, EffectsOK, [Next]_vars, NEW i \in Instances, NEW c, NEW n, Leads(i, c, n)
  PROVE  Leads(i, c, n)'
  <1> DEFINE v == View(c)
             w == View(n)
  <1>1. /\ \A k \in Steps : effects[i][k] = 1 => effects'[i][k] = 1
        /\ \A k \in WaitSteps : inbox[k] \subseteq inbox'[k]
        /\ elapsed[i] \subseteq elapsed'[i]
    BY PerformedStays, Grows DEF vars
  <1>2. w \in Process!After(i, v)
    BY DEF Leads
  <1>3. Process!Steps = Steps
    BY DEF Process!Steps, Steps
  <1> HIDE DEF v, w
  <1>4. w \in Process!After(i, v)'
    <2>1. CASE v.pc \notin Steps
      BY <1>2, <1>3, <2>1 DEF Process!After
    <2>2. CASE v.pc \in Steps /\ Program[v.pc].kind = "call"
      BY <1>1, <1>2, <1>3, <2>2 DEF Process!After, Process!AfterCall
    <2>3. CASE v.pc \in Steps /\ Program[v.pc].kind = "sleep"
      BY <1>1, <1>2, <1>3, <2>3 DEF Process!After, Process!AfterSleep
    <2>4. CASE v.pc \in Steps /\ Program[v.pc].kind = "wait"
      <3>1. v.pc \in WaitSteps
        BY <2>4 DEF WaitSteps
      <3> QED
        BY <1>1, <1>2, <1>3, <2>4, <3>1 DEF Process!After, Process!AfterWait
    <2>5. CASE v.pc \in Steps /\ Program[v.pc].kind \in {"choice", "return", "fail"}
      BY <1>2, <1>3, <2>5 DEF Process!After, Process!AfterChoice
    <2> QED
      BY <2>1, <2>2, <2>3, <2>4, <2>5, NodeTyped
  <1> QED
    BY <1>4 DEF Leads, v, w

(* The ways out of a call and of a wait.                                   *)
CallWays ==
  \A i \in Instances : \A c \in Document :
    c.pc \in Steps /\ Program[c.pc].kind = "call" =>
      /\ Leads(i, c, Finish(c, Program[c.pc].exit, c.pc))
      /\ effects[i][c.pc] = 1 /\ Proceed(c, c.pc, Program[c.pc].next) \in Document =>
           Leads(i, c, Proceed(c, c.pc, Program[c.pc].next))

LEMMA CallLeads == CallWays
  <1> SUFFICES ASSUME NEW i \in Instances, NEW c \in Document,
                      c.pc \in Steps, Program[c.pc].kind = "call"
               PROVE  /\ Leads(i, c, Finish(c, Program[c.pc].exit, c.pc))
                      /\ effects[i][c.pc] = 1
                           /\ Proceed(c, c.pc, Program[c.pc].next) \in Document =>
                           Leads(i, c, Proceed(c, c.pc, Program[c.pc].next))
    BY DEF CallWays
  <1>1. Process!After(i, View(c)) = Process!AfterCall(i, View(c)) /\ View(c).pc = c.pc
    BY AfterNode
  <1>2. Leads(i, c, Finish(c, Program[c.pc].exit, c.pc))
    BY <1>1, CallExit, ViewOfFinish DEF Leads, Process!AfterCall
  <1>3. ASSUME effects[i][c.pc] = 1, Proceed(c, c.pc, Program[c.pc].next) \in Document
        PROVE  Leads(i, c, Proceed(c, c.pc, Program[c.pc].next))
    BY <1>1, <1>3, ViewOfProceed DEF Leads, Process!AfterCall
  <1> QED
    BY <1>2, <1>3

LEMMA CallLeadsNext == CallWays'
  BY CallLeads, PTL

LEMMA WaitLeads ==
  ASSUME NEW i \in Instances, NEW c \in Document, c.pc \in WaitSteps
  PROVE  /\ c.status # "waiting" /\ [c EXCEPT !.status = "waiting"] \in Document =>
              Leads(i, c, [c EXCEPT !.status = "waiting"])
         /\ \A m \in Unconsumed(c) :
              LET n == [Proceed(c, c.pc, Program[c.pc].next) EXCEPT !.consumed = @ \cup {m}]
              IN  c.status = "waiting" /\ n \in Document => Leads(i, c, n)
         /\ c.status = "waiting" /\ c.pc \in elapsed[i] /\ Program[c.pc].exit # None =>
              Leads(i, c, Finish(c, Program[c.pc].exit, c.pc))
  <1>1. c.pc \in Steps /\ Program[c.pc].kind = "wait"
    BY DEF WaitSteps
  <1>2. /\ Process!After(i, View(c)) = Process!AfterWait(i, View(c))
        /\ View(c).pc = c.pc /\ View(c).status = c.status /\ View(c).consumed = c.consumed
    BY <1>1, AfterNode
  <1>3. ASSUME c.status # "waiting", [c EXCEPT !.status = "waiting"] \in Document
        PROVE  Leads(i, c, [c EXCEPT !.status = "waiting"])
    BY <1>2, <1>3, ViewOfEntry DEF Leads, Process!AfterWait
  <1>4. ASSUME NEW m \in Unconsumed(c), c.status = "waiting",
               [Proceed(c, c.pc, Program[c.pc].next) EXCEPT !.consumed = @ \cup {m}] \in Document
        PROVE  Leads(i, c, [Proceed(c, c.pc, Program[c.pc].next) EXCEPT !.consumed = @ \cup {m}])
    <2> DEFINE q == Program[c.pc].next
               n == [Proceed(c, c.pc, q) EXCEPT !.consumed = @ \cup {m}]
    <2>1. n \in Document
      BY <1>4
    <2>2. View(n) = [Process!Gone(View(c), q) EXCEPT !.consumed = @ \cup {m}]
      BY <2>1, ViewOfConsume
    <2>3. m \in inbox[c.pc] \ c.consumed
      BY <1>4 DEF Unconsumed
    <2> HIDE DEF n
    <2>4. Leads(i, c, n)
      BY <1>2, <1>4, <2>2, <2>3 DEF Leads, Process!AfterWait
    <2> QED
      BY <2>4 DEF n
  <1>5. ASSUME c.status = "waiting", c.pc \in elapsed[i], Program[c.pc].exit # None
        PROVE  Leads(i, c, Finish(c, Program[c.pc].exit, c.pc))
    <2>1. Program[c.pc].exit \in Over
      BY <1>1, <1>5, NodeTyped DEF Over
    <2> QED
      BY <1>1, <1>2, <1>5, <2>1, ViewOfFinish DEF Leads, Process!AfterWait
  <1> QED
    BY <1>3, <1>4, <1>5

(* A call is left for another position only when it was performed.         *)
LEMMA CallLeft ==
  ASSUME NEW i \in Instances, NEW c \in Document, NEW n \in Document, Leads(i, c, n),
         c.pc \in Steps, Program[c.pc].kind = "call"
  PROVE  n.pc = c.pc \/ effects[i][c.pc] = 1
  <1> DEFINE k == c.pc
             v == View(c)
  <1>1. View(n).pc = n.pc
    BY Viewed
  <1>2. View(n) \in Process!AfterCall(i, v) /\ v.pc = k
    BY AfterNode DEF Leads
  <1>3. CASE View(n) = Process!Ended(v, Program[k].exit, k)
    <2>1. /\ View(Finish(c, Program[k].exit, k)) = View(n)
          /\ Finish(c, Program[k].exit, k) \in Document
      BY <1>3, CallExit, ViewOfFinish, FinishOK
    <2>2. Finish(c, Program[k].exit, k).pc = k
      BY DEF Finish, Document
    <2> HIDE DEF k
    <2> QED
      BY <1>1, <2>1, <2>2, Viewed DEF k
  <1> QED
    BY <1>2, <1>3 DEF Process!AfterCall

(* A save that is not lost takes the instance where the program leads.     *)
LEMMA SaveLeads ==
  ASSUME Base, RunOK, NEW d \in Drivers, Save(d), Current(d)
  PROVE  LET i == drv[d].i
             saved == [drv[d].next EXCEPT !.version = @ + 1]
         IN  /\ i \in Instances /\ inst[i] \in Document /\ inst[i] # None /\ inst[i].status \in Live
             /\ saved \in Document /\ inst' = [inst EXCEPT ![i] = saved]
             /\ Leads(i, inst[i], saved)
  <1> DEFINE i == drv[d].i
             n == drv[d].next
             saved == [n EXCEPT !.version = @ + 1]
  <1>1. /\ dpc[d] = "save" /\ inst' = [inst EXCEPT ![i] = saved]
    BY DEF Save
  <1>2. i \in Instances /\ inst[i] \in Document /\ inst[i] # None /\ n \in Document
    BY <1>1, AtWork
  <1>3. /\ drv[d].copy = inst[i] /\ inst[i].status \in Live
        /\ saved \in Document /\ Agree(saved, n)
    BY SaveAdvances DEF Advanced
  <1>4. Leads(i, inst[i], n)
    BY <1>1, <1>3 DEF RunOK, Led
  <1> HIDE DEF n, saved, i
  <1>5. View(saved) = View(n)
    BY <1>2, <1>3, ViewOfAgreeing
  <1>6. Leads(i, inst[i], saved)
    BY <1>4, <1>5 DEF Leads
  <1> QED
    BY <1>1, <1>2, <1>3, <1>6 DEF n, saved, i

(* An instance goes past a call only when it was performed.                *)
LEMMA PositionStays ==
  ASSUME Base, EffectsOK, RunOK, Next, NEW i \in Instances, inst[i] # None,
         inst[i].pc \in Steps, Program[inst[i].pc].kind = "call"
  PROVE  inst'[i].pc = inst[i].pc \/ effects'[i][inst[i].pc] = 1
  <1>1. inst \in [Instances -> Document \cup {None}] /\ inst[i] \in Document
    BY TypesSplit DEF Base, StoredTyped
  <1>2. ASSUME NEW j \in Instances, Create(j) \/ Park(j)
        PROVE  inst'[i].pc = inst[i].pc
    <2>1. CASE j = i /\ Create(j)
      BY <2>1 DEF Create, Base, StartOK
    <2>2. CASE j = i /\ Park(j)
      <3>1. [inst[i] EXCEPT !.version = @ + 1].pc = inst[i].pc
        BY <1>1, BumpOK DEF Agree
      <3>2. inst'[i] = [inst[i] EXCEPT !.version = @ + 1]
        BY <1>1, <2>2 DEF Park
      <3> QED
        BY <3>1, <3>2
    <2>3. CASE j # i
      BY <1>1, <1>2, <2>3 DEF Create, Park
    <2> QED
      BY <1>2, <2>1, <2>2, <2>3
  <1>3. ASSUME NEW d \in Drivers, NEW j \in Instances, Cancel(d, j)
        PROVE  inst'[i].pc = inst[i].pc
    <2>1. CASE j = i
      <3> DEFINE at == IF inst[i].status = "running" THEN 0 ELSE inst[i].pc
      <3>1. inst'[i] = [Finish(inst[i], "cancelled", at) EXCEPT !.version = @ + 1]
        BY <1>1, <1>3, <2>1 DEF Cancel
      <3> HIDE DEF at
      <3>2. [Finish(inst[i], "cancelled", at) EXCEPT !.version = @ + 1].pc = inst[i].pc
        BY <1>1 DEF Finish, Document
      <3> QED
        BY <3>1, <3>2
    <2>2. CASE j # i
      BY <1>1, <1>3, <2>2 DEF Cancel
    <2> QED
      BY <2>1, <2>2
  <1>4. ASSUME NEW d \in Drivers, Save(d)
        PROVE  inst'[i].pc = inst[i].pc \/ effects'[i][inst[i].pc] = 1
    <2>1. CASE ~Current(d)
      BY <1>4, <2>1 DEF Save
    <2>2. CASE Current(d) /\ drv[d].i # i
      BY <1>1, <1>4, <2>2, SaveLeads
    <2>3. CASE Current(d) /\ drv[d].i = i
      <3>1. inst'[i] \in Document /\ Leads(i, inst[i], inst'[i])
        BY <1>1, <1>4, <2>3, SaveLeads
      <3>2. inst'[i].pc = inst[i].pc \/ effects[i][inst[i].pc] = 1
        BY <1>1, <3>1, CallLeft
      <3> QED
        BY <3>2, PerformedStays
    <2> QED
      BY <2>1, <2>2, <2>3
  <1> QED
    BY <1>2, <1>3, <1>4, StepWritesNone

LEMMA CallMadeStays ==
  ASSUME Base, EffectsOK, RunOK, Next, NEW d \in Drivers, dpc[d] # "idle",
         drv'[d].i = drv[d].i, drv'[d].copy = drv[d].copy
  PROVE  CallMade(d)'
  <1> DEFINE i == drv[d].i
             c == drv[d].copy
  <1>1. i \in Instances /\ inst[i] # None
    BY AtWork
  <1>2. CASE c.status \in Live /\ c.pc \in Steps /\ Program[c.pc].kind = "call"
    <2>1. inst[i].pc = c.pc \/ effects[i][c.pc] = 1
      BY <1>2 DEF RunOK, CallMade
    <2>2. inst'[i].pc = c.pc \/ effects'[i][c.pc] = 1
      BY <1>1, <1>2, <2>1, PositionStays, PerformedStays
    <2> QED
      BY <2>2 DEF CallMade
  <1> QED
    BY <1>2 DEF CallMade

LEMMA LedTo ==
  ASSUME Base, EffectsOK, [Next]_vars, NEW d \in Drivers,
         NEW i \in Instances, NEW c, NEW n, Leads(i, c, n),
         drv'[d].i = i, drv'[d].copy = c, drv'[d].next = n
  PROVE  Led(d)'
  <1>1. Leads(i, c, n)'
    BY WaysStayOpen
  <1> QED
    BY <1>1 DEF Led, Leads

LEMMA CallLedTo ==
  ASSUME NEW d \in Drivers, NEW i \in Instances, NEW c \in Document,
         c.pc \in Steps, Program[c.pc].kind = "call",
         Proceed(c, c.pc, Program[c.pc].next) \in Document,
         drv'[d].i = i, drv'[d].copy = c,
         \/ drv'[d].next = Proceed(c, c.pc, Program[c.pc].next) /\ effects'[i][c.pc] = 1
         \/ drv'[d].next = Finish(c, Program[c.pc].exit, c.pc)
  PROVE  Led(d)'
  <1> DEFINE n == Proceed(c, c.pc, Program[c.pc].next)
             f == Finish(c, Program[c.pc].exit, c.pc)
  <1>1. Leads(i, c, f)' /\ (effects'[i][c.pc] = 1 => Leads(i, c, n)')
    BY CallLeadsNext DEF CallWays
  <1> QED
    BY <1>1 DEF Led, Leads

(* A driver that does nothing.                                             *)
LEMMA OtherRun ==
  ASSUME Base, EffectsOK, RunOK, Next, NEW d \in Drivers, dpc'[d] = dpc[d], drv'[d] = drv[d]
  PROVE  Led(d)' /\ CallMade(d)'
  <1>1. CASE dpc[d] = "idle"
    BY <1>1 DEF Led, CallMade
  <1>2. CASE dpc[d] # "idle"
    <2>1. CallMade(d)'
      BY <1>2, CallMadeStays
    <2>2. drv[d].i \in Instances
      BY <1>2, AtWork
    <2>3. dpc[d] \in {"unregister", "save"} => Led(d)'
      BY <2>2, LedTo DEF RunOK, Led
    <2>4. dpc[d] \notin {"unregister", "save"} => Led(d)'
      BY DEF Led
    <2> QED
      BY <2>1, <2>3, <2>4
  <1> QED
    BY <1>1, <1>2

(* The steps of a driver, by what they leave it with.                      *)

LEMMA CallRun ==
  ASSUME Base, EffectsOK, RunOK, Next, NEW d \in Drivers, Replay(d) \/ Perform(d)
  PROVE  Led(d)' /\ CallMade(d)'
  <1> DEFINE i == drv[d].i
             c == drv[d].copy
             k == c.pc
             n == Proceed(c, k, Program[k].next)
             f == Finish(c, Program[k].exit, k)
  <1>1. /\ dpc[d] \in {"call", "perform"}
        /\ dpc \in [Drivers -> DriverLabels] /\ drv \in [Drivers -> DrvRec]
    BY TypesSplit DEF Replay, Perform, Base, DriversTyped
  <1>2. /\ i \in Instances /\ c \in Document /\ DocOK(c) /\ drv[d] \in DrvRec
        /\ c.status \in Live /\ k \in Steps /\ Program[k].kind = "call"
    BY <1>1, AtWork DEF DriverAt, LabelOK
  <1>3. StepKey(i, c, k) = <<i, k, 0>>
    BY <1>2, FirstPass
  <1>4. n \in Document
    BY <1>2, NodeTyped, SuccessorLater, ProceedOK DEF WaitSteps
  <1>5. EffectsOK'
    BY EffectsNext
  <1>6. /\ drv'[d].i = i /\ drv'[d].copy = c
        /\ dpc'[d] = "save" =>
             \/ drv'[d].next = n /\ <<i, k, 0>> \in receipts'
             \/ drv'[d].next = f
        /\ dpc'[d] # "unregister"
    <2>1. CASE Replay(d)
      <3>1. receipts' = receipts
        BY <2>1 DEF Replay, stored
      <3> HIDE DEF n, f, i, k
      <3> QED
        BY <1>1, <1>2, <1>3, <2>1, <3>1 DEF Replay, n, i, k, DrvRec
    <2>2. CASE Perform(d)
      <3> HIDE DEF n, f, i, k
      <3> QED
        BY <1>1, <1>2, <1>3, <2>2 DEF Perform, n, f, i, k, DrvRec
    <2> QED
      BY <2>1, <2>2
  <1> HIDE DEF i, c, k, n, f
  <1>7. <<i, k, 0>> \in receipts' => effects'[i][k] = 1
    BY <1>2, <1>5 DEF EffectsOK
  <1>8. dpc'[d] = "save" => Led(d)'
    BY <1>2, <1>4, <1>6, <1>7, CallLedTo DEF k, n, f
  <1>9. dpc'[d] # "save" => Led(d)'
    BY <1>6 DEF Led
  <1> QED
    BY <1>1, <1>6, <1>8, <1>9, CallMadeStays DEF i, c

LEMMA RoundRun ==
  ASSUME Base, EffectsOK, RunOK, Next, NEW d \in Drivers, Round(d)
  PROVE  Led(d)' /\ CallMade(d)'
  <1>1. /\ dpc[d] = "loop" /\ dpc \in [Drivers -> DriverLabels] /\ drv \in [Drivers -> DrvRec]
        /\ drv[d].i \in Instances
    BY AtWork, TypesSplit DEF Round, Base, DriversTyped
  <1>2. CASE Ends(d)
    BY <1>1, <1>2 DEF Ends, Led, CallMade
  <1>3. ASSUME NEW label \in {"call", "register", "inbox", "save"}, NEW n \in Document \cup {None},
               Goes(d, label, n), label = "save" => Leads(drv[d].i, drv[d].copy, n)
        PROVE  Led(d)' /\ CallMade(d)'
    <2>1. /\ drv'[d].i = drv[d].i /\ drv'[d].copy = drv[d].copy /\ drv'[d].next = n
          /\ dpc'[d] = label
      BY <1>1, <1>3 DEF Goes, DrvRec
    <2>2. label = "save" => Led(d)'
      BY <1>1, <1>3, <2>1, LedTo
    <2>3. label # "save" => Led(d)'
      BY <2>1 DEF Led
    <2>4. CallMade(d)'
      BY <1>1, <2>1, CallMadeStays
    <2> QED
      BY <2>2, <2>3, <2>4
  <1> QED
    BY <1>2, <1>3, RoundGoes

LEMMA WaitRun ==
  ASSUME Base, WaitsOK, EffectsOK, RunOK, Next, NEW d \in Drivers,
         RegisterWaiter(d) \/ ReadInbox(d) \/ UnregisterWaiter(d)
  PROVE  Led(d)' /\ CallMade(d)'
  <1> DEFINE i == drv[d].i
             c == drv[d].copy
             k == c.pc
  <1>1. /\ dpc[d] \in {"register", "inbox", "unregister"}
        /\ dpc \in [Drivers -> DriverLabels] /\ drv \in [Drivers -> DrvRec]
    BY TypesSplit DEF RegisterWaiter, ReadInbox, UnregisterWaiter, Base, DriversTyped
  <1>2. /\ i \in Instances /\ c \in Document /\ DocOK(c) /\ drv[d] \in DrvRec
        /\ LabelOK(dpc[d], c, drv[d].next)
    BY <1>1, AtWork DEF DriverAt
  <1>3. ASSUME NEW n, Leads(i, c, n), drv' = [drv EXCEPT ![d].next = n]
        PROVE  Led(d)' /\ CallMade(d)'
    <2>1. drv'[d].i = i /\ drv'[d].copy = c /\ drv'[d].next = n
      BY <1>1, <1>2, <1>3 DEF DrvRec
    <2>2. Led(d)'
      BY <1>2, <1>3, <2>1, LedTo
    <2> QED
      BY <1>1, <2>1, <2>2, CallMadeStays
  <1>4. CASE RegisterWaiter(d)
    <2> DEFINE n == [c EXCEPT !.status = "waiting"]
    <2>1. c.status = "running" /\ k \in WaitSteps
      BY <1>2, <1>4 DEF RegisterWaiter, LabelOK
    <2>2. n \in Document
      BY <1>2, <2>1, EnterOK DEF WaitSteps
    <2>3. Leads(i, c, n)
      BY <1>2, <2>1, <2>2, WaitLeads
    <2>4. drv' = [drv EXCEPT ![d].next = n]
      BY <1>4 DEF RegisterWaiter
    <2> HIDE DEF n
    <2> QED
      BY <1>3, <2>3, <2>4
  <1>5. CASE ReadInbox(d)
    <2>1. c.status = "waiting" /\ k \in WaitSteps /\ k \in Steps
      BY <1>2, <1>5 DEF ReadInbox, LabelOK, DocOK, WaitSteps
    <2>2. CASE \E m \in Unconsumed(c) :
                 drv' = [drv EXCEPT ![d].next =
                     [Proceed(c, k, Program[k].next) EXCEPT !.consumed = @ \cup {m}]]
      <3>1. PICK m \in Unconsumed(c) :
                 drv' = [drv EXCEPT ![d].next =
                     [Proceed(c, k, Program[k].next) EXCEPT !.consumed = @ \cup {m}]]
        BY <2>2
      <3> DEFINE n == [Proceed(c, k, Program[k].next) EXCEPT !.consumed = @ \cup {m}]
      <3>2. m \in Messages \ c.consumed
        BY <2>1, TypesSplit DEF Base, StoredTyped, Unconsumed
      <3>3. Program[k].next \in Nat /\ Later(Program[k].next, k)
        BY <2>1, NodeTyped, SuccessorLater
      <3>4. n \in Document
        BY <1>2, <2>1, <3>2, <3>3, ConsumeOK DEF Live
      <3>5. Leads(i, c, n)
        BY <1>2, <2>1, <3>4, WaitLeads
      <3> HIDE DEF n, c, i
      <3> QED
        BY <1>3, <3>1, <3>5 DEF n
    <2>3. CASE /\ drv[d].due /\ Program[k].exit # None
               /\ drv' = [drv EXCEPT ![d].next = Finish(c, Program[k].exit, k)]
      <3>1. k \in elapsed[i]
        BY <1>5, <2>3 DEF ReadInbox, WaitsOK, WaitAt
      <3>2. Leads(i, c, Finish(c, Program[k].exit, k))
        BY <1>2, <2>1, <2>3, <3>1, WaitLeads
      <3> HIDE DEF c, k, i
      <3> QED
        BY <1>3, <2>3, <3>2
    <2>4. CASE dpc' = [dpc EXCEPT ![d] = "idle"]
      BY <1>1, <2>4 DEF Led, CallMade
    <2> QED
      BY <1>5, <2>2, <2>3, <2>4 DEF ReadInbox
  <1>6. CASE UnregisterWaiter(d)
    <2>1. dpc[d] = "unregister" /\ drv' = drv
      BY <1>6 DEF UnregisterWaiter
    <2>2. Leads(i, c, drv[d].next)
      BY <2>1 DEF RunOK, Led
    <2>3. Led(d)'
      BY <1>2, <2>1, <2>2, LedTo
    <2> QED
      BY <1>1, <2>1, <2>3, CallMadeStays
  <1> QED
    BY <1>4, <1>5, <1>6

(* A driver that has just read or written its instance is not behind.      *)
LEMMA AbreastRun ==
  ASSUME NEW d \in Drivers, dpc'[d] \notin {"unregister", "save"},
         drv'[d].copy = inst'[drv'[d].i]
  PROVE  Led(d)' /\ CallMade(d)'
  BY DEF Led, CallMade

LEMMA StoreRun ==
  ASSUME Base, EffectsOK, RunOK, Next, NEW d \in Drivers,
         Save(d) \/ Reload(d) \/ Leave(d) \/ Crash(d)
           \/ \E i \in Instances : Load(d, i) \/ Cancel(d, i)
  PROVE  Led(d)' /\ CallMade(d)'
  <1>1. /\ dpc \in [Drivers -> DriverLabels] /\ drv \in [Drivers -> DrvRec]
        /\ inst \in [Instances -> Document \cup {None}]
    BY TypesSplit DEF Base, DriversTyped, StoredTyped
  <1>2. CASE Save(d) /\ Current(d)
    <2> DEFINE saved == [drv[d].next EXCEPT !.version = @ + 1]
               label == IF saved.status \in Over THEN "leave" ELSE "loop"
    <2>1. /\ drv' = [drv EXCEPT ![d].copy = saved, ![d].next = None]
          /\ dpc' = [dpc EXCEPT ![d] = label] /\ label \notin {"unregister", "save"}
      BY <1>2 DEF Save
    <2>2. drv[d].i \in Instances /\ inst' = [inst EXCEPT ![drv[d].i] = saved]
      BY <1>2, SaveLeads
    <2> HIDE DEF saved, label
    <2>3. drv'[d].i = drv[d].i /\ drv'[d].copy = saved /\ dpc'[d] = label
      BY <1>1, <2>1 DEF DrvRec
    <2> QED
      BY <1>1, <2>1, <2>2, <2>3, AbreastRun
  <1>3. CASE (Save(d) /\ ~Current(d)) \/ Leave(d)
    <2>1. /\ dpc[d] # "idle" /\ dpc'[d] \notin {"unregister", "save"}
          /\ drv'[d].i = drv[d].i /\ drv'[d].copy = drv[d].copy
      BY <1>1, <1>3 DEF Save, Leave, DrvRec
    <2> QED
      BY <2>1, CallMadeStays DEF Led
  <1>4. CASE Reload(d)
    <2>1. dpc'[d] = "loop" /\ drv'[d].i = drv[d].i /\ drv'[d].copy = inst[drv[d].i] /\ inst' = inst
      BY <1>1, <1>4 DEF Reload, stored, DrvRec
    <2> QED
      BY <2>1, AbreastRun
  <1>5. ASSUME NEW i \in Instances, Load(d, i)
        PROVE  Led(d)' /\ CallMade(d)'
    <2>1. dpc'[d] = "loop" /\ drv'[d].i = i /\ drv'[d].copy = inst[i] /\ inst' = inst
      BY <1>1, <1>5 DEF Load, stored, NoDriver
    <2> QED
      BY <2>1, AbreastRun
  <1>6. ASSUME NEW i \in Instances, Cancel(d, i)
        PROVE  Led(d)' /\ CallMade(d)'
    <2>1. dpc'[d] = "leave" /\ drv'[d].i = i /\ drv'[d].copy = inst'[i]
      BY <1>1, <1>6 DEF Cancel, NoDriver
    <2> QED
      BY <2>1, AbreastRun
  <1>7. CASE Crash(d)
    BY <1>1, <1>7 DEF Crash, Led, CallMade
  <1> QED
    BY <1>2, <1>3, <1>4, <1>5, <1>6, <1>7

LEMMA RunNext ==
  ASSUME Base, SentOK, WaitsOK, EffectsOK, RunOK, [Next]_vars
  PROVE  RunOK'
  <1>1. CASE UNCHANGED vars
    <2>1. ASSUME NEW d \in Drivers
          PROVE  Led(d)' /\ CallMade(d)'
      <3>1. UNCHANGED <<inst, dpc, drv, effects>>
        BY <1>1 DEF vars
      <3>2. CallMade(d)'
        BY <3>1 DEF RunOK, CallMade
      <3>3. CASE dpc[d] \in {"unregister", "save"}
        <4>1. drv[d].i \in Instances
          BY <3>3, AtWork
        <4>2. Leads(drv[d].i, drv[d].copy, drv[d].next)
          BY <3>3 DEF RunOK, Led
        <4>3. drv'[d].i = drv[d].i /\ drv'[d].copy = drv[d].copy /\ drv'[d].next = drv[d].next
          BY <3>1
        <4> QED
          BY <3>2, <4>1, <4>2, <4>3, LedTo
      <3>4. CASE dpc[d] \notin {"unregister", "save"}
        BY <3>1, <3>2, <3>4 DEF Led
      <3> QED
        BY <3>3, <3>4
    <2> QED
      BY <2>1 DEF RunOK
  <1>2. CASE Next
    <2>1. ASSUME NEW d \in Drivers
          PROVE  Led(d)' /\ CallMade(d)'
      <3>1. CASE dpc'[d] = dpc[d] /\ drv'[d] = drv[d]
        BY <1>2, <3>1, OtherRun
      <3>2. CASE Advance(d) \/ Crash(d) \/ \E i \in Instances : Load(d, i) \/ Cancel(d, i)
        BY <1>2, <3>2, CallRun, RoundRun, WaitRun, StoreRun DEF Advance
      <3> QED
        BY <1>2, <3>1, <3>2, DriverStep
    <2> QED
      BY <2>1 DEF RunOK
  <1> QED
    BY <1>1, <1>2

(* The processes, as the instances' documents show them.                   *)
Views == [i \in Instances |-> View(inst[i])]

LEMMA ViewsWritten ==
  ASSUME Base, NEW i \in Instances, NEW b, inst' = [inst EXCEPT ![i] = b]
  PROVE  Views' = [Views EXCEPT ![i] = View(b)]
  <1>1. inst \in [Instances -> Document \cup {None}]
    BY TypesSplit DEF Base, StoredTyped
  <1>2. inst'[i] = b /\ \A j \in Instances : j # i => inst'[j] = inst[j]
    BY <1>1
  <1>3. \A j \in Instances : Views'[j] = View(inst'[j]) /\ Views[j] = View(inst[j])
    BY DEF Views
  <1>4. \A j \in Instances : Views'[j] = [Views EXCEPT ![i] = View(b)][j]
    BY <1>2, <1>3 DEF Views
  <1> QED
    BY <1>4 DEF Views

LEMMA ViewsStarted ==
  ASSUME Base, NEW i \in Instances
  PROVE  /\ Views[i] = View(inst[i])
         /\ Process!Started(i) <=> inst[i] # None
         /\ inst[i] # None =>
              /\ inst[i] \in Document
              /\ Views[i].status = inst[i].status /\ Views[i].pc = inst[i].pc
              /\ Process!Underway(i) <=> inst[i].status \in Live
  <1>1. inst[i] # None => inst[i] \in Document
    BY TypesSplit DEF Base, StoredTyped
  <1>2. Views[i] = View(inst[i]) /\ View(None) = None
    BY DEF Views, View
  <1>3. Process!Started(i) <=> Views[i] # None
    BY DEF Process!Started, Views
  <1>4. Process!Underway(i) <=> Views[i] # None /\ Views[i].status \in Live
    BY DEF Process!Underway, Process!Started, Views, Live
  <1> QED
    BY <1>1, <1>2, <1>3, <1>4, Viewed

LEMMA CreateStarts ==
  ASSUME Base, NEW i \in Instances, Create(i)
  PROVE  Process!Start(i)
  <1>1. /\ inst[i] = None /\ inst' = [inst EXCEPT ![i] = FreshInstance]
        /\ UNCHANGED <<effects, inbox, elapsed>>
    BY DEF Create, Base, StartOK, history
  <1>2. View(FreshInstance) =
          [status |-> "running", pc |-> 1, consumed |-> {}, history |-> <<>>]
    BY FreshOK DEF View, FreshInstance
  <1>3. ~Process!Started(i)
    BY <1>1, ViewsStarted
  <1>4. Views' = [Views EXCEPT ![i] = View(FreshInstance)]
    BY <1>1, ViewsWritten
  <1> QED
    BY <1>1, <1>2, <1>3, <1>4 DEF Process!Start, Views

LEMMA SaveGoesOn ==
  ASSUME Base, RunOK, NEW d \in Drivers, Save(d), Current(d)
  PROVE  Process!GoOn(drv[d].i)
  <1> DEFINE i == drv[d].i
             saved == [drv[d].next EXCEPT !.version = @ + 1]
  <1>1. /\ i \in Instances /\ inst[i] # None /\ inst[i].status \in Live
        /\ inst' = [inst EXCEPT ![i] = saved] /\ Leads(i, inst[i], saved)
    BY SaveLeads
  <1>2. UNCHANGED <<effects, inbox, elapsed>>
    BY DEF Save, history
  <1> HIDE DEF i, saved
  <1>3. Process!Underway(i) /\ View(saved) \in Process!After(i, Views[i])
    BY <1>1, ViewsStarted DEF Leads
  <1>4. Views' = [Views EXCEPT ![i] = View(saved)]
    BY <1>1, ViewsWritten
  <1>5. Process!GoOn(i)
    BY <1>2, <1>3, <1>4 DEF Process!GoOn, Views
  <1> QED
    BY <1>5 DEF i

LEMMA CancelCancels ==
  ASSUME Base, NEW d \in Drivers, NEW i \in Instances, Cancel(d, i)
  PROVE  Process!Cancel(i)
  <1> DEFINE a == inst[i]
             at == IF a.status = "running" THEN 0 ELSE a.pc
             n == Finish(a, "cancelled", at)
             saved == [n EXCEPT !.version = @ + 1]
  <1>1. /\ a # None /\ a.status \in Live /\ inst' = [inst EXCEPT ![i] = saved]
        /\ UNCHANGED <<effects, inbox, elapsed>>
    BY DEF Cancel, history
  <1>2. a \in Document /\ DocOK(a)
    BY <1>1, TypesSplit DEF Base, StoredTyped, InstOK
  <1>3. "cancelled" \in Over /\ at \in Steps \cup {0}
    BY <1>1, <1>2 DEF Over, Live, DocOK, WaitSteps
  <1>4. /\ Process!Underway(i) /\ Views[i] = View(a)
        /\ Views[i].status = a.status /\ Views[i].pc = a.pc
    BY <1>1, ViewsStarted
  <1>5. at = IF Views[i].status = "running" THEN 0 ELSE Views[i].pc
    BY <1>4
  <1> HIDE DEF at, a
  <1>6. n \in Document /\ View(n) = Process!Ended(View(a), "cancelled", at)
    BY <1>2, <1>3, FinishOK, ViewOfFinish
  <1> HIDE DEF n
  <1>7. saved \in Document /\ Agree(saved, n)
    BY <1>6, BumpOK
  <1> HIDE DEF saved
  <1>8. View(saved) = Process!Ended(Views[i], "cancelled", at)
    BY <1>4, <1>6, <1>7, ViewOfAgreeing
  <1>9. Views' = [Views EXCEPT ![i] = View(saved)]
    BY <1>1, ViewsWritten
  <1> QED
    BY <1>1, <1>4, <1>5, <1>8, <1>9 DEF Process!Cancel, Views

LEMMA ParkShowsNothing ==
  ASSUME Base, NEW i \in Instances, Park(i)
  PROVE  UNCHANGED <<Views, effects, inbox, elapsed>>
  <1> DEFINE b == [inst[i] EXCEPT !.version = @ + 1]
  <1>1. inst[i] # None /\ inst' = [inst EXCEPT ![i] = b] /\ UNCHANGED <<effects, inbox, elapsed>>
    BY DEF Park
  <1>2. inst[i] \in Document
    BY <1>1, ViewsStarted
  <1>3. b \in Document /\ Agree(b, inst[i])
    BY <1>2, BumpOK
  <1> HIDE DEF b
  <1>4. View(b) = View(inst[i])
    BY <1>2, <1>3, ViewOfAgreeing
  <1>5. Views' = [Views EXCEPT ![i] = Views[i]]
    BY <1>1, <1>4, ViewsWritten DEF Views
  <1>6. Views' = Views
    BY <1>5 DEF Views
  <1> QED
    BY <1>1, <1>6

(* The activity that commits is that of the call the instance is at.       *)
LEMMA PerformPerforms ==
  ASSUME Base, EffectsOK, RunOK, NEW d \in Drivers, Perform(d)
  PROVE  Process!Perform(drv[d].i) \/ UNCHANGED <<Views, effects, inbox, elapsed>>
  <1> DEFINE i == drv[d].i
             c == drv[d].copy
             k == c.pc
  <1>1. dpc[d] = "perform" /\ UNCHANGED <<inst, inbox, elapsed>>
    BY DEF Perform
  <1>2. /\ i \in Instances /\ c \in Document /\ DocOK(c) /\ inst[i] # None
        /\ c.status \in Live /\ k \in Steps /\ Program[k].kind = "call"
    BY <1>1, AtWork DEF DriverAt, LabelOK
  <1>3. StepKey(i, c, k) = <<i, k, 0>>
    BY <1>2, FirstPass
  <1>4. inst[i].pc = k \/ effects[i][k] = 1
    BY <1>1, <1>2 DEF RunOK, CallMade
  <1> HIDE DEF i, c, k
  <1>5. CASE UNCHANGED effects
    BY <1>1, <1>5 DEF Views
  <1>6. CASE <<i, k, 0>> \notin receipts /\ effects' = [effects EXCEPT ![i][k] = @ + 1]
    <2>1. effects[i][k] = 0
      BY <1>2, <1>6 DEF EffectsOK
    <2>2. effects' = [effects EXCEPT ![i][k] = 1]
      <3>1. effects \in [Instances -> [Steps -> Nat]]
        BY TypesSplit DEF Base, StoredTyped
      <3>2. effects[i][k] + 1 = 1
        BY <2>1
      <3> QED
        BY <1>6, <3>2
    <2>3. Views[i].pc = k /\ Process!Started(i)
      BY <1>2, <1>4, <2>1, ViewsStarted
    <2>4. k \in Process!Steps
      BY <1>2 DEF Process!Steps, Steps
    <2>5. Process!Perform(i)
      BY <1>1, <1>2, <2>1, <2>2, <2>3, <2>4 DEF Process!Perform, Views
    <2> QED
      BY <2>5 DEF i
  <1> QED
    BY <1>3, <1>5, <1>6 DEF Perform, i, c, k

LEMMA SignalArrives ==
  ASSUME SentOK, NEW m \in Messages, PutInbox(m)
  PROVE  \E k \in Process!WaitSteps : Process!Arrive(m, k)
  <1>1. sig[m].step \in WaitSteps
    BY DEF PutInbox, SentOK
  <1>2. sig[m].step \in Process!WaitSteps
    BY <1>1 DEF Process!WaitSteps, Process!Steps, WaitSteps, Steps
  <1>3. /\ inbox' = [inbox EXCEPT ![sig[m].step] = @ \cup {m}]
        /\ UNCHANGED <<inst, effects, elapsed>>
    BY DEF PutInbox, history
  <1>4. Views' = Views
    BY <1>3 DEF Views
  <1>5. Process!Arrive(m, sig[m].step)
    BY <1>3, <1>4 DEF Process!Arrive, Views
  <1> QED
    BY <1>2, <1>5

LEMMA TimerElapses ==
  ASSUME Base, NEW i \in Instances, Elapse(i)
  PROVE  Process!Elapse(i)
  <1>1. /\ inst[i] # None /\ inst[i].status \in {"sleeping", "waiting"}
        /\ elapsed' = [elapsed EXCEPT ![i] = @ \cup {inst[i].pc}]
        /\ UNCHANGED <<inst, effects, inbox>>
    BY DEF Elapse, stored, history
  <1>2. Process!Started(i) /\ Views[i].status = inst[i].status /\ Views[i].pc = inst[i].pc
    BY <1>1, ViewsStarted
  <1> QED
    BY <1>1, <1>2 DEF Process!Elapse, Views

(* The steps that a caller of the instances does not see.                  *)
LEMMA Unseen ==
  ASSUME Base, Next,
         ~ (\E i \in Instances : Create(i) \/ Park(i) \/ Elapse(i)),
         ~ (\E d \in Drivers :
              Perform(d) \/ (Save(d) /\ Current(d)) \/ \E i \in Instances : Cancel(d, i)),
         ~ (\E m \in Messages : PutInbox(m))
  PROVE  UNCHANGED <<Views, effects, inbox, elapsed>>
  <1>1. inbox' = inbox /\ effects' = effects
    BY Grows, OnlyPerform
  <1>2. ASSUME NEW d \in Drivers, Save(d), ~Current(d)
        PROVE  UNCHANGED <<inst, elapsed>>
    BY <1>2 DEF Save
  <1>3. ASSUME NEW d \in Drivers,
               \/ Round(d) \/ Replay(d) \/ RegisterWaiter(d) \/ ReadInbox(d) \/ UnregisterWaiter(d)
               \/ Reload(d) \/ Leave(d) \/ Crash(d) \/ \E i \in Instances : Load(d, i)
        PROVE  UNCHANGED <<inst, elapsed>>
    BY <1>3 DEF Round, Replay, RegisterWaiter, ReadInbox, UnregisterWaiter, Reload, Leave, Crash,
       Load, stored
  <1>4. ASSUME NEW i \in Instances,
               LookUpKey(i) \/ PutKey(i) \/ Register(i) \/ Enroll(i) \/ StartDies(i)
        PROVE  UNCHANGED <<inst, elapsed>>
    BY <1>4 DEF LookUpKey, PutKey, Register, Enroll, StartDies, stored
  <1>5. ASSUME NEW m \in Messages,
               \/ Signal(m) \/ ReadWaiters(m) \/ WokenAll(m) \/ SignalDies(m)
               \/ \E i \in Instances : Wake(m, i)
        PROVE  UNCHANGED <<inst, elapsed>>
    BY <1>5 DEF Signal, ReadWaiters, Wake, WokenAll, SignalDies, stored
  <1>6. UNCHANGED <<inst, elapsed>>
    BY <1>2, <1>3, <1>4, <1>5 DEF Next, Advance
  <1> QED
    BY <1>1, <1>6 DEF Views

LEMMA StepIsProcessStep ==
  ASSUME Base, SentOK, EffectsOK, RunOK, [Next]_vars
  PROVE  Process!Next \/ UNCHANGED <<Views, effects, inbox, elapsed>>
  <1>1. CASE UNCHANGED vars
    BY <1>1 DEF vars, Views
  <1>2. CASE Next
    <2>1. ASSUME NEW i \in Instances, Create(i) \/ Park(i) \/ Elapse(i)
          PROVE  Process!Next \/ UNCHANGED <<Views, effects, inbox, elapsed>>
      BY <2>1, CreateStarts, ParkShowsNothing, TimerElapses DEF Process!Next
    <2>2. ASSUME NEW d \in Drivers, NEW i \in Instances, Cancel(d, i)
          PROVE  Process!Next
      BY <2>2, CancelCancels DEF Process!Next
    <2>3. ASSUME NEW d \in Drivers, Save(d), Current(d)
          PROVE  Process!Next
      <3>1. drv[d].i \in Instances
        BY <2>3, SaveLeads
      <3> QED
        BY <2>3, <3>1, SaveGoesOn DEF Process!Next
    <2>4. ASSUME NEW d \in Drivers, Perform(d)
          PROVE  Process!Next \/ UNCHANGED <<Views, effects, inbox, elapsed>>
      <3>1. drv[d].i \in Instances
        BY <2>4, AtWork DEF Perform
      <3> QED
        BY <2>4, <3>1, PerformPerforms DEF Process!Next
    <2>5. ASSUME NEW m \in Messages, PutInbox(m)
          PROVE  Process!Next
      BY <2>5, SignalArrives DEF Process!Next
    <2> QED
      BY <1>2, <2>1, <2>2, <2>3, <2>4, <2>5, Unseen
  <1> QED
    BY <1>1, <1>2

(* Any number of drivers that advance one instance at once, from copies    *)
(* that may be stale, with saves lost and drivers dead at every point,     *)
(* take it through the states in which one process would have run its      *)
(* program alone: each call performed once and before it is gone past,     *)
(* each wait left by a signal not used before or by its due timeout, and   *)
(* nothing done to the state after its end.                                *)
THEOREM WorkflowsImplementProcess == Spec => InstancesRunAlone
  <1>1. Init => WaitsOK /\ EffectsOK /\ RunOK
    BY DEF Init, WaitsOK, WaitAt, EffectsOK, RunOK, Led, CallMade
  <1>2. Base /\ SentOK /\ WaitsOK /\ EffectsOK /\ RunOK /\ [Next]_vars
          => (WaitsOK /\ EffectsOK /\ RunOK)'
    BY WaitsNext, EffectsNext, RunNext
  <1>3. Init => Process!Init
    BY DEF Init, Process!Init, View, Process!Steps, Process!WaitSteps, Steps, WaitSteps
  <1>4. Base /\ SentOK /\ EffectsOK /\ RunOK /\ [Next]_vars => [Process!Next]_(Process!processVars)
    <2> SUFFICES ASSUME Base, SentOK, EffectsOK, RunOK, [Next]_vars,
                        UNCHANGED <<Views, effects, inbox, elapsed>>
                 PROVE  UNCHANGED Process!processVars
      BY StepIsProcessStep
    <2> QED
      BY DEF Process!processVars, Views
  <1> QED
    BY <1>1, <1>2, <1>3, <1>4, BaseHolds, PTL DEF Spec, InstancesRunAlone, Process!Spec

=============================================================================
