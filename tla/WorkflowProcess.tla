-------------------------- MODULE WorkflowProcess --------------------------
(***************************************************************************)
(* What the workflow runtime promises of an instance: it runs the compiled *)
(* program as one process would, alone and without interruption.  A call   *)
(* is gone past only when its activity has been performed, and that is     *)
(* once; a signal is used at one wait; a timer that is not due lets nobody *)
(* through; an instance that is over is not touched again.  There are no   *)
(* drivers, copies, versions, receipts or lists here.                      *)
(***************************************************************************)
EXTENDS Naturals, Sequences

CONSTANTS
  Instances, Messages,
  Program,  \* a sequence of nodes: kind, next, otherwise and exit
  None

VARIABLES
  proc,       \* [Instances -> the state of the process, or None]
  performed,  \* [Instances -> [steps -> how often its activity was performed]]
  inbox,      \* [wait steps -> the messages that have come for it]
  due         \* [Instances -> steps whose timer is due]

processVars == <<proc, performed, inbox, due>>

Steps == 1 .. Len(Program)
WaitSteps == {k \in Steps : Program[k].kind = "wait"}

Started(i) == proc[i] # None
Underway(i) == Started(i) /\ proc[i].status \in {"running", "waiting", "sleeping"}

(* The process ends at step k, the last in its history.                    *)
Ended(p, status, k) == [p EXCEPT !.status = status, !.history = Append(@, k)]

(* The process leaves its step for position q.                             *)
Gone(p, q) == [p EXCEPT !.status = "running", !.pc = q, !.history = Append(@, p.pc)]

(* What becomes of process i, in state p, by the node it is at.            *)

AfterCall(i, p) ==
  {Ended(p, Program[p.pc].exit, p.pc)}
    \cup {q \in {Gone(p, Program[p.pc].next)} : performed[i][p.pc] = 1}

AfterSleep(i, p) ==
  IF p.status # "sleeping"
  THEN {[p EXCEPT !.status = "sleeping"]}
  ELSE {q \in {Gone(p, Program[p.pc].next)} : p.pc \in due[i]}

AfterWait(i, p) ==
  IF p.status # "waiting"
  THEN {[p EXCEPT !.status = "waiting"]}
  ELSE {[Gone(p, Program[p.pc].next) EXCEPT !.consumed = @ \cup {m}] :
          m \in inbox[p.pc] \ p.consumed}
         \cup {q \in {Ended(p, Program[p.pc].exit, p.pc)} :
                 p.pc \in due[i] /\ Program[p.pc].exit # None}

AfterChoice(p) == {Gone(p, Program[p.pc].next), Gone(p, Program[p.pc].otherwise)}

After(i, p) ==
  IF p.pc \notin Steps THEN {Ended(p, "completed", 0)}
  ELSE CASE Program[p.pc].kind = "call"   -> AfterCall(i, p)
         [] Program[p.pc].kind = "sleep"  -> AfterSleep(i, p)
         [] Program[p.pc].kind = "wait"   -> AfterWait(i, p)
         [] Program[p.pc].kind = "choice" -> AfterChoice(p)
         [] Program[p.pc].kind = "return" -> {Ended(p, "completed", p.pc)}
         [] Program[p.pc].kind = "fail"   -> {Ended(p, "failed", p.pc)}

-----------------------------------------------------------------------------
Init ==
  /\ proc = [i \in Instances |-> None]
  /\ performed = [i \in Instances |-> [k \in Steps |-> 0]]
  /\ inbox = [k \in WaitSteps |-> {}]
  /\ due = [i \in Instances |-> {}]

Start(i) ==
  /\ ~Started(i)
  /\ proc' = [proc EXCEPT ![i] =
       [status |-> "running", pc |-> 1, consumed |-> {}, history |-> <<>>]]
  /\ UNCHANGED <<performed, inbox, due>>

GoOn(i) ==
  /\ Underway(i)
  /\ \E q \in After(i, proc[i]) : proc' = [proc EXCEPT ![i] = q]
  /\ UNCHANGED <<performed, inbox, due>>

Cancel(i) ==
  /\ Underway(i)
  /\ LET k == IF proc[i].status = "running" THEN 0 ELSE proc[i].pc
     IN proc' = [proc EXCEPT ![i] = Ended(proc[i], "cancelled", k)]
  /\ UNCHANGED <<performed, inbox, due>>

(* The activity of the call that the instance is at, or was at when it     *)
(* ended: neither a cancel nor a failed attempt calls another one back.    *)
Perform(i) ==
  /\ Started(i)
  /\ LET k == proc[i].pc
     IN /\ k \in Steps /\ Program[k].kind = "call"
        /\ performed[i][k] = 0
        /\ performed' = [performed EXCEPT ![i][k] = 1]
  /\ UNCHANGED <<proc, inbox, due>>

Arrive(m, k) ==
  /\ inbox' = [inbox EXCEPT ![k] = @ \cup {m}]
  /\ UNCHANGED <<proc, performed, due>>

Elapse(i) ==
  /\ Started(i) /\ proc[i].status \in {"sleeping", "waiting"}
  /\ due' = [due EXCEPT ![i] = @ \cup {proc[i].pc}]
  /\ UNCHANGED <<proc, performed, inbox>>

Next ==
  \/ \E i \in Instances : Start(i) \/ GoOn(i) \/ Cancel(i) \/ Perform(i) \/ Elapse(i)
  \/ \E m \in Messages, k \in WaitSteps : Arrive(m, k)

Spec == Init /\ [][Next]_processVars

=============================================================================
