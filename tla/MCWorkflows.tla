---------------------------- MODULE MCWorkflows ----------------------------
EXTENDS Workflows, TLC

N(kind, next, otherwise, exit) ==
  [kind |-> kind, next |-> next, otherwise |-> otherwise, exit |-> exit]

(* A choice between a call with two waits for one message after it, and a  *)
(* sleep that ends in failure; both waits time out.                        *)
MCProgram ==
  << N("choice", 2, 6, None), N("call", 3, 0, "failed"), N("wait", 4, 0, "completed"),
     N("wait", 5, 0, "failed"), N("return", 0, 0, None), N("sleep", 7, 0, None),
     N("fail", 0, 0, None) >>

(* A call, a wait that times out, and the end of the program.              *)
MCShortProgram == << N("call", 2, 0, "failed"), N("wait", 3, 0, "completed") >>

MCKeyOf == [i \in Instances |-> CHOOSE k \in Keys : TRUE]

(* Two starts race only before anything is driven; afterwards the other    *)
(* call of start is still to come.  No message is sent to an instance that *)
(* start has listed and not yet done with, or died over.                   *)
StartsFirst ==
  LET unsent == \A m \in Messages : sig[m].stage = "unsent"
  IN \/ (\A d \in Drivers : dpc[d] = "idle") /\ unsent
     \/ /\ \E i \in Instances : starting[i] = "new"
        /\ (\E i \in Instances : starting[i] \in {"enroll", "listed"}) => unsent

Symmetry == Permutations(Instances) \cup Permutations(Drivers)
=============================================================================
