------------------------------ MODULE MCEngine ------------------------------
(* Instances of Engine for TLC.                                            *)
EXTENDS Engine, TLC

(* draft -> active -> void, draft -> void; a void record reserves no key.  *)
MCTransitions ==
  {[from |-> {"draft"}, to |-> "active"],
   [from |-> {"draft", "active"}, to |-> "void"]}

(* Every decorator set on which conditional uniqueness is accepted.        *)
MCVersioned ==
  {[versioned |-> TRUE, softDelete |-> TRUE],
   [versioned |-> TRUE, softDelete |-> FALSE]}

MCUnversioned == {[versioned |-> FALSE, softDelete |-> TRUE]}

(* Requests come without an Idempotency-Key and while the fence is down,   *)
(* or they create and update records without a unique value or a reference *)
(* to another: what guards and lifecycles do and what receipts and the     *)
(* fence do are explored side by side, and not in every combination.       *)
Pending == {request[c] : c \in Clients} \ {None}
Unkeyed == \A r \in Pending : r.idem = None
Plain ==
  /\ decorators.softDelete
  /\ \A r \in Pending :
       /\ r.ref \notin Ids
       /\ \/ r.op = "create" /\ r.key = None
          \/ r.op = "update" /\ "key" \notin r.changed
  /\ \A i \in Ids : records[i] # None =>
       records[i].key = None /\ records[i].status = Initial /\ ~records[i].deleted
Focus ==
  \/ Unkeyed /\ ~fenced /\ \A k \in ReceiptKey : receipts[k] = None
  \/ Plain

Symmetry == Permutations(Clients) \cup Permutations(Ids)
=============================================================================
