--------------------------- MODULE DispatchProofs ---------------------------
(***************************************************************************)
(* Proofs about Dispatch, for every set of sweeps, owners, rows and        *)
(* subscriptions, every lease, number of attempts and running time.        *)
(***************************************************************************)
EXTENDS Dispatch, TLAPS

(* The locals of a sweep at rest are well typed.                           *)
LEMMA AtRestTyped == AtRest \in Locals
  <1>1. [r \in Rows |-> [attempts |-> 0, delivered |-> {}]] \in [Rows -> Snapshot]
    BY DispatchAssumption DEF Snapshot
  <1> QED
    BY <1>1, DispatchAssumption DEF AtRest, Locals

(* Replacing the locals of one sweep.                                      *)
LEMMA LocalsUpdate ==
  ASSUME TypeOK, NEW s \in Sweeps, NEW l \in Locals, sweep' = [sweep EXCEPT ![s] = l]
  PROVE  /\ sweep' \in [Sweeps -> Locals]
         /\ sweep'[s] = l
         /\ \A t \in Sweeps \ {s} : sweep'[t] = sweep[t]
  BY DEF TypeOK

(* Replacing one row of the outbox.                                        *)
LEMMA RowUpdate ==
  ASSUME TypeOK, NEW r \in Rows, NEW row \in Row, rows' = [rows EXCEPT ![r] = row]
  PROVE  rows' \in [Rows -> Row]
  BY DEF TypeOK

(* Every step keeps the outbox and the sweeps' locals well typed.          *)
LEMMA TypeStep ==
  ASSUME TypeOK, [Next]_vars
  PROVE  TypeOK'
  <1> USE DispatchAssumption
  <1>0. \A s \in Sweeps : sweep[s] \in Locals
    BY DEF TypeOK
  <1>1. ASSUME NEW r \in Rows, Publish(r) \/ Redrive(r)
        PROVE  TypeOK'
    <2>1. rows[r] \in Row
      BY DEF TypeOK
    <2>2. CASE Publish(r)
      <3>1. [rows[r] EXCEPT !.status = "pending"] \in Row
        BY <2>1 DEF Row
      <3>2. rows' = [rows EXCEPT ![r] = [rows[r] EXCEPT !.status = "pending"]]
        BY <2>2 DEF Publish, TypeOK
      <3> QED
        BY <2>2, <3>1, <3>2, RowUpdate DEF Publish, TypeOK
    <2>3. CASE Redrive(r)
      <3>0. 0 \in 0 .. MaxAttempts
        OBVIOUS
      <3>1. [rows[r] EXCEPT !.status = "pending", !.attempts = 0] \in Row
        BY <2>1, <3>0 DEF Row
      <3>2. rows' = [rows EXCEPT ![r] =
                       [rows[r] EXCEPT !.status = "pending", !.attempts = 0]]
        BY <2>3 DEF Redrive, TypeOK
      <3> QED
        BY <2>3, <3>1, <3>2, RowUpdate DEF Redrive, TypeOK
    <2> QED
      BY <1>1, <2>2, <2>3
  <1>2. ASSUME NEW s \in Sweeps, Start(s)
        PROVE  TypeOK'
    <2> DEFINE found == {r \in Rows : Available(r, 0)}
               read == [r \in Rows |->
                 IF r \in found
                 THEN [attempts |-> rows[r].attempts, delivered |-> rows[r].delivered]
                 ELSE AtRest.read[r]]
    <2>1. read \in [Rows -> Snapshot]
      BY AtRestTyped DEF TypeOK, Row, Snapshot, Locals
    <2>2. [sweep[s] EXCEPT !.todo = found, !.read = read] \in Locals
      BY <1>0, <2>1 DEF Locals
    <2>3. sweep' = [sweep EXCEPT ![s] = [sweep[s] EXCEPT !.todo = found, !.read = read]]
      BY <1>2 DEF Start, TypeOK
    <2>4. sweep' \in [Sweeps -> Locals]
      BY <2>2, <2>3 DEF TypeOK
    <2>5. \A t \in Sweeps : sweep'[t].row = sweep[t].row /\ sweep'[t].sub = sweep[t].sub
      BY <1>0, <2>3 DEF TypeOK, Locals
    <2>6. /\ UNCHANGED <<rows, sent, crashes>>
          /\ pc[s] = "idle"
          /\ pc' = [pc EXCEPT ![s] = "sweeping"]
      BY <1>2 DEF Start
    <2> QED
      BY <2>4, <2>5, <2>6 DEF TypeOK
  <1>3. ASSUME NEW s \in Sweeps, NEW r \in Rows, ClaimRow(s, r)
        PROVE  TypeOK'
    <2>1. Claimed(r, s) \in Row
      <3>1. LeaseMs - sweep[s].lag \in LeaseLeft
        BY <1>0 DEF Locals, LeaseLeft
      <3>2. rows[r] \in Row /\ OwnerOf[s] \in Owners
        BY DEF TypeOK
      <3>3. (IF rows[r].attempts < MaxAttempts THEN rows[r].attempts + 1
             ELSE rows[r].attempts) \in 0 .. MaxAttempts
        BY <3>2 DEF Row
      <3> QED
        BY <3>1, <3>2, <3>3 DEF Claimed, Row
    <2>2. sweep[s].read[r].delivered \in SUBSET Subs
      BY <1>0 DEF Locals, Snapshot
    <2>3. CASE Available(r, sweep[s].lag)
      <3> DEFINE l == [sweep[s] EXCEPT !.todo = @ \ {r}, !.row = r,
                                       !.done = sweep[s].read[r].delivered]
      <3>1. l \in Locals /\ l.row = r /\ l.sub = sweep[s].sub
        BY <1>0, <2>2 DEF Locals
      <3>2. sweep' = [sweep EXCEPT ![s] = l]
        BY <1>3, <2>3 DEF ClaimRow, TypeOK
      <3>3. /\ sweep' \in [Sweeps -> Locals]
            /\ sweep'[s].row = r /\ sweep'[s].sub = sweep[s].sub
            /\ \A t \in Sweeps \ {s} : sweep'[t] = sweep[t]
        BY <3>1, <3>2, LocalsUpdate
      <3>4. rows' \in [Rows -> Row]
        BY <1>3, <2>1, <2>3, RowUpdate DEF ClaimRow
      <3>5. /\ pc[s] = "sweeping"
            /\ pc' = [pc EXCEPT ![s] = "sending"]
            /\ UNCHANGED <<sent, crashes>>
        BY <1>3, <2>3 DEF ClaimRow
      <3> QED
        BY <3>3, <3>4, <3>5 DEF TypeOK
    <2>4. CASE ~Available(r, sweep[s].lag)
      <3> DEFINE l == [sweep[s] EXCEPT !.todo = @ \ {r}]
      <3>1. l \in Locals /\ l.row = sweep[s].row /\ l.sub = sweep[s].sub
        BY <1>0 DEF Locals
      <3>2. sweep' = [sweep EXCEPT ![s] = l]
        BY <1>3, <2>4 DEF ClaimRow, TypeOK
      <3>3. /\ sweep' \in [Sweeps -> Locals]
            /\ \A t \in Sweeps : sweep'[t].row = sweep[t].row /\ sweep'[t].sub = sweep[t].sub
        BY <3>1, <3>2, LocalsUpdate
      <3> QED
        BY <1>3, <2>4, <3>3 DEF ClaimRow, TypeOK
    <2> QED
      BY <2>3, <2>4
  <1>4. ASSUME NEW s \in Sweeps, NEW sub \in Subs, Send(s, sub)
        PROVE  TypeOK'
    <2>1. sweep[s].row \in Rows
      BY <1>0, <1>4 DEF Send, TypeOK, Locals
    <2>2. sent' \in [Rows -> SUBSET Subs]
      BY <1>4, <2>1 DEF Send, TypeOK
    <2> DEFINE good == [sweep[s] EXCEPT !.sub = sub, !.done = @ \cup {sub}]
               bad == [sweep[s] EXCEPT !.failed = @ \cup {sub}]
    <2>a. good \in Locals /\ good.row = sweep[s].row /\ good.sub = sub
      BY <1>0 DEF Locals
    <2>b. bad \in Locals /\ bad.row = sweep[s].row /\ bad.sub = sweep[s].sub
      BY <1>0 DEF Locals
    <2>c. \/ sweep' = [sweep EXCEPT ![s] = good] /\ pc' = [pc EXCEPT ![s] = "progress"]
          \/ sweep' = [sweep EXCEPT ![s] = bad] /\ pc' = pc
      BY <1>4 DEF Send, TypeOK
    <2> HIDE DEF good, bad
    <2>3. sweep' \in [Sweeps -> Locals]
      BY <2>a, <2>b, <2>c, LocalsUpdate
    <2>4. /\ \A t \in Sweeps : sweep'[t].row = sweep[t].row
          /\ \A t \in Sweeps \ {s} : sweep'[t].sub = sweep[t].sub /\ pc'[t] = pc[t]
          /\ \/ pc'[s] = "progress" /\ sweep'[s].sub = sub
             \/ pc'[s] = pc[s] /\ sweep'[s].sub = sweep[s].sub
      BY <2>a, <2>b, <2>c DEF TypeOK
    <2>5. pc' \in [Sweeps -> {"idle", "sweeping", "sending", "progress"}]
      BY <1>4 DEF Send, TypeOK
    <2> QED
      BY <1>4, <2>2, <2>3, <2>4, <2>5 DEF Send, TypeOK
  <1>5. ASSUME NEW s \in Sweeps, Progress(s)
        PROVE  TypeOK'
    <2>1. sweep[s].row \in Rows /\ sweep[s].sub \in Subs
      BY <1>0, <1>5 DEF Progress, TypeOK, Locals
    <2>2. rows' \in [Rows -> Row]
      <3> DEFINE row == [rows[sweep[s].row] EXCEPT
                           !.delivered = @ \cup {sweep[s].sub}]
      <3>1. row \in Row
        BY <2>1 DEF TypeOK, Row
      <3>2. rows' = rows \/ rows' = [rows EXCEPT ![sweep[s].row] = row]
        BY <1>5, <2>1 DEF Progress, TypeOK
      <3> QED
        BY <2>1, <3>1, <3>2, RowUpdate DEF TypeOK
    <2> DEFINE l == [sweep[s] EXCEPT !.sub = None]
    <2>a. l \in Locals /\ l.row = sweep[s].row /\ l.sub = None
      BY <1>0 DEF Locals
    <2>b. sweep' = [sweep EXCEPT ![s] = l]
      BY <1>5 DEF Progress, TypeOK
    <2> HIDE DEF l
    <2>3. sweep' \in [Sweeps -> Locals]
      BY <2>a, <2>b, LocalsUpdate
    <2>4. /\ \A t \in Sweeps : sweep'[t].row = sweep[t].row
          /\ \A t \in Sweeps \ {s} : sweep'[t].sub = sweep[t].sub
          /\ sweep'[s].sub = None
      BY <2>a, <2>b DEF TypeOK
    <2> QED
      BY <1>5, <2>2, <2>3, <2>4 DEF Progress, TypeOK
  <1>6. ASSUME NEW s \in Sweeps, Settle(s)
        PROVE  TypeOK'
    <2>1. sweep[s].row \in Rows
      BY <1>0, <1>6 DEF Settle, TypeOK, Locals
    <2>2. Settled(sweep[s].row, s) \in Row
      <3> DEFINE row == rows[sweep[s].row]
      <3>1. row \in Row
        BY <2>1 DEF TypeOK
      <3>2. /\ [row EXCEPT !.status = "delivered", !.owner = None, !.lease = None] \in Row
            /\ [row EXCEPT !.status = "dead", !.owner = None, !.lease = None] \in Row
        BY <3>1 DEF Row
      <3> QED
        BY <3>1, <3>2 DEF Settled
    <2>3. rows' \in [Rows -> Row]
      BY <1>6, <2>1, <2>2 DEF Settle, TypeOK
    <2> DEFINE l == [sweep[s] EXCEPT !.row = None, !.done = {}, !.failed = {}]
    <2>a. l \in Locals /\ l.sub = sweep[s].sub /\ l.row = None
      BY <1>0 DEF Locals
    <2>b. sweep' = [sweep EXCEPT ![s] = l]
      BY <1>6 DEF Settle, TypeOK
    <2> HIDE DEF l
    <2>4. sweep' \in [Sweeps -> Locals]
      BY <2>a, <2>b, LocalsUpdate
    <2>5. /\ \A t \in Sweeps : sweep'[t].sub = sweep[t].sub
          /\ \A t \in Sweeps \ {s} : sweep'[t].row = sweep[t].row
          /\ sweep'[s].row = None
      BY <2>a, <2>b DEF TypeOK
    <2> QED
      BY <1>6, <2>3, <2>4, <2>5 DEF Settle, TypeOK
  <1>7. ASSUME NEW s \in Sweeps, Finish(s) \/ Crash(s)
        PROVE  TypeOK'
    <2>1. /\ sweep' = [sweep EXCEPT ![s] = AtRest]
          /\ pc' = [pc EXCEPT ![s] = "idle"]
          /\ UNCHANGED <<rows, sent>>
          /\ crashes' \in 0 .. MaxCrashes
      BY <1>7 DEF Finish, Crash, TypeOK
    <2>2. AtRest.row = None /\ AtRest.sub = None
      BY DEF AtRest
    <2> QED
      BY <2>1, <2>2, AtRestTyped DEF TypeOK
  <1>8. ASSUME Tick
        PROVE  TypeOK'
    <2>1. rows' \in [Rows -> Row]
      <3> DEFINE floor == -(MaxLag + 1)
                 run(l) == IF l = None \/ l = floor THEN l ELSE l - 1
      <3>1. \A l \in LeaseLeft \cup {None} : run(l) \in LeaseLeft \cup {None}
        BY DEF LeaseLeft
      <3>2. \A r \in Rows : [rows[r] EXCEPT !.lease = run(@)] \in Row
        BY <3>1 DEF TypeOK, Row
      <3> QED
        BY <1>8, <3>2 DEF Tick
    <2>2. sweep' \in [Sweeps -> Locals]
      <3>1. \A t \in Sweeps : sweep[t].lag + 1 \in 0 .. MaxLag
        BY <1>0, <1>8 DEF Tick, Locals
      <3>2. \A t \in Sweeps : [sweep[t] EXCEPT !.lag = @ + 1] \in Locals
        BY <1>0, <3>1 DEF Locals
      <3> QED
        BY <1>0, <1>8, <3>2 DEF Tick
    <2>3. \A t \in Sweeps : sweep'[t].row = sweep[t].row /\ sweep'[t].sub = sweep[t].sub
      BY <1>0, <1>8 DEF Tick, Locals
    <2> QED
      BY <1>8, <2>1, <2>2, <2>3 DEF Tick, TypeOK
  <1>9. ASSUME UNCHANGED vars
        PROVE  TypeOK'
    BY <1>9 DEF vars, TypeOK
  <1> QED
    BY <1>1, <1>2, <1>3, <1>4, <1>5, <1>6, <1>7, <1>8, <1>9 DEF Next, Step

(* Type correctness of the outbox and its sweeps.                          *)
THEOREM TypeCorrect == Spec => []TypeOK
  <1>1. Init => TypeOK
    <2> SUFFICES ASSUME Init PROVE TypeOK
      OBVIOUS
    <2>1. sweep \in [Sweeps -> Locals] /\ rows \in [Rows -> Row]
      BY AtRestTyped, DispatchAssumption DEF Init, Row
    <2>2. \A s \in Sweeps : sweep[s].row = None /\ sweep[s].sub = None
      BY DEF Init, AtRest
    <2> QED
      <3>1. crashes \in 0 .. MaxCrashes
        BY DispatchAssumption DEF Init
      <3> QED
        BY <2>1, <2>2, <3>1 DEF Init, TypeOK
  <1>2. TypeOK /\ [Next]_vars => TypeOK'
    BY TypeStep
  <1> QED
    BY <1>1, <1>2, PTL DEF Spec

-----------------------------------------------------------------------------
(* A step by which the outbox's record of deliveries, its settled rows and *)
(* what the sweeps rely on stay covered by what was sent.                  *)
LEMMA CoveredStep ==
  ASSUME IInv, TypeOK',
         \A r \in Rows :
           /\ sent[r] \subseteq sent'[r]
           /\ rows'[r].delivered \subseteq sent'[r]
           /\ rows'[r].status = "delivered" =>
                sent'[r] = Subs /\ rows'[r].lease = None,
         SweepsHonest'
  PROVE  IInv'
  BY DEF IInv, DeliveredEverywhere, SettledUnleased

(* Claiming a row changes neither its status nor what it records as        *)
(* delivered, and leaves a delivered row alone.                            *)
LEMMA ClaimKeepsRows ==
  ASSUME rows \in [Rows -> Row], NEW s \in Sweeps, NEW r \in Rows, ClaimRow(s, r)
  PROVE  \A q \in Rows :
           /\ rows'[q].delivered = rows[q].delivered
           /\ rows'[q].status = rows[q].status
           /\ rows[q].status = "delivered" => rows'[q] = rows[q]
  <1>1. CASE ~Available(r, sweep[s].lag)
    BY <1>1 DEF ClaimRow
  <1>2. CASE Available(r, sweep[s].lag)
    <2>1. rows' = [rows EXCEPT ![r] = Claimed(r, s)]
      BY <1>2 DEF ClaimRow
    <2>2. /\ Claimed(r, s).delivered = rows[r].delivered
          /\ Claimed(r, s).status = rows[r].status
      <3>1. rows[r] \in Row
        OBVIOUS
      <3> QED
        BY <3>1 DEF Claimed, Row
    <2>3. rows[r].status = "pending"
      BY <1>2 DEF Available
    <2>4. /\ rows'[r] = Claimed(r, s)
          /\ \A q \in Rows \ {r} : rows'[q] = rows[q]
      BY <2>1
    <2> QED
      BY <2>2, <2>3, <2>4
  <1> QED
    BY <1>1, <1>2

(* Every step keeps the invariant.                                         *)
LEMMA InvariantStep ==
  ASSUME IInv, [Next]_vars
  PROVE  IInv'
  <1> USE DispatchAssumption
  <1>0. TypeOK'
    BY TypeStep DEF IInv
  <1>a. /\ \A s \in Sweeps : sweep[s] \in Locals
        /\ \A r \in Rows : rows[r] \in Row /\ sent[r] \in SUBSET Subs
        /\ rows \in [Rows -> Row]
        /\ sweep \in [Sweeps -> Locals]
        /\ sent \in [Rows -> SUBSET Subs]
    BY DEF IInv, TypeOK
  <1>b. \A r \in Rows :
          /\ rows[r].delivered \subseteq sent[r]
          /\ rows[r].status = "delivered" => sent[r] = Subs /\ rows[r].lease = None
    BY DEF IInv, DeliveredEverywhere, SettledUnleased
  <1>c. \A s \in Sweeps :
          /\ \A r \in Rows : sweep[s].read[r].delivered \subseteq sent[r]
          /\ sweep[s].row # None => sweep[s].done \subseteq sent[sweep[s].row]
          /\ sweep[s].sub # None => sweep[s].sub \in sweep[s].done
    BY DEF IInv, SweepsHonest
  <1>1. ASSUME NEW r \in Rows, Publish(r) \/ Redrive(r)
        PROVE  IInv'
    <2>1. \A q \in Rows :
            /\ rows'[q].delivered = rows[q].delivered
            /\ rows'[q].status = "delivered" => rows'[q] = rows[q]
      BY <1>1, <1>a DEF Publish, Redrive, Row
    <2>2. UNCHANGED <<sweep, sent>>
      BY <1>1 DEF Publish, Redrive
    <2>3. SweepsHonest'
      BY <1>c, <2>2 DEF SweepsHonest
    <2> QED
      BY <1>0, <1>b, <2>1, <2>2, <2>3, CoveredStep
  <1>2. ASSUME NEW s \in Sweeps, Start(s)
        PROVE  IInv'
    <2>1. UNCHANGED <<rows, sent>>
      BY <1>2 DEF Start
    <2>2. /\ sweep'[s].row = sweep[s].row
          /\ sweep'[s].done = sweep[s].done
          /\ sweep'[s].sub = sweep[s].sub
          /\ \A r \in Rows :
               sweep'[s].read[r].delivered \in {rows[r].delivered, {}}
          /\ \A t \in Sweeps \ {s} : sweep'[t] = sweep[t]
      BY <1>2, <1>a DEF Start, Locals, AtRest
    <2>3. SweepsHonest'
      BY <1>b, <1>c, <2>1, <2>2 DEF SweepsHonest
    <2> QED
      BY <1>0, <1>b, <2>1, <2>3, CoveredStep
  <1>3. ASSUME NEW s \in Sweeps, NEW r \in Rows, ClaimRow(s, r)
        PROVE  IInv'
    <2>1. UNCHANGED sent
      BY <1>3 DEF ClaimRow
    <2>2. \A q \in Rows :
            /\ rows'[q].delivered = rows[q].delivered
            /\ rows'[q].status = rows[q].status
            /\ rows[q].status = "delivered" => rows'[q] = rows[q]
      BY <1>3, <1>a, ClaimKeepsRows
    <2>3. /\ \A t \in Sweeps \ {s} : sweep'[t] = sweep[t]
          /\ sweep'[s].read = sweep[s].read
          /\ sweep'[s].sub = sweep[s].sub
          /\ \/ sweep'[s].row = r /\ sweep'[s].done = sweep[s].read[r].delivered
             \/ sweep'[s].row = sweep[s].row /\ sweep'[s].done = sweep[s].done
      BY <1>3, <1>a DEF ClaimRow, Locals
    <2>4. sweep[s].sub = None
      BY <1>3 DEF ClaimRow, IInv, TypeOK
    <2>5. SweepsHonest'
      BY <1>c, <2>1, <2>3, <2>4 DEF SweepsHonest
    <2> QED
      BY <1>0, <1>b, <2>1, <2>2, <2>5, CoveredStep
  <1>4. ASSUME NEW s \in Sweeps, NEW sub \in Subs, Send(s, sub)
        PROVE  IInv'
    <2>1. sweep[s].row \in Rows /\ UNCHANGED rows
      BY <1>4, <1>a DEF Send, IInv, TypeOK, Locals
    <2>2. \A r \in Rows : sent[r] \subseteq sent'[r]
      BY <1>4, <1>a, <2>1 DEF Send
    <2>3. /\ \A t \in Sweeps \ {s} : sweep'[t] = sweep[t]
          /\ sweep'[s].read = sweep[s].read
          /\ sweep'[s].row = sweep[s].row
          /\ \/ /\ sweep'[s].sub = sub
                /\ sweep'[s].done = sweep[s].done \cup {sub}
                /\ sub \in sent'[sweep[s].row]
             \/ sweep'[s].sub = sweep[s].sub /\ sweep'[s].done = sweep[s].done
      BY <1>4, <1>a, <2>1 DEF Send, Locals
    <2>4. SweepsHonest'
      <3>1. ASSUME NEW t \in Sweeps, t # s
            PROVE  /\ \A r \in Rows : sweep'[t].read[r].delivered \subseteq sent'[r]
                   /\ sweep'[t].row # None => sweep'[t].done \subseteq sent'[sweep'[t].row]
                   /\ sweep'[t].sub # None => sweep'[t].sub \in sweep'[t].done
        <4>1. sweep[t].row # None => sweep[t].row \in Rows
          BY <1>a DEF Locals
        <4>2. sweep'[t] = sweep[t]
          BY <2>3, <3>1
        <4> QED
          BY <1>c, <2>2, <4>1, <4>2
      <3>2. /\ \A r \in Rows : sweep'[s].read[r].delivered \subseteq sent'[r]
            /\ sweep'[s].done \subseteq sent'[sweep[s].row]
            /\ sweep'[s].sub # None => sweep'[s].sub \in sweep'[s].done
        <4>1. sweep[s].done \subseteq sent'[sweep[s].row]
          BY <1>c, <2>1, <2>2
        <4> QED
          BY <1>c, <2>1, <2>2, <2>3, <4>1
      <3> QED
        BY <2>3, <3>1, <3>2 DEF SweepsHonest
    <2>5. \A r \in Rows : rows[r].status = "delivered" => sent'[r] = Subs
      <3>1. \A r \in Rows : sent'[r] \subseteq Subs
        BY <1>0 DEF TypeOK
      <3> QED
        BY <1>b, <2>2, <3>1
    <2> QED
      BY <1>0, <1>b, <2>1, <2>2, <2>4, <2>5, CoveredStep
  <1>5. ASSUME NEW s \in Sweeps, Progress(s)
        PROVE  IInv'
    <2>1. /\ sweep[s].row \in Rows
          /\ sweep[s].sub \in sweep[s].done
          /\ UNCHANGED sent
      BY <1>5, <1>a, <1>c DEF Progress, IInv, TypeOK, Locals
    <2>2. \A r \in Rows :
            /\ rows'[r].delivered = rows[r].delivered
               \/ /\ r = sweep[s].row
                  /\ rows'[r].delivered = rows[r].delivered \cup {sweep[s].sub}
            /\ rows'[r].status = "delivered" => rows'[r] = rows[r]
      BY <1>5, <1>a, <2>1 DEF Progress, MayProgress, Row
    <2>3. /\ \A t \in Sweeps \ {s} : sweep'[t] = sweep[t]
          /\ sweep'[s].read = sweep[s].read
          /\ sweep'[s].row = sweep[s].row
          /\ sweep'[s].done = sweep[s].done
          /\ sweep'[s].sub = None
      BY <1>5, <1>a DEF Progress, Locals
    <2>4. SweepsHonest'
      BY <1>c, <2>1, <2>3 DEF SweepsHonest
    <2>5. sweep[s].sub \in sent[sweep[s].row]
      BY <1>c, <2>1
    <2> QED
      BY <1>0, <1>b, <2>1, <2>2, <2>4, <2>5, CoveredStep
  <1>6. ASSUME NEW s \in Sweeps, Settle(s)
        PROVE  IInv'
    <2>1. /\ sweep[s].row \in Rows
          /\ sweep[s].done \cup sweep[s].failed = Subs
          /\ UNCHANGED sent
      BY <1>6, <1>a DEF Settle, IInv, TypeOK, Locals
    <2>2. sweep[s].failed = {} => sent[sweep[s].row] = Subs
      BY <1>a, <1>c, <2>1
    <2>3. \A r \in Rows :
            /\ rows'[r].delivered = rows[r].delivered
            /\ rows'[r].status = "delivered" =>
                 \/ rows'[r] = rows[r]
                 \/ /\ r = sweep[s].row
                    /\ sweep[s].failed = {}
                    /\ rows'[r].lease = None
      BY <1>6, <1>a, <2>1 DEF Settle, Settled, Row
    <2>4. /\ \A t \in Sweeps \ {s} : sweep'[t] = sweep[t]
          /\ sweep'[s].read = sweep[s].read
          /\ sweep'[s].row = None
          /\ sweep'[s].sub = sweep[s].sub
      BY <1>6, <1>a DEF Settle, Locals
    <2>5. sweep[s].sub = None
      BY <1>6 DEF Settle, IInv, TypeOK
    <2>6. SweepsHonest'
      BY <1>c, <2>1, <2>4, <2>5 DEF SweepsHonest
    <2> QED
      BY <1>0, <1>b, <2>1, <2>2, <2>3, <2>6, CoveredStep
  <1>7. ASSUME NEW s \in Sweeps, Finish(s) \/ Crash(s)
        PROVE  IInv'
    <2>1. UNCHANGED <<rows, sent>> /\ sweep' = [sweep EXCEPT ![s] = AtRest]
      BY <1>7 DEF Finish, Crash
    <2>2. /\ AtRest.row = None /\ AtRest.sub = None
          /\ \A r \in Rows : AtRest.read[r].delivered = {}
      BY DEF AtRest
    <2>3. SweepsHonest'
      BY <1>a, <1>c, <2>1, <2>2 DEF SweepsHonest
    <2> QED
      BY <1>0, <1>b, <2>1, <2>3, CoveredStep
  <1>8. ASSUME Tick
        PROVE  IInv'
    <2>1. UNCHANGED sent
      BY <1>8 DEF Tick
    <2>2. \A r \in Rows :
            /\ rows'[r].delivered = rows[r].delivered
            /\ rows'[r].status = rows[r].status
            /\ rows[r].lease = None => rows'[r].lease = None
      BY <1>8, <1>a DEF Tick, Row
    <2>3. \A t \in Sweeps :
            /\ sweep'[t].read = sweep[t].read
            /\ sweep'[t].row = sweep[t].row
            /\ sweep'[t].done = sweep[t].done
            /\ sweep'[t].sub = sweep[t].sub
      BY <1>8, <1>a DEF Tick, Locals
    <2>4. SweepsHonest'
      BY <1>c, <2>1, <2>3 DEF SweepsHonest
    <2> QED
      BY <1>0, <1>b, <2>1, <2>2, <2>4, CoveredStep
  <1>9. ASSUME UNCHANGED vars
        PROVE  IInv'
    BY <1>9 DEF vars, IInv, TypeOK, DeliveredEverywhere, SweepsHonest, SettledUnleased
  <1> QED
    BY <1>1, <1>2, <1>3, <1>4, <1>5, <1>6, <1>7, <1>8, <1>9 DEF Next, Step

(* The inductive invariant holds at all times.                             *)
LEMMA InvariantCorrect == Spec => []IInv
  <1>1. Init /\ TypeOK => IInv
    BY DispatchAssumption
    DEF Init, AtRest, IInv, DeliveredEverywhere, SweepsHonest, SettledUnleased
  <1>2. IInv /\ [Next]_vars => IInv'
    BY InvariantStep
  <1> QED
    BY <1>1, <1>2, TypeCorrect, PTL DEF Spec

(* At least once: no row is settled as delivered before the transport was  *)
(* given it for every subscription.                                        *)
THEOREM NothingIsLost == Spec => []DeliveredEverywhere
  <1>1. IInv => DeliveredEverywhere
    BY DEF IInv
  <1> QED
    BY <1>1, InvariantCorrect, PTL

(* Recorded deliveries are never forgotten and delivered rows never        *)
(* change.                                                                 *)
THEOREM ProgressIsKept == Spec => ProgressKept
  <1> DEFINE Kept ==
        \A r \in Rows :
          /\ rows[r].delivered \subseteq rows'[r].delivered
          /\ rows[r].status = "delivered" => rows'[r] = rows[r]
          /\ rows[r].status = "dead" => rows'[r].status \in {"dead", "pending"}
  <1>1. ASSUME IInv, [Next]_vars
        PROVE  [Kept]_vars
    <2>a. /\ \A s \in Sweeps : sweep[s] \in Locals
          /\ \A r \in Rows : rows[r] \in Row
          /\ rows \in [Rows -> Row]
      BY <1>1 DEF IInv, TypeOK
    <2>1. ASSUME UNCHANGED rows
          PROVE  Kept
      BY <2>1
    <2>2. ASSUME NEW r \in Rows, Publish(r) \/ Redrive(r)
          PROVE  Kept
      BY <2>2, <2>a DEF Publish, Redrive, Row
    <2>3. ASSUME NEW s \in Sweeps, NEW r \in Rows, ClaimRow(s, r)
          PROVE  Kept
      BY <2>3, <2>a, ClaimKeepsRows
    <2>4. ASSUME NEW s \in Sweeps, Progress(s) \/ Settle(s)
          PROVE  Kept
      <3>1. sweep[s].row \in Rows
        BY <1>1, <2>4, <2>a DEF Progress, Settle, IInv, TypeOK, Locals
      <3>2. CASE Progress(s)
        BY <2>a, <3>1, <3>2 DEF Progress, MayProgress, Row
      <3>3. CASE Settle(s)
        BY <2>a, <3>1, <3>3 DEF Settle, Settled, MayProgress, Row
      <3> QED
        BY <2>4, <3>2, <3>3
    <2>5. ASSUME Tick
          PROVE  Kept
      <3>1. ASSUME NEW r \in Rows
            PROVE  /\ rows'[r].delivered = rows[r].delivered
                   /\ rows'[r].status = rows[r].status
                   /\ rows[r].lease = None => rows'[r] = rows[r]
        BY <2>5, <2>a DEF Tick, Row
      <3> QED
        BY <1>1, <3>1 DEF IInv, SettledUnleased
    <2> QED
      BY <1>1, <2>1, <2>2, <2>3, <2>4, <2>5
      DEF Next, Step, Start, Send, Finish, Crash, vars
  <1>2. Spec => [][Kept]_vars
    BY <1>1, InvariantCorrect, PTL DEF Spec
  <1> QED
    BY <1>2 DEF ProgressKept
=============================================================================
