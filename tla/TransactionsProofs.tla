------------------------- MODULE TransactionsProofs -------------------------
(***************************************************************************)
(* Proofs about Transactions, for every set of resources, records, keys    *)
(* and transactions: the claims are exact, and the specification           *)
(* implements SerialStore.                                                 *)
(***************************************************************************)
EXTENDS Transactions, WellFoundedInduction, FiniteSetTheorems, TLAPS

LEMMA LeastOf ==
  ASSUME NEW S, S \subseteq Nat, S # {}
  PROVE  \E x \in S : \A y \in S : x <= y
  <1>1. \E x \in S : \A y \in S : ~ (<<y, x>> \in OpToRel(<, Nat))
    BY NatLessThanWellFounded, WFMin
  <1>2. PICK x \in S : \A y \in S : ~ (<<y, x>> \in OpToRel(<, Nat))
    BY <1>1
  <1>3. \A y \in S : ~ (y < x)
    BY <1>2 DEF OpToRel
  <1> QED
    BY <1>3

(* The first page to read is one of the pages.                             *)
LEMMA MinOf ==
  ASSUME NEW S, S \subseteq Nat, S # {}
  PROVE  Min(S) \in S
  BY LeastOf DEF Min

(* The last of finitely many positions.                                    *)
LEMMA MaxOf ==
  ASSUME NEW n \in Nat, NEW S, S \subseteq 1 .. n, S # {}
  PROVE  Max(S) \in S /\ \A y \in S : y <= Max(S)
  <1> DEFINE T == {n - y : y \in S}
  <1>0. \A y \in S : n - y \in Nat /\ y \in Int
    OBVIOUS
  <1>1. T \subseteq Nat /\ T # {}
    BY <1>0, Zenon
  <1>2. PICK z \in T : \A w \in T : z <= w
    BY <1>1, LeastOf
  <1>3. PICK x \in S : z = n - x
    BY <1>2
  <1>4. \A y \in S : x >= y
    <2> SUFFICES ASSUME NEW y \in S PROVE x >= y
      OBVIOUS
    <2>1. n - y \in T
      OBVIOUS
    <2>2. n - x <= n - y
      BY <2>1, <1>2, <1>3
    <2>3. x \in Int /\ y \in Int
      BY <1>0
    <2> HIDE DEF T
    <2> QED
      BY <2>2, <2>3
  <1>5. Max(S) \in S /\ \A y \in S : Max(S) >= y
    BY <1>4 DEF Max
  <1> QED
    BY <1>5

-----------------------------------------------------------------------------
(* The inductive invariant.  What holds of one view v, with s the records  *)
(* that are stored and rev the revisions of the resources:                 *)
Listed(s) == {s[i] : i \in DOMAIN s}
StagedIn(v) == Listed(v.order)
SeenIn(v) == {x \in Records : v.reads[ResourceOf[x]] # None}
Working(v) == v.pc \in {"body", "paging"}

(* it is well formed;                                                      *)
Formed(v) ==
  /\ v \in View
  /\ (v.pc = "paging") = (v.reading # None)
  /\ (v.pc = "paging") = (v.pages # {})
  /\ StagedIn(v) \subseteq SeenIn(v)
  /\ \A i, j \in DOMAIN v.order : v.order[i] = v.order[j] => i = j
  /\ v.reading # None =>
       v.pages \subseteq RecordsOf(v.reading) /\ v.reads[v.reading] = None

(* its guards are of revisions the resources have had;                     *)
Behind(v, rev) ==
  /\ \A r \in Resources : v.reads[r] # None => v.reads[r] <= rev[r]
  /\ v.reading # None => v.found <= rev[v.reading]

(* where a guard still holds, the records read are those stored;           *)
Guarded(v, s, rev) ==
  v.pc # "committed" => \A x \in Records :
    /\ v.reads[ResourceOf[x]] = rev[ResourceOf[x]] => v.base[x] = s[x]
    /\ v.reading = ResourceOf[x] /\ x \notin v.pages /\ v.found = rev[ResourceOf[x]]
         => v.base[x] = s[x]

(* a record that is not staged is in the view as it was read;              *)
Overlaid(v) == Working(v) => \A x \in Records \ StagedIn(v) : v.view[x] = v.base[x]

(* and where a guard still holds, the view holds no key twice.             *)
ViewUnique(v, rev) ==
  Working(v) => \A x, y \in Records :
    /\ x # y /\ ResourceOf[x] = ResourceOf[y]
    /\ v.reads[ResourceOf[x]] = rev[ResourceOf[x]] /\ v.view[x] # None
    => v.view[x] # v.view[y]

ViewOK(v, s, rev) ==
  Formed(v) /\ Behind(v, rev) /\ Guarded(v, s, rev) /\ Overlaid(v) /\ ViewUnique(v, rev)

KeysAreUnique(s) ==
  \A x, y \in Records :
    x # y /\ ResourceOf[x] = ResourceOf[y] /\ s[x] # None => s[x] # s[y]

StoreTyped ==
  /\ store \in [Records -> Stored]
  /\ claims \in [Resources -> [Keys -> Records \cup {None}]]
  /\ revision \in [Resources -> Nat]
  /\ writes \in 0 .. MaxWrites

Views == tx \in [Txs -> View] /\ \A t \in Txs : ViewOK(tx[t], store, revision)

IInv == StoreTyped /\ Views /\ KeysAreUnique(store) /\ ClaimsExact

(* It implies the invariants the runs check.                               *)
LEMMA Implied == IInv => TypeOK /\ GuardedSnapshots
  <1> SUFFICES ASSUME IInv PROVE TypeOK /\ GuardedSnapshots
    OBVIOUS
  <1>1. \A t \in Txs : Formed(tx[t]) /\ Guarded(tx[t], store, revision)
    BY DEF IInv, Views, ViewOK
  <1>2. \A t \in Txs :
          /\ (tx[t].pc = "paging") = (tx[t].reading # None)
          /\ (tx[t].pc = "paging") = (tx[t].pages # {})
          /\ \A i, j \in DOMAIN tx[t].order : tx[t].order[i] = tx[t].order[j] => i = j
    BY <1>1 DEF Formed
  <1>3. \A t \in Txs : Staged(t) \subseteq Seen(t)
    <2> SUFFICES ASSUME NEW t \in Txs, NEW x \in Staged(t) PROVE x \in Seen(t)
      OBVIOUS
    <2>1. x \in StagedIn(tx[t])
      BY DEF Staged, StagedIn, Listed
    <2>2. x \in SeenIn(tx[t])
      BY <2>1, <1>1 DEF Formed
    <2>3. x \in Records /\ tx[t].reads[ResourceOf[x]] # None
      BY <2>2 DEF SeenIn
    <2>4. ResourceOf[x] \in Resources
      BY <2>3, TransactionsAssumption
    <2> QED
      BY <2>3, <2>4 DEF Seen, Snapshots
  <1>4. GuardedSnapshots
    <2> SUFFICES ASSUME NEW t \in Txs, NEW x \in Records, tx[t].pc # "committed"
                 PROVE  /\ tx[t].reads[ResourceOf[x]] = revision[ResourceOf[x]]
                             => tx[t].base[x] = store[x]
                        /\ tx[t].reading = ResourceOf[x] /\ x \notin tx[t].pages
                             /\ tx[t].found = revision[ResourceOf[x]]
                             => tx[t].base[x] = store[x]
      BY DEF GuardedSnapshots
    <2>1. Guarded(tx[t], store, revision)
      BY <1>1
    <2> QED
      BY <2>1 DEF Guarded
  <1>5. /\ StoreTyped /\ tx \in [Txs -> View]
    BY DEF IInv, Views
  <1> QED
    BY <1>2, <1>3, <1>4, <1>5 DEF StoreTyped, TypeOK

(* A step of one transaction that leaves the store alone.                  *)
LEMMA LocalStep ==
  ASSUME IInv, NEW t \in Txs, NEW new, ViewOK(new, store, revision),
         tx' = [tx EXCEPT ![t] = new], UNCHANGED <<store, claims, revision, writes>>
  PROVE  IInv'
  <1>1. new \in View
    BY DEF ViewOK, Formed
  <1>2. /\ tx' \in [Txs -> View]
        /\ \A u \in Txs : tx'[u] = IF u = t THEN new ELSE tx[u]
    BY <1>1 DEF IInv, Views
  <1>3. ASSUME NEW u \in Txs PROVE ViewOK(tx'[u], store', revision')
    <2>1. ViewOK(tx'[u], store, revision)
      BY <1>2 DEF IInv, Views
    <2> QED
      BY <2>1
  <1>4. StoreTyped' /\ ClaimsExact'
    BY DEF IInv, StoreTyped, ClaimsExact, HolderIn
  <1>5. KeysAreUnique(store')
    BY DEF IInv
  <1> QED
    BY <1>2, <1>3, <1>4, <1>5 DEF IInv, Views

(* A view that was left alone while others changed the store: a resource   *)
(* that changed has a new revision, so the guards of it are broken.        *)
LEMMA OthersStep ==
  ASSUME NEW rev \in [Resources -> Nat], NEW revN \in [Resources -> Nat], NEW s, NEW sN,
         \A r \in Resources : rev[r] <= revN[r],
         \A x \in Records : sN[x] # s[x] => rev[ResourceOf[x]] # revN[ResourceOf[x]],
         NEW v, ViewOK(v, s, rev)
  PROVE  ViewOK(v, sN, revN)
  <1> USE TransactionsAssumption
  <1>1. Formed(v) /\ Overlaid(v)
    BY DEF ViewOK
  <1>2. /\ v.reads \in [Resources -> Nat \cup {None}] /\ v.found \in Nat
        /\ v.reading \in Resources \cup {None}
    BY DEF ViewOK, Formed, View
  <1>3. \A r \in Resources : v.reads[r] # None => v.reads[r] <= revN[r]
    <2> SUFFICES ASSUME NEW r \in Resources, v.reads[r] # None PROVE v.reads[r] <= revN[r]
      OBVIOUS
    <2>1. v.reads[r] \in Nat /\ rev[r] \in Nat /\ revN[r] \in Nat
      BY <1>2
    <2>2. v.reads[r] <= rev[r] /\ rev[r] <= revN[r]
      BY DEF ViewOK, Behind
    <2> QED
      BY <2>1, <2>2
  <1>4. v.reading # None => v.found <= rev[v.reading] /\ v.found <= revN[v.reading]
    BY <1>2 DEF ViewOK, Behind
  <1>5. ASSUME NEW r \in Resources, v.reads[r] = revN[r]
        PROVE  v.reads[r] = rev[r] /\ revN[r] = rev[r]
    <2>1. v.reads[r] # None /\ rev[r] \in Nat /\ revN[r] \in Nat
      BY <1>2, <1>5
    <2>2. v.reads[r] <= rev[r] /\ rev[r] <= revN[r]
      BY <2>1 DEF ViewOK, Behind
    <2> QED
      BY <2>1, <2>2, <1>5
  <1>6. ASSUME NEW r \in Resources, v.reading = r, v.found = revN[r]
        PROVE  v.found = rev[r] /\ revN[r] = rev[r]
    <2>1. v.reading # None /\ rev[r] \in Nat /\ revN[r] \in Nat
      BY <1>6
    <2>2. v.found <= rev[r] /\ rev[r] <= revN[r]
      BY <2>1, <1>4, <1>6
    <2> QED
      BY <2>1, <2>2, <1>2, <1>6
  <1>7. \A x \in Records : ResourceOf[x] \in Resources
    OBVIOUS
  <1>8. Behind(v, revN)
    BY <1>3, <1>4 DEF Behind
  <1>9. Guarded(v, sN, revN)
    <2> SUFFICES ASSUME v.pc # "committed", NEW x \in Records,
                        \/ v.reads[ResourceOf[x]] = revN[ResourceOf[x]]
                        \/ /\ v.reading = ResourceOf[x] /\ x \notin v.pages
                           /\ v.found = revN[ResourceOf[x]]
                 PROVE  v.base[x] = sN[x]
      BY DEF Guarded
    <2>1. CASE v.reads[ResourceOf[x]] = revN[ResourceOf[x]]
      BY <2>1, <1>5, <1>7 DEF ViewOK, Guarded
    <2>2. CASE /\ v.reading = ResourceOf[x] /\ x \notin v.pages
               /\ v.found = revN[ResourceOf[x]]
      BY <2>2, <1>6, <1>7 DEF ViewOK, Guarded
    <2> QED
      BY <2>1, <2>2
  <1>10. ViewUnique(v, revN)
    BY <1>5, <1>7 DEF ViewOK, ViewUnique, Working
  <1> QED
    BY <1>1, <1>8, <1>9, <1>10 DEF ViewOK

-----------------------------------------------------------------------------
(* The steps of one transaction that leave the store alone.                *)

LEMMA ReadRevisionKeeps ==
  ASSUME IInv, NEW t \in Txs, NEW r \in Resources, ReadRevision(t, r)
  PROVE  IInv'
  <1> USE TransactionsAssumption
  <1> DEFINE v == tx[t]
             new == [v EXCEPT !.pc = "paging", !.reading = r,
                              !.found = revision[r], !.pages = RecordsOf(r)]
  <1>1. /\ v \in View /\ ViewOK(v, store, revision)
        /\ v.pc = "body" /\ v.reads[r] = None
        /\ revision[r] \in Nat
    BY DEF IInv, Views, StoreTyped, ReadRevision
  <1>2. RecordsOf(r) \subseteq Records /\ RecordsOf(r) # {}
    BY DEF RecordsOf
  <1>3. /\ new \in View
        /\ new.pc = "paging" /\ new.reading = r /\ new.found = revision[r]
        /\ new.pages = RecordsOf(r) /\ new.reads = v.reads /\ new.base = v.base
        /\ new.view = v.view /\ new.order = v.order
    BY <1>1, <1>2 DEF View
  <1> HIDE DEF new
  <1>4. Formed(new)
    BY <1>1, <1>2, <1>3 DEF ViewOK, Formed, StagedIn, SeenIn
  <1>5. Behind(new, revision)
    BY <1>1, <1>3 DEF ViewOK, Behind
  <1>6. Guarded(new, store, revision)
    BY <1>1, <1>3 DEF ViewOK, Guarded, RecordsOf
  <1>7. Overlaid(new) /\ ViewUnique(new, revision)
    BY <1>1, <1>3 DEF ViewOK, Overlaid, ViewUnique, Working, StagedIn
  <1>8. ViewOK(new, store, revision)
    BY <1>4, <1>5, <1>6, <1>7 DEF ViewOK
  <1> QED
    BY <1>8, LocalStep DEF ReadRevision, new

(* A view that is over.                                                    *)
LEMMA FailedOK ==
  ASSUME IInv PROVE ViewOK([NewView EXCEPT !.pc = "failed"], store, revision)
  <1> USE TransactionsAssumption
  <1> DEFINE new == [NewView EXCEPT !.pc = "failed"]
  <1>a. /\ <<>> \in Seq(Records) /\ 0 \in 0 .. MaxMutations
        /\ Nothing \in [Records -> Stored]
        /\ [r \in Resources |-> None] \in [Resources -> Nat \cup {None}]
    BY DEF Nothing, Stored
  <1>1. /\ new \in View
        /\ new.pc = "failed" /\ new.reading = None /\ new.found = 0
        /\ new.pages = {} /\ new.order = <<>>
        /\ \A r \in Resources : new.reads[r] = None
    BY <1>a DEF View, NewView
  <1> HIDE DEF new
  <1>2. Formed(new)
    BY <1>1 DEF Formed, StagedIn, Listed, SeenIn
  <1>3. Behind(new, revision)
    BY <1>1 DEF Behind
  <1>4. Guarded(new, store, revision)
    BY <1>1 DEF Guarded, IInv, StoreTyped
  <1>5. Overlaid(new) /\ ViewUnique(new, revision)
    BY <1>1 DEF Overlaid, ViewUnique, Working
  <1> QED
    BY <1>2, <1>3, <1>4, <1>5 DEF ViewOK, new

LEMMA FailKeeps ==
  ASSUME IInv, NEW t \in Txs, tx' = [tx EXCEPT ![t] = [NewView EXCEPT !.pc = "failed"]],
         UNCHANGED <<store, claims, revision, writes>>
  PROVE  IInv'
  BY FailedOK, LocalStep

LEMMA OverBudgetKeeps ==
  ASSUME IInv, NEW t \in Txs, OverBudget(t)
  PROVE  IInv'
  <1> USE TransactionsAssumption
  <1> DEFINE v == tx[t]
             Forget(f) == [x \in Records |-> IF ResourceOf[x] = v.reading THEN None ELSE f[x]]
             new == [v EXCEPT !.pc = "body", !.reading = None, !.found = 0, !.pages = {},
                              !.base = Forget(v.base), !.view = Forget(v.view)]
  <1>1. /\ v \in View /\ ViewOK(v, store, revision) /\ v.pc = "paging"
        /\ v.reading \in Resources /\ v.reads[v.reading] = None
        /\ revision \in [Resources -> Nat]
    BY DEF IInv, Views, StoreTyped, OverBudget, ViewOK, Formed, View
  <1>2. Forget(v.base) \in [Records -> Stored] /\ Forget(v.view) \in [Records -> Stored]
    BY <1>1 DEF View, Stored
  <1>3. /\ new \in View
        /\ new.pc = "body" /\ new.reading = None /\ new.found = 0
        /\ new.pages = {} /\ new.reads = v.reads /\ new.order = v.order
        /\ new.base = Forget(v.base) /\ new.view = Forget(v.view)
    BY <1>1, <1>2 DEF View
  <1> HIDE DEF new
  <1>4. Formed(new)
    BY <1>1, <1>3 DEF ViewOK, Formed, StagedIn, SeenIn
  <1>5. Behind(new, revision)
    BY <1>1, <1>3 DEF ViewOK, Behind
  <1>6. \A x \in Records : new.reads[ResourceOf[x]] = revision[ResourceOf[x]]
          => /\ new.base[x] = v.base[x] /\ new.view[x] = v.view[x]
             /\ v.reads[ResourceOf[x]] = revision[ResourceOf[x]]
    BY <1>1, <1>3
  <1>7. Guarded(new, store, revision)
    BY <1>1, <1>3, <1>6 DEF ViewOK, Guarded
  <1>8. Overlaid(new)
    BY <1>1, <1>3 DEF ViewOK, Overlaid, Working, StagedIn
  <1>9. ViewUnique(new, revision)
    BY <1>1, <1>3, <1>6 DEF ViewOK, ViewUnique, Working
  <1>10. ViewOK(new, store, revision)
    BY <1>4, <1>5, <1>7, <1>8, <1>9 DEF ViewOK
  <1>11. tx' = [tx EXCEPT ![t] = new] /\ UNCHANGED <<store, claims, revision, writes>>
    BY DEF OverBudget, new, IInv, Views
  <1> QED
    BY <1>10, <1>11, LocalStep

LEMMA StageKeeps ==
  ASSUME IInv, NEW t \in Txs, NEW x \in Records, NEW k \in Stored, Stage(t, x, k)
  PROVE  IInv'
  <1> USE TransactionsAssumption
  <1> DEFINE v == tx[t]
             over == [v.view EXCEPT ![x] = k]
             new == [v EXCEPT !.view = over, !.plans = v.plans + 1, !.order = Enlisted(t, x)]
  <1>1. /\ v \in View /\ ViewOK(v, store, revision) /\ v.pc = "body" /\ x \in SeenIn(v)
        /\ v.plans < MaxMutations
        /\ v.order \in Seq(Records) /\ v.view \in [Records -> Stored]
        /\ k # None => \A y \in RecordsOf(ResourceOf[x]) \ {x} : v.view[y] # k
    BY DEF IInv, Views, Stage, Seen, Snapshots, SeenIn, FreeInView, View
  <1>2. /\ Enlisted(t, x) \in Seq(Records)
        /\ Listed(Enlisted(t, x)) = StagedIn(v) \cup {x}
        /\ \A i, j \in DOMAIN Enlisted(t, x) : Enlisted(t, x)[i] = Enlisted(t, x)[j] => i = j
    <2>1. \A i, j \in DOMAIN v.order : v.order[i] = v.order[j] => i = j
      BY <1>1 DEF ViewOK, Formed
    <2>2. Staged(t) = StagedIn(v)
      BY DEF Staged, StagedIn, Listed
    <2>3. CASE x \in Staged(t)
      BY <2>1, <2>2, <2>3, <1>1 DEF Enlisted, StagedIn, Listed
    <2>4. CASE x \notin Staged(t)
      <3>1. /\ Enlisted(t, x) = Append(v.order, x) /\ Len(v.order) \in Nat
            /\ DOMAIN v.order = 1 .. Len(v.order)
            /\ DOMAIN Append(v.order, x) = 1 .. Len(v.order) + 1
            /\ \A i \in 1 .. Len(v.order) : Append(v.order, x)[i] = v.order[i]
            /\ Append(v.order, x)[Len(v.order) + 1] = x
            /\ Append(v.order, x) \in Seq(Records)
        BY <2>4, <1>1 DEF Enlisted
      <3>2. \A i \in DOMAIN v.order : v.order[i] # x
        BY <2>4 DEF Staged
      <3> QED
        BY <3>1, <3>2, <2>1 DEF StagedIn, Listed
    <2> QED
      BY <2>3, <2>4
  <1>a. /\ v.plans + 1 \in 0 .. MaxMutations
        /\ [v.view EXCEPT ![x] = k] \in [Records -> Stored]
    BY <1>1 DEF View
  <1>3. /\ new \in View
        /\ new.pc = "body" /\ new.reading = v.reading /\ new.found = v.found
        /\ new.pages = v.pages /\ new.reads = v.reads /\ new.base = v.base
        /\ new.order = Enlisted(t, x)
        /\ new.view = [v.view EXCEPT ![x] = k]
    BY <1>1, <1>2, <1>a DEF View
  <1> HIDE DEF new
  <1>4. StagedIn(new) = StagedIn(v) \cup {x}
    BY <1>2, <1>3 DEF StagedIn
  <1>5. Formed(new)
    BY <1>1, <1>2, <1>3, <1>4 DEF ViewOK, Formed, SeenIn
  <1>6. Behind(new, revision) /\ Guarded(new, store, revision)
    BY <1>1, <1>3 DEF ViewOK, Behind, Guarded
  <1>7. Overlaid(new)
    BY <1>1, <1>3, <1>4 DEF ViewOK, Overlaid, Working
  <1>8. ViewUnique(new, revision)
    BY <1>1, <1>3 DEF ViewOK, ViewUnique, Working, RecordsOf
  <1>9. ViewOK(new, store, revision)
    BY <1>5, <1>6, <1>7, <1>8 DEF ViewOK
  <1>10. tx' = [tx EXCEPT ![t] = new] /\ UNCHANGED <<store, claims, revision, writes>>
    BY DEF Stage, new, IInv, Views
  <1> QED
    BY <1>9, <1>10, LocalStep

LEMMA ReadPageKeeps ==
  ASSUME IInv, NEW t \in Txs, ReadPage(t)
  PROVE  IInv'
  <1> USE TransactionsAssumption
  <1> DEFINE v == tx[t]
             x == Min(v.pages)
             base == [v.base EXCEPT ![x] = store[x]]
             view == [v.view EXCEPT ![x] = store[x]]
             pages == v.pages \ {x}
             reads == [v.reads EXCEPT ![v.reading] = v.found]
             more == [v EXCEPT !.base = base, !.view = view, !.pages = pages]
             last == [more EXCEPT !.pc = "body", !.reading = None, !.found = 0, !.reads = reads]
  <1>1. /\ v \in View /\ ViewOK(v, store, revision) /\ v.pc = "paging"
        /\ v.reading \in Resources /\ v.reads[v.reading] = None
        /\ v.pages # {} /\ v.pages \subseteq RecordsOf(v.reading)
        /\ v.reads \in [Resources -> Nat \cup {None}] /\ v.found \in Nat
        /\ v.base \in [Records -> Stored] /\ v.view \in [Records -> Stored]
        /\ revision \in [Resources -> Nat] /\ store \in [Records -> Stored]
    BY DEF IInv, Views, StoreTyped, ReadPage, ViewOK, Formed, View
  <1>2. x \in v.pages
    <2>1. v.pages \subseteq Nat
      BY <1>1 DEF RecordsOf, Records
    <2> QED
      BY <2>1, <1>1, MinOf
  <1>3. x \in Records /\ ResourceOf[x] = v.reading
    BY <1>1, <1>2 DEF RecordsOf
  <1>4. /\ base \in [Records -> Stored] /\ view \in [Records -> Stored]
        /\ pages \subseteq Records /\ reads \in [Resources -> Nat \cup {None}]
        /\ base[x] = store[x] /\ view[x] = store[x]
        /\ \A y \in Records \ {x} : base[y] = v.base[y] /\ view[y] = v.view[y]
        /\ reads[v.reading] = v.found
        /\ \A r \in Resources \ {v.reading} : reads[r] = v.reads[r]
    BY <1>1, <1>3 DEF RecordsOf
  <1> HIDE DEF x, base, view, pages, reads
  <1>5. /\ more \in View
        /\ more.pc = v.pc /\ more.reading = v.reading /\ more.found = v.found
        /\ more.pages = pages /\ more.reads = v.reads /\ more.base = base
        /\ more.view = view /\ more.order = v.order /\ more.plans = v.plans
    BY <1>1, <1>4 DEF View
  <1> HIDE DEF more
  <1>6. /\ last \in View
        /\ last.pc = "body" /\ last.reading = None /\ last.found = 0
        /\ last.pages = pages /\ last.reads = reads /\ last.base = base
        /\ last.view = view /\ last.order = v.order /\ last.plans = v.plans
    BY <1>4, <1>5 DEF View
  <1> HIDE DEF last
  <1>7. \A y \in RecordsOf(v.reading) : y \notin StagedIn(v)
    BY <1>1 DEF ViewOK, Formed, SeenIn, RecordsOf
  <1>8. /\ StagedIn(more) = StagedIn(v) /\ StagedIn(last) = StagedIn(v)
        /\ \A i, j \in DOMAIN v.order : v.order[i] = v.order[j] => i = j
        /\ StagedIn(v) \subseteq SeenIn(v)
    BY <1>1, <1>5, <1>6 DEF ViewOK, Formed, StagedIn
  <1>9. \A y \in Records \ StagedIn(v) : view[y] = base[y]
    BY <1>1, <1>4 DEF ViewOK, Overlaid, Working
  <1>10. \A y \in RecordsOf(v.reading) : y \notin pages /\ v.found = revision[v.reading]
           => base[y] = store[y]
    BY <1>1, <1>4 DEF ViewOK, Guarded, RecordsOf, pages
  <1>11. \A y \in Records : v.reads[ResourceOf[y]] = revision[ResourceOf[y]]
           => /\ ResourceOf[y] # v.reading
              /\ base[y] = store[y] /\ base[y] = v.base[y] /\ view[y] = v.view[y]
    BY <1>1, <1>3, <1>4 DEF ViewOK, Guarded
  <1>12. CASE pages # {}
    <2>1. Formed(more)
      BY <1>1, <1>5, <1>8, <1>12 DEF Formed, SeenIn, pages
    <2>2. Behind(more, revision)
      BY <1>1, <1>5 DEF ViewOK, Behind
    <2>3. Guarded(more, store, revision)
      BY <1>1, <1>5, <1>10, <1>11 DEF Guarded, RecordsOf
    <2>4. Overlaid(more)
      BY <1>5, <1>8, <1>9 DEF Overlaid
    <2>5. ViewUnique(more, revision)
      BY <1>1, <1>5, <1>11 DEF ViewOK, ViewUnique, Working
    <2>6. ViewOK(more, store, revision)
      BY <2>1, <2>2, <2>3, <2>4, <2>5 DEF ViewOK
    <2>7. tx' = [tx EXCEPT ![t] = more] /\ UNCHANGED <<store, claims, revision, writes>>
      BY <1>1, <1>12 DEF ReadPage, View, more, pages, base, view, x
    <2> QED
      BY <2>6, <2>7, LocalStep
  <1>13. CASE pages = {}
    <2>1. Formed(last)
      BY <1>1, <1>4, <1>6, <1>8, <1>13 DEF Formed, SeenIn
    <2>2. Behind(last, revision)
      BY <1>1, <1>4, <1>6 DEF ViewOK, Behind
    <2>3. ASSUME NEW y \in Records, reads[ResourceOf[y]] = revision[ResourceOf[y]]
          PROVE  base[y] = store[y]
      <3>1. CASE ResourceOf[y] = v.reading
        BY <3>1, <2>3, <1>4, <1>10, <1>13 DEF RecordsOf
      <3>2. CASE ResourceOf[y] # v.reading
        BY <3>2, <2>3, <1>4, <1>11
      <3> QED
        BY <3>1, <3>2
    <2>4. Guarded(last, store, revision)
      BY <1>6, <2>3 DEF Guarded
    <2>5. Overlaid(last)
      BY <1>6, <1>8, <1>9 DEF Overlaid
    <2>6. ASSUME NEW y \in Records, NEW z \in Records, y # z, ResourceOf[y] = ResourceOf[z],
                 reads[ResourceOf[y]] = revision[ResourceOf[y]], view[y] # None
          PROVE  view[y] # view[z]
      <3>1. CASE ResourceOf[y] = v.reading
        <4>1. view[y] = store[y] /\ view[z] = store[z]
          BY <3>1, <2>6, <2>3, <1>7, <1>9 DEF RecordsOf
        <4> QED
          BY <4>1, <2>6 DEF IInv, KeysAreUnique
      <3>2. CASE ResourceOf[y] # v.reading
        <4>1. v.reads[ResourceOf[y]] = revision[ResourceOf[y]]
          BY <3>2, <2>6, <1>4
        <4>2. view[y] = v.view[y] /\ view[z] = v.view[z]
          BY <4>1, <2>6, <1>11
        <4> QED
          BY <4>1, <4>2, <2>6, <1>1 DEF ViewOK, ViewUnique, Working
      <3> QED
        BY <3>1, <3>2
    <2>7. ViewUnique(last, revision)
      BY <1>6, <2>6 DEF ViewUnique
    <2>8. ViewOK(last, store, revision)
      BY <2>1, <2>2, <2>4, <2>5, <2>7 DEF ViewOK
    <2>9. tx' = [tx EXCEPT ![t] = last] /\ UNCHANGED <<store, claims, revision, writes>>
      BY <1>1, <1>13 DEF ReadPage, GuardRevision, View, last, reads, more, pages, base, view, x
    <2> QED
      BY <2>8, <2>9, LocalStep
  <1> QED
    BY <1>12, <1>13

-----------------------------------------------------------------------------
(* What HolderIn says of a store in which no key is held twice.            *)

LEMMA HolderIs ==
  ASSUME NEW s, KeysAreUnique(s), NEW r \in Resources, NEW x \in RecordsOf(r),
         NEW k \in Keys, s[x] = k
  PROVE  HolderIn(s, r, k) = x
  <1>1. \A y \in RecordsOf(r) : s[y] = k => y = x
    BY TransactionsAssumption DEF KeysAreUnique, RecordsOf
  <1> QED
    BY <1>1 DEF HolderIn

LEMMA HolderNone ==
  ASSUME NEW s, NEW r, NEW k, \A x \in RecordsOf(r) : s[x] # k
  PROVE  HolderIn(s, r, k) = None
  BY DEF HolderIn

(* A claim follows the records: the same ones hold the key.                *)
LEMMA HolderSame ==
  ASSUME NEW s, NEW sN, NEW r, NEW k, \A x \in RecordsOf(r) : (s[x] = k) = (sN[x] = k)
  PROVE  HolderIn(s, r, k) = HolderIn(sN, r, k)
  <1>1. CASE \A x \in RecordsOf(r) : s[x] # k
    BY <1>1, HolderNone
  <1>2. CASE \E x \in RecordsOf(r) : s[x] = k
    <2>1. (CHOOSE x \in RecordsOf(r) : s[x] = k) = CHOOSE x \in RecordsOf(r) : sN[x] = k
      OBVIOUS
    <2> QED
      BY <1>2, <2>1 DEF HolderIn
  <1> QED
    BY <1>1, <1>2

-----------------------------------------------------------------------------
(* A commit outside of transactions.                                       *)

LEMMA WriteUnique ==
  ASSUME IInv, NEW x \in Records, NEW k \in Stored, Write(x, k)
  PROVE  /\ KeysAreUnique(store')
         /\ \A y \in Records : store'[y] = IF y = x THEN k ELSE store[y]
         /\ store' \in [Records -> Stored]
  <1> USE TransactionsAssumption
  <1>1. /\ store' \in [Records -> Stored]
        /\ \A y \in Records : store'[y] = IF y = x THEN k ELSE store[y]
    BY DEF IInv, StoreTyped, Write
  <1>2. ResourceOf[x] \in Resources
    OBVIOUS
  <1>3. k # None => \A y \in RecordsOf(ResourceOf[x]) : store[y] # k
    <2> SUFFICES ASSUME k # None, NEW y \in RecordsOf(ResourceOf[x]), store[y] = k PROVE FALSE
      OBVIOUS
    <2>1. k \in Keys /\ claims[ResourceOf[x]][k] = None
      BY DEF Stored, Write
    <2>2. HolderIn(store, ResourceOf[x], k) = y
      BY <2>1, <1>2, HolderIs DEF IInv
    <2>3. claims[ResourceOf[x]][k] = y
      BY <2>1, <2>2, <1>2 DEF IInv, ClaimsExact
    <2>4. y \in Nat
      BY DEF RecordsOf, Records
    <2> QED
      BY <2>1, <2>3, <2>4
  <1>4. KeysAreUnique(store')
    <2> SUFFICES ASSUME NEW y \in Records, NEW z \in Records, y # z,
                        ResourceOf[y] = ResourceOf[z], store'[y] # None
                 PROVE  store'[y] # store'[z]
      BY DEF KeysAreUnique
    <2>1. CASE y = x
      BY <2>1, <1>1, <1>3 DEF RecordsOf
    <2>2. CASE z = x
      BY <2>2, <1>1, <1>3 DEF RecordsOf
    <2>3. CASE y # x /\ z # x
      BY <2>3, <1>1 DEF IInv, KeysAreUnique
    <2> QED
      BY <2>1, <2>2, <2>3
  <1> QED
    BY <1>1, <1>4

LEMMA WriteKeeps ==
  ASSUME IInv, NEW x \in Records, NEW k \in Stored, Write(x, k)
  PROVE  IInv'
  <1> USE TransactionsAssumption
  <1> DEFINE r == ResourceOf[x]
  <1>1. /\ r \in Resources /\ x \in RecordsOf(r)
        /\ StoreTyped /\ Views /\ KeysAreUnique(store) /\ ClaimsExact
        /\ store[x] # k /\ (k # None => claims[r][k] = None)
    BY DEF IInv, Write, RecordsOf
  <1>2. /\ KeysAreUnique(store')
        /\ \A y \in Records : store'[y] = IF y = x THEN k ELSE store[y]
        /\ store' \in [Records -> Stored]
    BY WriteUnique
  <1>3. /\ revision' \in [Resources -> Nat] /\ revision'[r] = revision[r] + 1
        /\ \A q \in Resources \ {r} : revision'[q] = revision[q]
    BY <1>1 DEF StoreTyped, Write
  <1>4. /\ claims' \in [Resources -> [Keys -> Records \cup {None}]]
        /\ \A q \in Resources \ {r} : claims'[q] = claims[q]
        /\ \A j \in Keys : claims'[r][j] =
             IF j = k THEN x ELSE IF j = store[x] THEN None ELSE claims[r][j]
    BY <1>1 DEF StoreTyped, Write
  <1>5. writes' \in 0 .. MaxWrites
    BY <1>1 DEF StoreTyped, Write
  <1>6. StoreTyped'
    BY <1>2, <1>3, <1>4, <1>5 DEF StoreTyped
  <1>7. Views'
    <2>1. \A q \in Resources : revision[q] <= revision'[q]
      BY <1>1, <1>3 DEF StoreTyped
    <2>2. \A y \in Records : store'[y] # store[y] =>
            revision[ResourceOf[y]] # revision'[ResourceOf[y]]
      BY <1>1, <1>2, <1>3 DEF StoreTyped
    <2>3. \A u \in Txs : ViewOK(tx[u], store', revision')
      <3> SUFFICES ASSUME NEW u \in Txs PROVE ViewOK(tx[u], store', revision')
        OBVIOUS
      <3>1. ViewOK(tx[u], store, revision) /\ revision \in [Resources -> Nat]
        BY <1>1 DEF Views, StoreTyped
      <3> QED
        BY <3>1, <2>1, <2>2, <1>3, OthersStep
    <2> QED
      BY <2>3, <1>1 DEF Views, Write
  <1>8. ClaimsExact'
    <2> SUFFICES ASSUME NEW q \in Resources, NEW j \in Keys
                 PROVE  claims'[q][j] = HolderIn(store', q, j)
      BY DEF ClaimsExact, HolderIn
    <2>0. claims[q][j] = HolderIn(store, q, j)
      BY <1>1 DEF ClaimsExact
    <2>1. CASE q # r
      <3>1. \A y \in RecordsOf(q) : (store[y] = j) = (store'[y] = j)
        BY <2>1, <1>2 DEF RecordsOf
      <3>2. HolderIn(store, q, j) = HolderIn(store', q, j)
        BY <3>1, HolderSame
      <3> QED
        BY <2>0, <2>1, <3>2, <1>4
    <2>2. CASE q = r /\ j = k
      <3>1. store'[x] = j
        BY <1>2, <2>2
      <3>2. HolderIn(store', q, j) = x
        BY <3>1, <2>2, <1>1, <1>2, HolderIs
      <3> QED
        BY <3>2, <2>2, <1>4
    <2>3. CASE q = r /\ j # k /\ j = store[x]
      <3>1. \A y \in RecordsOf(q) : store'[y] # j
        BY <2>3, <1>1, <1>2 DEF RecordsOf, KeysAreUnique
      <3>2. HolderIn(store', q, j) = None
        BY <3>1, HolderNone
      <3> QED
        BY <3>2, <2>3, <1>4
    <2>4. CASE q = r /\ j # k /\ j # store[x]
      <3>1. \A y \in RecordsOf(q) : (store[y] = j) = (store'[y] = j)
        BY <2>4, <1>2 DEF RecordsOf
      <3>2. HolderIn(store, q, j) = HolderIn(store', q, j)
        BY <3>1, HolderSame
      <3> QED
        BY <2>0, <2>4, <3>2, <1>4
    <2> QED
      BY <2>1, <2>2, <2>3, <2>4
  <1> QED
    BY <1>2, <1>6, <1>7, <1>8 DEF IInv

-----------------------------------------------------------------------------
(* The commit of a transaction.                                            *)

Committed(t) ==
  /\ tx[t].pc = "body" /\ ReadSetHolds(t) /\ ClaimsFree(t)
  /\ store' = [x \in Records |-> IF x \in Staged(t) THEN tx[t].view[x] ELSE store[x]]
  /\ claims' = ClaimsAfter(t, Len(tx[t].order))
  /\ revision' = Moved(t)
  /\ tx' = [tx EXCEPT ![t] = [@ EXCEPT !.pc = "committed", !.order = <<>>, !.plans = 0]]
  /\ UNCHANGED writes

(* What the transaction read is what is stored, and what is stored next is *)
(* what it has staged; no key is held twice then.                          *)
LEMMA CommitStores ==
  ASSUME IInv, NEW t \in Txs, Committed(t)
  PROVE  /\ Staged(t) = StagedIn(tx[t]) /\ Seen(t) = SeenIn(tx[t])
         /\ Staged(t) \subseteq Seen(t)
         /\ store' \in [Records -> Stored]
         /\ \A x \in Seen(t) : tx[t].base[x] = store[x] /\ store'[x] = tx[t].view[x]
         /\ \A x \in Records \ Seen(t) : store'[x] = store[x]
         /\ \A x \in Records \ Staged(t) : store'[x] = store[x]
         /\ KeysAreUnique(store')
  <1> USE TransactionsAssumption
  <1> DEFINE v == tx[t]
  <1>1. /\ v \in View /\ ViewOK(v, store, revision) /\ v.pc = "body"
        /\ store \in [Records -> Stored] /\ KeysAreUnique(store)
        /\ v.view \in [Records -> Stored]
        /\ Formed(v) /\ Guarded(v, store, revision) /\ Overlaid(v) /\ ViewUnique(v, revision)
    BY DEF IInv, Views, StoreTyped, Committed, ViewOK, View
  <1>2. Staged(t) = StagedIn(v)
    BY DEF Staged, StagedIn, Listed
  <1>3. Seen(t) = SeenIn(v)
    BY DEF Seen, Snapshots, SeenIn
  <1>4. Staged(t) \subseteq Seen(t) /\ Seen(t) \subseteq Records
    BY <1>1, <1>2, <1>3 DEF Formed, SeenIn
  <1>5. /\ store' \in [Records -> Stored]
        /\ \A x \in Records : store'[x] = IF x \in Staged(t) THEN v.view[x] ELSE store[x]
    BY <1>1 DEF Committed
  <1>6. \A x \in Seen(t) : v.reads[ResourceOf[x]] = revision[ResourceOf[x]]
    BY DEF Seen, Committed, ReadSetHolds
  <1>7. \A x \in Seen(t) : v.base[x] = store[x]
    BY <1>1, <1>4, <1>6 DEF Guarded
  <1>8. \A x \in Seen(t) : store'[x] = v.view[x]
    <2> SUFFICES ASSUME NEW x \in Seen(t) PROVE store'[x] = v.view[x]
      OBVIOUS
    <2>1. CASE x \in Staged(t)
      BY <2>1, <1>4, <1>5
    <2>2. CASE x \notin Staged(t)
      <3>1. v.view[x] = v.base[x]
        BY <2>2, <1>1, <1>2, <1>4 DEF Overlaid, Working
      <3> QED
        BY <3>1, <2>2, <1>4, <1>5, <1>7
    <2> QED
      BY <2>1, <2>2
  <1>9. KeysAreUnique(store')
    <2> SUFFICES ASSUME NEW x \in Records, NEW y \in Records, x # y,
                        ResourceOf[x] = ResourceOf[y], store'[x] # None
                 PROVE  store'[x] # store'[y]
      BY DEF KeysAreUnique
    <2>1. CASE x \in Seen(t)
      <3>1. y \in Seen(t)
        BY <2>1, <1>3 DEF SeenIn
      <3>2. store'[x] = v.view[x] /\ store'[y] = v.view[y]
        BY <3>1, <2>1, <1>8
      <3> QED
        BY <3>2, <2>1, <1>1, <1>6 DEF ViewUnique, Working
    <2>2. CASE x \notin Seen(t)
      <3>1. y \notin Seen(t)
        BY <2>2, <1>3 DEF SeenIn
      <3>2. store'[x] = store[x] /\ store'[y] = store[y]
        BY <3>1, <2>2, <1>4, <1>5
      <3> QED
        BY <3>2, <1>1 DEF KeysAreUnique
    <2> QED
      BY <2>1, <2>2
  <1> QED
    BY <1>2, <1>3, <1>4, <1>5, <1>7, <1>8, <1>9

(* Every resource a transaction changes has a new revision.                *)
LEMMA CommitMoves ==
  ASSUME IInv, NEW t \in Txs, Committed(t)
  PROVE  /\ revision' \in [Resources -> Nat]
         /\ \A r \in Resources : revision[r] <= revision'[r]
         /\ \A x \in Records : store'[x] # store[x] =>
              revision[ResourceOf[x]] # revision'[ResourceOf[x]]
  <1> USE TransactionsAssumption
  <1> DEFINE Changing(r) == {x \in Staged(t) \cap RecordsOf(r) :
                               tx[t].base[x] # None \/ tx[t].view[x] # None}
  <1>1. \A r \in Resources : Changing(r) \subseteq 1 .. NRecords
    BY DEF RecordsOf, Records
  <1>2. IsFiniteSet(1 .. NRecords)
    BY FS_Interval
  <1>3. \A r \in Resources : IsFiniteSet(Changing(r)) /\ Cardinality(Changing(r)) \in Nat
    BY <1>1, <1>2, FS_Subset, FS_CardinalityType
  <1>4. /\ revision \in [Resources -> Nat]
        /\ \A r \in Resources : revision'[r] = revision[r] + Cardinality(Changing(r))
        /\ DOMAIN revision' = Resources /\ revision' = [r \in Resources |-> revision'[r]]
    BY DEF IInv, StoreTyped, Committed, Moved
  <1> HIDE DEF Changing
  <1>5. ASSUME NEW x \in Records, store'[x] # store[x]
        PROVE  revision[ResourceOf[x]] # revision'[ResourceOf[x]]
    <2>1. x \in Staged(t) /\ tx[t].base[x] = store[x] /\ store'[x] = tx[t].view[x]
      BY <1>5, CommitStores
    <2>2. x \in Changing(ResourceOf[x])
      BY <2>1, <1>5 DEF RecordsOf, Changing
    <2>3. Cardinality(Changing(ResourceOf[x])) # 0
      BY <2>2, <1>3, FS_EmptySet
    <2>4. ResourceOf[x] \in Resources
      OBVIOUS
    <2> QED
      BY <2>3, <2>4, <1>3, <1>4
  <1>6. \A r \in Resources : revision'[r] \in Nat /\ revision[r] <= revision'[r]
    BY <1>3, <1>4
  <1> QED
    BY <1>4, <1>5, <1>6

(* After the commit the claims say who holds each key.                     *)
LEMMA CommitClaims ==
  ASSUME IInv, NEW t \in Txs, Committed(t), NEW r \in Resources, NEW k \in Keys
  PROVE  /\ claims'[r][k] = HolderIn(store', r, k)
         /\ claims'[r][k] \in Records \cup {None}
  <1> USE TransactionsAssumption
  <1> DEFINE v == tx[t]
             n == Len(v.order)
             Takes == {i \in 1 .. n : ResourceOf[v.order[i]] = r /\ v.view[v.order[i]] = k}
             Releases == {i \in 1 .. n : /\ ResourceOf[v.order[i]] = r
                                         /\ v.base[v.order[i]] = k
                                         /\ v.view[v.order[i]] # k}
             touching == Takes \cup Releases
  <1>1. /\ v.order \in Seq(Records) /\ n \in Nat /\ DOMAIN v.order = 1 .. n
        /\ \A i \in 1 .. n : v.order[i] \in Records
        /\ \A i, j \in 1 .. n : v.order[i] = v.order[j] => i = j
        /\ KeysAreUnique(store) /\ claims[r][k] = HolderIn(store, r, k)
        /\ claims[r][k] \in Records \cup {None}
    BY DEF IInv, Views, ViewOK, Formed, View, ClaimsExact, StoreTyped
  <1>2. /\ Staged(t) \subseteq Seen(t)
        /\ \A x \in Seen(t) : v.base[x] = store[x] /\ store'[x] = v.view[x]
        /\ \A x \in Records \ Staged(t) : store'[x] = store[x]
        /\ KeysAreUnique(store')
    BY CommitStores
  <1>3. \A x : x \in Staged(t) <=> \E i \in 1 .. n : x = v.order[i]
    BY <1>1 DEF Staged
  <1>4. \A i \in 1 .. n : /\ v.order[i] \in Seen(t)
                          /\ v.base[v.order[i]] = store[v.order[i]]
                          /\ store'[v.order[i]] = v.view[v.order[i]]
    BY <1>2, <1>3
  <1>5. claims'[r][k] = IF touching = {} THEN claims[r][k]
                        ELSE IF Max(touching) \in Takes THEN v.order[Max(touching)] ELSE None
    <2>1. claims' = ClaimsAfter(t, n)
      BY DEF Committed
    <2> QED
      BY <2>1 DEF ClaimsAfter, FirstBefore
  <1>6. touching \subseteq 1 .. n
    OBVIOUS
  <1> HIDE DEF n
  <1>7. CASE touching = {}
    <2>1. \A x \in RecordsOf(r) : (store[x] = k) = (store'[x] = k)
      <3> SUFFICES ASSUME NEW x \in RecordsOf(r) PROVE (store[x] = k) = (store'[x] = k)
        OBVIOUS
      <3>1. CASE x \notin Staged(t)
        BY <3>1, <1>2 DEF RecordsOf
      <3>2. CASE x \in Staged(t)
        <4>1. PICK i \in 1 .. n : x = v.order[i]
          BY <3>2, <1>3
        <4>2. i \notin Takes /\ i \notin Releases
          BY <1>7
        <4>3. v.view[x] # k /\ v.base[x] # k
          BY <4>1, <4>2 DEF RecordsOf
        <4> QED
          BY <4>1, <4>3, <1>4
      <3> QED
        BY <3>1, <3>2
    <2>2. HolderIn(store, r, k) = HolderIn(store', r, k)
      BY <2>1, HolderSame
    <2> QED
      BY <2>2, <1>1, <1>5, <1>7
  <1>8. CASE touching # {} /\ Max(touching) \in Takes
    <2> DEFINE p == v.order[Max(touching)]
    <2>1. Max(touching) \in 1 .. n /\ ResourceOf[p] = r /\ v.view[p] = k
      BY <1>8
    <2>2. p \in RecordsOf(r) /\ store'[p] = k
      BY <2>1, <1>1, <1>4 DEF RecordsOf
    <2> HIDE DEF p
    <2>3. HolderIn(store', r, k) = p
      BY <2>2, <1>2, HolderIs
    <2> QED
      BY <2>1, <2>3, <1>1, <1>5, <1>8 DEF p
  <1>9. CASE touching # {} /\ Max(touching) \notin Takes
    <2> DEFINE m == Max(touching)
               p == v.order[m]
    <2>1. m \in touching /\ \A i \in touching : i <= m
      BY <1>1, <1>6, <1>9, MaxOf
    <2>2. /\ m \in 1 .. n /\ p \in RecordsOf(r) /\ p \in Staged(t)
          /\ store[p] = k /\ v.view[p] # k
      BY <2>1, <1>1, <1>3, <1>4, <1>9 DEF RecordsOf
    <2> HIDE DEF m
    <2>3. ASSUME NEW x \in RecordsOf(r), store'[x] = k
          PROVE  FALSE
      <3>1. x \in Records
        BY DEF RecordsOf
      <3>2. CASE x \notin Staged(t)
        <4>1. store[x] = k
          BY <3>1, <3>2, <2>3, <1>2
        <4> QED
          BY <4>1, <3>2, <2>2, <1>1 DEF KeysAreUnique, RecordsOf
      <3>3. CASE x \in Staged(t)
        <4>1. PICK i \in 1 .. n : x = v.order[i]
          BY <3>3, <1>3
        <4>2. v.view[x] = k
          BY <4>1, <2>3, <1>4
        <4>3. i \in Takes /\ i <= m /\ i # m
          BY <4>1, <4>2, <2>1, <2>2 DEF RecordsOf
        <4>4. ASSUME NEW j \in 1 .. (i - 1), ResourceOf[v.order[j]] = r, v.view[v.order[j]] = k
              PROVE  FALSE
          <5>1. j \in 1 .. n /\ j # i
            BY <1>1
          <5>2. v.order[j] \in RecordsOf(r) /\ store'[v.order[j]] = k
            BY <5>1, <4>4, <1>1, <1>4 DEF RecordsOf
          <5>3. v.order[j] = x
            BY <5>2, <2>3, <1>2 DEF KeysAreUnique, RecordsOf
          <5> QED
            BY <5>1, <5>3, <4>1, <1>1
        <4>5. ASSUME NEW j \in 1 .. (i - 1), ResourceOf[v.order[j]] = r, v.base[v.order[j]] = k
              PROVE  FALSE
          <5>1. j \in 1 .. n /\ j # m
            BY <4>3, <2>2, <1>1
          <5>2. v.order[j] \in RecordsOf(r) /\ store[v.order[j]] = k
            BY <5>1, <4>5, <1>1, <1>4 DEF RecordsOf
          <5>3. v.order[j] = p
            BY <5>2, <2>2, <1>1 DEF KeysAreUnique, RecordsOf
          <5> QED
            BY <5>1, <5>3, <2>2, <1>1
        <4>6. ClaimsAfter(t, i - 1)[r][k] = claims[r][k]
          <5> DEFINE T == {j \in 1 .. (i - 1) : ResourceOf[v.order[j]] = r /\ v.view[v.order[j]] = k}
                     R == {j \in 1 .. (i - 1) : /\ ResourceOf[v.order[j]] = r
                                                /\ v.base[v.order[j]] = k
                                                /\ v.view[v.order[j]] # k}
          <5>1. T \cup R = {}
            BY <4>4, <4>5
          <5>2. ClaimsAfter(t, i - 1)[r][k] =
                  IF T \cup R = {} THEN claims[r][k]
                  ELSE IF Max(T \cup R) \in T THEN v.order[Max(T \cup R)] ELSE None
            BY DEF ClaimsAfter, FirstBefore
          <5> QED
            BY <5>1, <5>2
        <4>7. claims[r][k] = p
          BY <2>2, <1>1, HolderIs
        <4>8. ClaimsAfter(t, i - 1)[r][k] \in {x, None}
          <5>1. k # None /\ i \in DOMAIN v.order /\ ResourceOf[x] = r
            BY <1>1 DEF RecordsOf
          <5> QED
            BY <5>1, <4>1, <4>2 DEF Committed, ClaimsFree
        <4>9. p \in Nat /\ p # x
          BY <2>2, <4>2 DEF RecordsOf, Records
        <4> QED
          BY <4>6, <4>7, <4>8, <4>9
      <3> QED
        BY <3>2, <3>3
    <2>4. HolderIn(store', r, k) = None
      BY <2>3, HolderNone
    <2> QED
      BY <2>4, <1>5, <1>9
  <1> QED
    BY <1>7, <1>8, <1>9

(* The view of a transaction that has committed.                           *)
Over(v) == [v EXCEPT !.pc = "committed", !.order = <<>>, !.plans = 0]

LEMMA OverIs ==
  ASSUME NEW v \in View
  PROVE  /\ Over(v) \in View
         /\ Over(v).pc = "committed" /\ Over(v).reading = v.reading
         /\ Over(v).found = v.found /\ Over(v).pages = v.pages /\ Over(v).reads = v.reads
         /\ Over(v).base = v.base /\ Over(v).view = v.view /\ Over(v).order = <<>>
  <1>1. <<>> \in Seq(Records) /\ 0 \in 0 .. MaxMutations
    BY TransactionsAssumption
  <1> QED
    BY <1>1 DEF Over, View

LEMMA CommitKeeps ==
  ASSUME IInv, NEW t \in Txs, Committed(t)
  PROVE  IInv'
  <1> USE TransactionsAssumption
  <1> DEFINE v == tx[t]
  <1>1. /\ StoreTyped /\ tx \in [Txs -> View]
        /\ \A u \in Txs : ViewOK(tx[u], store, revision)
        /\ v \in View /\ v.pc = "body"
    BY DEF IInv, Views, Committed
  <1>2. store' \in [Records -> Stored] /\ KeysAreUnique(store')
    BY CommitStores
  <1>3. /\ revision \in [Resources -> Nat] /\ revision' \in [Resources -> Nat]
        /\ \A r \in Resources : revision[r] <= revision'[r]
        /\ \A x \in Records : store'[x] # store[x] =>
             revision[ResourceOf[x]] # revision'[ResourceOf[x]]
    BY <1>1, CommitMoves DEF StoreTyped
  <1>4. \A r \in Resources, k \in Keys :
          /\ claims'[r][k] = HolderIn(store', r, k)
          /\ claims'[r][k] \in Records \cup {None}
    BY CommitClaims
  <1>5. claims' \in [Resources -> [Keys -> Records \cup {None}]]
    <2>1. /\ claims' = [r \in Resources |-> claims'[r]]
          /\ \A r \in Resources : claims'[r] = [k \in Keys |-> claims'[r][k]]
      BY DEF Committed, ClaimsAfter
    <2>2. \A r \in Resources : claims'[r] \in [Keys -> Records \cup {None}]
      BY <2>1, <1>4
    <2> QED
      BY <2>1, <2>2
  <1>6. StoreTyped'
    BY <1>1, <1>2, <1>3, <1>5 DEF StoreTyped, Committed
  <1>7. ClaimsExact'
    BY <1>4 DEF ClaimsExact, HolderIn
  <1>8. /\ Over(v) \in View
        /\ Over(v).pc = "committed" /\ Over(v).reading = v.reading
        /\ Over(v).found = v.found /\ Over(v).pages = v.pages /\ Over(v).reads = v.reads
        /\ Over(v).base = v.base /\ Over(v).view = v.view /\ Over(v).order = <<>>
    BY <1>1, OverIs
  <1>9. /\ tx' \in [Txs -> View]
        /\ \A u \in Txs : tx'[u] = IF u = t THEN Over(v) ELSE tx[u]
    <2>1. tx' = [tx EXCEPT ![t] = Over(v)]
      BY DEF Committed, Over
    <2> QED
      BY <2>1, <1>1, <1>8
  <1>10. \A u \in Txs : ViewOK(tx[u], store', revision')
    <2> SUFFICES ASSUME NEW u \in Txs PROVE ViewOK(tx[u], store', revision')
      OBVIOUS
    <2> QED
      BY <1>1, <1>3, OthersStep
  <1>11. ViewOK(Over(v), store', revision')
    <2>0. Formed(v) /\ Behind(v, revision') /\ v.reading = None /\ v.pages = {}
      BY <1>1, <1>10 DEF ViewOK, Formed
    <2> HIDE DEF v
    <2>1. Formed(Over(v))
      BY <2>0, <1>8 DEF Formed, StagedIn, Listed
    <2>2. Behind(Over(v), revision')
      BY <2>0, <1>8 DEF Behind
    <2>3. Guarded(Over(v), store', revision')
      BY <1>8 DEF Guarded
    <2>4. Overlaid(Over(v)) /\ ViewUnique(Over(v), revision')
      BY <1>8 DEF Overlaid, ViewUnique, Working
    <2> QED
      BY <2>1, <2>2, <2>3, <2>4 DEF ViewOK
  <1>12. Views'
    BY <1>9, <1>10, <1>11 DEF Views
  <1> QED
    BY <1>2, <1>6, <1>7, <1>12 DEF IInv

-----------------------------------------------------------------------------
LEMMA CommitOrFail ==
  ASSUME NEW t \in Txs, Commit(t)
  PROVE  \/ Committed(t)
         \/ /\ tx' = [tx EXCEPT ![t] = [NewView EXCEPT !.pc = "failed"]]
            /\ UNCHANGED <<store, claims, revision, writes>>
  BY DEF Commit, Committed

LEMMA InitIInv == Init => IInv
  <1> SUFFICES ASSUME Init PROVE IInv
    OBVIOUS
  <1> USE TransactionsAssumption
  <1>1. \A x \in Records : store[x] = None
    BY DEF Init, Nothing
  <1>2. StoreTyped
    BY DEF Init, StoreTyped, Nothing, Stored
  <1>3. KeysAreUnique(store)
    BY <1>1 DEF KeysAreUnique
  <1>4. ClaimsExact
    <2> SUFFICES ASSUME NEW r \in Resources, NEW k \in Keys
                 PROVE  claims[r][k] = HolderIn(store, r, k)
      BY DEF ClaimsExact
    <2>1. \A x \in RecordsOf(r) : store[x] # k
      BY <1>1 DEF RecordsOf
    <2>2. HolderIn(store, r, k) = None
      BY <2>1, HolderNone
    <2> QED
      BY <2>2 DEF Init
  <1>5. /\ NewView \in View
        /\ NewView.pc = "body" /\ NewView.reading = None /\ NewView.pages = {}
        /\ NewView.order = <<>> /\ NewView.base = Nothing /\ NewView.view = Nothing
        /\ \A r \in Resources : NewView.reads[r] = None
    <2>1. /\ <<>> \in Seq(Records) /\ 0 \in 0 .. MaxMutations
          /\ Nothing \in [Records -> Stored]
          /\ [r \in Resources |-> None] \in [Resources -> Nat \cup {None}]
      BY DEF Nothing, Stored
    <2> QED
      BY <2>1 DEF View, NewView
  <1>6. Formed(NewView)
    BY <1>5 DEF Formed, StagedIn, Listed, SeenIn
  <1>7. Behind(NewView, revision) /\ Guarded(NewView, store, revision)
    BY <1>1, <1>5 DEF Behind, Guarded, Nothing
  <1>8. Overlaid(NewView) /\ ViewUnique(NewView, revision)
    BY <1>5, <1>2 DEF Overlaid, ViewUnique, Nothing
  <1>9. ViewOK(NewView, store, revision)
    BY <1>6, <1>7, <1>8 DEF ViewOK
  <1>10. Views
    BY <1>5, <1>9 DEF Init, Views
  <1> QED
    BY <1>2, <1>3, <1>4, <1>10 DEF IInv

LEMMA NextIInv == IInv /\ [Next]_vars => IInv'
  <1> SUFFICES ASSUME IInv, [Next]_vars PROVE IInv'
    OBVIOUS
  <1>1. ASSUME NEW t \in Txs, ReadPage(t) PROVE IInv'
    BY <1>1, ReadPageKeeps
  <1>2. ASSUME NEW t \in Txs, OverBudget(t) PROVE IInv'
    BY <1>2, OverBudgetKeeps
  <1>3. ASSUME NEW t \in Txs, Commit(t) PROVE IInv'
    BY <1>3, CommitOrFail, CommitKeeps, FailKeeps
  <1>4. ASSUME NEW t \in Txs, Abort(t) PROVE IInv'
    BY <1>4, FailKeeps DEF Abort
  <1>5. ASSUME NEW t \in Txs, NEW r \in Resources, ReadRevision(t, r) PROVE IInv'
    BY <1>5, ReadRevisionKeeps
  <1>6. ASSUME NEW t \in Txs, NEW x \in Records, NEW k \in Stored, Stage(t, x, k) PROVE IInv'
    BY <1>6, StageKeeps
  <1>7. ASSUME NEW x \in Records, NEW k \in Stored, Write(x, k) PROVE IInv'
    BY <1>7, WriteKeeps
  <1>8. CASE UNCHANGED vars
    <2>1. StoreTyped' /\ ClaimsExact'
      BY <1>8 DEF vars, IInv, StoreTyped, ClaimsExact, HolderIn
    <2>2. Views' /\ KeysAreUnique(store')
      BY <1>8 DEF vars, IInv, Views
    <2> QED
      BY <2>1, <2>2 DEF IInv
  <1> QED
    BY <1>1, <1>2, <1>3, <1>4, <1>5, <1>6, <1>7, <1>8 DEF Next

LEMMA Invariant == Spec => []IInv
  BY InitIInv, NextIInv, PTL DEF Spec

(* Every variable keeps its type, and a transaction stages each record     *)
(* once, of resources it has a guard for.                                  *)
THEOREM TypeCorrect == Spec => []TypeOK
  <1>1. IInv => TypeOK
    BY Implied
  <1> QED
    BY <1>1, Invariant, PTL

(* However transactions and other commits interleave, and whatever keys a  *)
(* transaction moves between its records, the claims name the holders.     *)
THEOREM ClaimsNameHolders == Spec => []ClaimsExact
  <1>1. IInv => ClaimsExact
    BY DEF IInv
  <1> QED
    BY <1>1, Invariant, PTL

(* A guard that holds says that the snapshot is what is stored.            *)
THEOREM GuardsProtect == Spec => []GuardedSnapshots
  <1>1. IInv => GuardedSnapshots
    BY Implied
  <1> QED
    BY <1>1, Invariant, PTL

-----------------------------------------------------------------------------
(* The refinement.                                                         *)

(* What a view has to show for itself.                                     *)
Outcome(v) ==
  IF v.pc = "committed"
  THEN [saw |-> [x \in SeenIn(v) |-> v.base[x]], left |-> [x \in SeenIn(v) |-> v.view[x]]]
  ELSE None

LEMMA RanIs == Ran = [t \in Txs |-> Outcome(tx[t])]
  <1>1. \A t \in Txs : Seen(t) = SeenIn(tx[t])
    BY TransactionsAssumption DEF Seen, Snapshots, SeenIn
  <1>2. ASSUME NEW t \in Txs
        PROVE  (IF tx[t].pc = "committed"
                THEN [saw |-> [x \in Seen(t) |-> tx[t].base[x]],
                      left |-> [x \in Seen(t) |-> tx[t].view[x]]]
                ELSE None) = Outcome(tx[t])
    BY <1>1 DEF Outcome
  <1> QED
    BY <1>2 DEF Ran

LEMMA RanNext == Ran' = [t \in Txs |-> Outcome(tx'[t])]
  <1>1. (Ran = [t \in Txs |-> Outcome(tx[t])])'
    BY RanIs, PTL
  <1> QED
    BY <1>1

(* A step of one transaction that is not its commit is a stutter.          *)
LEMMA LocalStutter ==
  ASSUME IInv, NEW t \in Txs, NEW new, new.pc # "committed", tx[t].pc # "committed",
         tx' = [tx EXCEPT ![t] = new], UNCHANGED store
  PROVE  UNCHANGED <<store, Ran>>
  <1>1. \A u \in Txs : tx'[u] = IF u = t THEN new ELSE tx[u]
    BY DEF IInv, Views
  <1>2. Outcome(new) = None /\ Outcome(tx[t]) = None
    BY DEF Outcome
  <1>3. \A u \in Txs : Outcome(tx'[u]) = Outcome(tx[u])
    BY <1>1, <1>2
  <1> QED
    BY <1>3, RanIs, RanNext

LEMMA WriteSerial ==
  ASSUME IInv, NEW x \in Records, NEW k \in Stored, Write(x, k)
  PROVE  Serial!Next
  <1>1. KeysAreUnique(store')
    BY WriteUnique
  <1>2. Serial!KeysAreUnique(store')
    BY <1>1 DEF KeysAreUnique, Serial!KeysAreUnique
  <1>3. store' \in {[store EXCEPT ![x] = j] : j \in Keys \cup {None}}
    BY DEF Write, Stored
  <1>4. UNCHANGED Ran
    <2>1. tx' = tx
      BY DEF Write
    <2> QED
      BY <2>1, RanIs, RanNext
  <1>5. Serial!Write(x)
    BY <1>2, <1>3, <1>4 DEF Serial!Write
  <1> QED
    BY <1>5 DEF Serial!Next

LEMMA CommitSerial ==
  ASSUME IInv, NEW t \in Txs, Committed(t)
  PROVE  Serial!Next
  <1> DEFINE v == tx[t]
             saw == [x \in Seen(t) |-> store[x]]
             left == [x \in Seen(t) |-> store'[x]]
  <1>1. /\ Seen(t) = SeenIn(v) /\ Seen(t) \subseteq Records
        /\ store' \in [Records -> Stored]
        /\ \A x \in Seen(t) : v.base[x] = store[x] /\ store'[x] = v.view[x]
        /\ \A x \in Records \ Seen(t) : store'[x] = store[x]
        /\ KeysAreUnique(store')
    BY CommitStores DEF Seen
  <1>2. v \in View /\ v.pc = "body"
    BY DEF IInv, Views, Committed
  <1>3. /\ Over(v).pc = "committed" /\ Over(v).reads = v.reads
        /\ Over(v).base = v.base /\ Over(v).view = v.view
    BY <1>2, OverIs
  <1>4. SeenIn(Over(v)) = Seen(t)
    BY <1>1, <1>3 DEF SeenIn
  <1>5. Outcome(Over(v)) = [saw |-> saw, left |-> left]
    <2>1. [x \in SeenIn(Over(v)) |-> Over(v).base[x]] = saw
      BY <1>1, <1>3, <1>4
    <2>2. [x \in SeenIn(Over(v)) |-> Over(v).view[x]] = left
      BY <1>1, <1>3, <1>4
    <2> QED
      BY <2>1, <2>2, <1>3 DEF Outcome
  <1>6. Outcome(v) = None
    BY <1>2 DEF Outcome
  <1> HIDE DEF saw, left
  <1>7. \A u \in Txs : tx'[u] = IF u = t THEN Over(v) ELSE tx[u]
    BY DEF Committed, Over, IInv, Views
  <1>8. Ran' = [Ran EXCEPT ![t] = [saw |-> saw, left |-> left]]
    BY <1>5, <1>7, RanIs, RanNext
  <1>9. Ran[t] = None
    BY <1>6, RanIs
  <1>10. Serial!KeysAreUnique(store')
    BY <1>1 DEF KeysAreUnique, Serial!KeysAreUnique
  <1>11. Serial!Transact(t)
    BY <1>1, <1>8, <1>9, <1>10 DEF Serial!Transact, Stored, saw, left
  <1> QED
    BY <1>11 DEF Serial!Next

LEMMA InitSerial == Init => Serial!Init
  <1> SUFFICES ASSUME Init PROVE Serial!Init
    OBVIOUS
  <1>1. \A t \in Txs : tx[t] = NewView /\ NewView.pc = "body"
    BY DEF Init, NewView
  <1>2. \A t \in Txs : Outcome(tx[t]) = None
    BY <1>1 DEF Outcome
  <1>3. Ran = [t \in Txs |-> None]
    BY <1>2, RanIs
  <1> QED
    BY <1>3 DEF Init, Nothing, Serial!Init

LEMMA NextSerial == IInv /\ [Next]_vars => [Serial!Next]_(Serial!serialVars)
  <1> SUFFICES ASSUME IInv, [Next]_vars
               PROVE  Serial!Next \/ UNCHANGED <<store, Ran>>
    BY DEF Serial!serialVars
  <1>0. \A t \in Txs : tx[t] \in View
    BY DEF IInv, Views
  <1>1. ASSUME NEW t \in Txs, ReadPage(t) PROVE UNCHANGED <<store, Ran>>
    <2>1. tx[t].pc = "paging" /\ UNCHANGED store
      BY <1>1 DEF ReadPage
    <2>2. \E new : tx' = [tx EXCEPT ![t] = new]
      BY <1>1 DEF ReadPage
    <2>3. PICK new : tx' = [tx EXCEPT ![t] = new]
      BY <2>2
    <2>4. new.pc \in {"paging", "body"}
      <3>1. new = tx'[t]
        BY <2>3 DEF IInv, Views
      <3> QED
        BY <3>1, <1>0, <1>1 DEF ReadPage, IInv, Views, View
    <2> QED
      BY <2>1, <2>3, <2>4, LocalStutter
  <1>2. ASSUME NEW t \in Txs, OverBudget(t) PROVE UNCHANGED <<store, Ran>>
    <2> DEFINE Forget(f) ==
                 [x \in Records |-> IF ResourceOf[x] = tx[t].reading THEN None ELSE f[x]]
               new == [tx[t] EXCEPT !.pc = "body", !.reading = None, !.found = 0,
                                    !.pages = {}, !.base = Forget(tx[t].base),
                                    !.view = Forget(tx[t].view)]
    <2>1. /\ tx[t].pc = "paging" /\ UNCHANGED store
          /\ tx' = [tx EXCEPT ![t] = new]
      BY <1>2 DEF OverBudget
    <2>2. new.pc = "body"
      BY <1>0 DEF View
    <2> QED
      BY <2>1, <2>2, LocalStutter
  <1>3. ASSUME NEW t \in Txs, tx[t].pc # "committed", UNCHANGED store,
               tx' = [tx EXCEPT ![t] = [NewView EXCEPT !.pc = "failed"]]
        PROVE  UNCHANGED <<store, Ran>>
    <2>1. [NewView EXCEPT !.pc = "failed"].pc = "failed"
      BY DEF NewView
    <2> QED
      BY <2>1, <1>3, LocalStutter
  <1>4. ASSUME NEW t \in Txs, Commit(t) PROVE Serial!Next \/ UNCHANGED <<store, Ran>>
    <2>1. tx[t].pc # "committed"
      BY <1>4 DEF Commit
    <2> QED
      BY <2>1, <1>3, <1>4, CommitOrFail, CommitSerial
  <1>5. ASSUME NEW t \in Txs, Abort(t) PROVE UNCHANGED <<store, Ran>>
    BY <1>3, <1>5 DEF Abort
  <1>6. ASSUME NEW t \in Txs, NEW r \in Resources, ReadRevision(t, r)
        PROVE  UNCHANGED <<store, Ran>>
    <2> DEFINE new == [tx[t] EXCEPT !.pc = "paging", !.reading = r,
                                    !.found = revision[r], !.pages = RecordsOf(r)]
    <2>1. /\ tx[t].pc = "body" /\ UNCHANGED store
          /\ tx' = [tx EXCEPT ![t] = new]
      BY <1>6 DEF ReadRevision
    <2>2. new.pc = "paging"
      BY <1>0 DEF View
    <2> QED
      BY <2>1, <2>2, LocalStutter
  <1>7. ASSUME NEW t \in Txs, NEW x \in Records, NEW k \in Stored, Stage(t, x, k)
        PROVE  UNCHANGED <<store, Ran>>
    <2> DEFINE over == [tx[t].view EXCEPT ![x] = k]
               new == [tx[t] EXCEPT !.view = over, !.plans = tx[t].plans + 1,
                                    !.order = Enlisted(t, x)]
    <2>1. /\ tx[t].pc = "body" /\ UNCHANGED store
          /\ tx' = [tx EXCEPT ![t] = new]
      BY <1>7 DEF Stage
    <2>2. new.pc = "body"
      BY <1>0, <2>1 DEF View
    <2> QED
      BY <2>1, <2>2, LocalStutter
  <1>8. ASSUME NEW x \in Records, NEW k \in Stored, Write(x, k) PROVE Serial!Next
    BY <1>8, WriteSerial
  <1>9. CASE UNCHANGED vars
    <2>1. tx' = tx /\ store' = store
      BY <1>9 DEF vars
    <2> QED
      BY <2>1, RanIs, RanNext
  <1> QED
    BY <1>1, <1>2, <1>4, <1>5, <1>6, <1>7, <1>8, <1>9 DEF Next

(* Transactions are serializable: with pages read one by one, operations   *)
(* staged, and other commits in between, the specification implements a    *)
(* store in which each transaction is a single step.                       *)
THEOREM TransactionsSerializable == Spec => Serializable
  <1>1. Init => Serial!Init
    BY InitSerial
  <1>2. IInv /\ [Next]_vars => [Serial!Next]_(Serial!serialVars)
    BY NextSerial
  <1> QED
    BY <1>1, <1>2, Invariant, PTL DEF Spec, Serializable, Serial!Spec
=============================================================================
