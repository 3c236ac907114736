---------------------------- MODULE Transactions ----------------------------
(***************************************************************************)
(* Transactions: a body calls resource operations one after the other on a *)
(* private view of the store.  The first call that needs a resource reads  *)
(* its revision and then, page by page, all its records; mutations are     *)
(* staged in the view.  At the end the staged plans are folded to one per  *)
(* record and committed together, provided that no resource that was read  *)
(* has a new revision.  Every commit of a record, of a transaction or not, *)
(* moves the revision of its resource.                                     *)
(*                                                                         *)
(* A record is represented by its unique key, None while it does not       *)
(* exist.  A page holds one record.                                        *)
(***************************************************************************)
EXTENDS Integers, Sequences, FiniteSetsExt

CONSTANTS
  NRecords,      \* number of records, in the order of the pages
  Resources,     \* resources
  ResourceOf,    \* [Records -> Resources]
  Keys,          \* unique keys
  Txs,           \* transactions
  MaxMutations,  \* mutations a transaction may stage
  MaxWrites,     \* bound: commits outside of transactions
  None           \* null

Records == 1 .. NRecords

ASSUME TransactionsAssumption ==
  /\ NRecords \in Nat
  /\ ResourceOf \in [Records -> Resources]
  /\ \A r \in Resources : \E x \in Records : ResourceOf[x] = r
  /\ MaxMutations \in Nat /\ MaxWrites \in Nat
  /\ None \notin Keys /\ None \notin Nat /\ None \notin Resources

VARIABLES
  store,     \* [Records -> Keys \cup {None}]
  claims,    \* [Resources -> [Keys -> the record that holds the key]]
  revision,  \* [Resources -> Nat], the version of the revision document
  tx,        \* [Txs -> the view of the transaction]
  writes     \* history: commits outside of transactions

vars == <<store, claims, revision, tx, writes>>

RecordsOf(r) == {x \in Records : ResourceOf[x] = r}
Stored == Keys \cup {None}
Nothing == [x \in Records |-> None]

(* A view: where the body is, the resource being read with the revision    *)
(* found and the records still to read; the read guards; the records as    *)
(* they were read and as they are staged; the staged records in the order  *)
(* they were first staged, and the number of plans.                        *)
NewView ==
  [pc |-> "body", reading |-> None, found |-> 0, pages |-> {},
   reads |-> [r \in Resources |-> None], base |-> Nothing, view |-> Nothing,
   order |-> <<>>, plans |-> 0]

Snapshots(t) == {r \in Resources : tx[t].reads[r] # None}
Seen(t) == {x \in Records : ResourceOf[x] \in Snapshots(t)}
Staged(t) == {tx[t].order[i] : i \in DOMAIN tx[t].order}

HolderIn(s, r, k) ==
  IF \E x \in RecordsOf(r) : s[x] = k THEN CHOOSE x \in RecordsOf(r) : s[x] = k ELSE None

(* An empty store: no resource has a revision document yet.                *)
Init ==
  /\ store = Nothing
  /\ claims = [r \in Resources |-> [k \in Keys |-> None]]
  /\ revision = [r \in Resources |-> 0]
  /\ tx = [t \in Txs |-> NewView]
  /\ writes = 0

-----------------------------------------------------------------------------
(* Reading a resource: its revision first, then its records.               *)

(* Mutant: the revision is read after the records.                         *)
RevisionAtEnd(t) == revision[tx[t].reading]

(* The revision the read guard is built from.                              *)
GuardRevision(t) == tx[t].found

ReadRevision(t, r) ==
  /\ tx[t].pc = "body" /\ tx[t].reads[r] = None
  /\ tx' = [tx EXCEPT ![t] = [@ EXCEPT !.pc = "paging", !.reading = r,
                                       !.found = revision[r], !.pages = RecordsOf(r)]]
  /\ UNCHANGED <<store, claims, revision, writes>>

(* The last page completes the snapshot and its guard.                     *)
ReadPage(t) ==
  LET x == Min(tx[t].pages)
      read == [tx[t] EXCEPT !.base[x] = store[x], !.view[x] = store[x], !.pages = @ \ {x}]
  IN /\ tx[t].pc = "paging"
     /\ tx' = [tx EXCEPT ![t] =
          IF read.pages # {} THEN read
          ELSE [read EXCEPT !.pc = "body", !.reading = None, !.found = 0,
                            !.reads[tx[t].reading] = GuardRevision(t)]]
     /\ UNCHANGED <<store, claims, revision, writes>>

(* Too many pages, or records: the call fails and no snapshot is kept.     *)
OverBudget(t) ==
  LET Forget(f) == [x \in Records |-> IF ResourceOf[x] = tx[t].reading THEN None ELSE f[x]]
  IN /\ tx[t].pc = "paging"
     /\ tx' = [tx EXCEPT ![t] = [@ EXCEPT !.pc = "body", !.reading = None, !.found = 0,
                                          !.pages = {}, !.base = Forget(tx[t].base),
                                          !.view = Forget(tx[t].view)]]
     /\ UNCHANGED <<store, claims, revision, writes>>

-----------------------------------------------------------------------------
(* Staging a mutation: a create of a new identity, an update, or a delete  *)
(* of a record, as the view has it.                                        *)

(* No other record of the view holds the key.                              *)
FreeInView(t, x, k) ==
  \A y \in RecordsOf(ResourceOf[x]) \ {x} : tx[t].view[y] # k

(* The records staged, in the order of the first plan of each.             *)
Enlisted(t, x) == IF x \in Staged(t) THEN tx[t].order ELSE Append(tx[t].order, x)

Stage(t, x, k) ==
  /\ tx[t].pc = "body" /\ x \in Seen(t)
  /\ tx[t].plans < MaxMutations
  /\ tx[t].view[x] # k
  /\ tx[t].view[x] = None => x \notin Staged(t)
  /\ k # None => FreeInView(t, x, k)
  /\ tx' = [tx EXCEPT ![t] = [@ EXCEPT !.view[x] = k, !.plans = tx[t].plans + 1,
                                       !.order = Enlisted(t, x)]]
  /\ UNCHANGED <<store, claims, revision, writes>>

-----------------------------------------------------------------------------
(* The commit.                                                             *)

(* Mutant: the claim is moved from the key the record has in the view.     *)
LastBefore(t, x) == tx[t].view[x]

(* lowerTransaction folds the plans of a record: its key before is the one *)
(* the first plan found.                                                   *)
FirstBefore(t, x) == tx[t].base[x]

(* Applying the first n folded plans: the last of them that releases or    *)
(* takes a key says who holds it.                                          *)
ClaimsAfter(t, n) ==
  LET Plan(i) == tx[t].order[i]
      Takes(r, k) == {i \in 1 .. n : ResourceOf[Plan(i)] = r /\ tx[t].view[Plan(i)] = k}
      Releases(r, k) == {i \in 1 .. n : /\ ResourceOf[Plan(i)] = r
                                        /\ FirstBefore(t, Plan(i)) = k
                                        /\ tx[t].view[Plan(i)] # k}
  IN [r \in Resources |-> [k \in Keys |->
       LET touching == Takes(r, k) \cup Releases(r, k)
       IN IF touching = {} THEN claims[r][k]
          ELSE IF Max(touching) \in Takes(r, k) THEN Plan(Max(touching)) ELSE None]]

(* The plans are committed one after the other: each finds its key free.   *)
ClaimsFree(t) ==
  \A i \in DOMAIN tx[t].order :
    LET x == tx[t].order[i]
        k == tx[t].view[x]
    IN k # None => ClaimsAfter(t, i - 1)[ResourceOf[x]][k] \in {x, None}

(* Mutant: only the resources that are written are guarded.                *)
WrittenSetHolds(t) ==
  \A r \in Snapshots(t) : (RecordsOf(r) \cap Staged(t) # {}) => tx[t].reads[r] = revision[r]

(* Every resource that was read still has the revision found.              *)
ReadSetHolds(t) == \A r \in Snapshots(t) : tx[t].reads[r] = revision[r]

(* Each plan moves the revision of its resource, but for a create that was *)
(* folded with its delete.                                                 *)
Moved(t) ==
  [r \in Resources |-> revision[r] +
     Cardinality({x \in Staged(t) \cap RecordsOf(r) :
                    tx[t].base[x] # None \/ tx[t].view[x] # None})]

Commit(t) ==
  /\ tx[t].pc = "body"
  /\ \/ /\ ReadSetHolds(t) /\ ClaimsFree(t)
        /\ store' = [x \in Records |-> IF x \in Staged(t) THEN tx[t].view[x] ELSE store[x]]
        /\ claims' = ClaimsAfter(t, Len(tx[t].order))
        /\ revision' = Moved(t)
        /\ tx' = [tx EXCEPT ![t] = [@ EXCEPT !.pc = "committed", !.order = <<>>, !.plans = 0]]
     \/ /\ ~(ReadSetHolds(t) /\ ClaimsFree(t))
        /\ tx' = [tx EXCEPT ![t] = [NewView EXCEPT !.pc = "failed"]]
        /\ UNCHANGED <<store, claims, revision>>
  /\ UNCHANGED writes

(* The body fails, its process dies, or the plans exceed the provider's    *)
(* budget: nothing is committed.                                           *)
Abort(t) ==
  /\ tx[t].pc \in {"body", "paging"}
  /\ tx' = [tx EXCEPT ![t] = [NewView EXCEPT !.pc = "failed"]]
  /\ UNCHANGED <<store, claims, revision, writes>>

(* A commit of one record, outside of any transaction.                     *)
Write(x, k) ==
  LET r == ResourceOf[x]
  IN /\ writes < MaxWrites
     /\ store[x] # k
     /\ k # None => claims[r][k] = None
     /\ store' = [store EXCEPT ![x] = k]
     /\ claims' = [claims EXCEPT ![r] =
          [j \in Keys |-> IF j = k THEN x ELSE IF j = store[x] THEN None ELSE @[j]]]
     /\ revision' = [revision EXCEPT ![r] = @ + 1]
     /\ writes' = writes + 1
     /\ UNCHANGED tx

Next ==
  \/ \E t \in Txs :
       \/ ReadPage(t) \/ OverBudget(t) \/ Commit(t) \/ Abort(t)
       \/ \E r \in Resources : ReadRevision(t, r)
       \/ \E x \in Records, k \in Stored : Stage(t, x, k)
  \/ \E x \in Records, k \in Stored : Write(x, k)

Spec == Init /\ [][Next]_vars

-----------------------------------------------------------------------------
View ==
  [pc : {"body", "paging", "committed", "failed"}, reading : Resources \cup {None},
   found : Nat, pages : SUBSET Records, reads : [Resources -> Nat \cup {None}],
   base : [Records -> Stored], view : [Records -> Stored],
   order : Seq(Records), plans : 0 .. MaxMutations]

(* Every variable keeps its type; a transaction stages only records of     *)
(* resources it has a guard for, each of them once.                        *)
TypeOK ==
  /\ store \in [Records -> Stored]
  /\ claims \in [Resources -> [Keys -> Records \cup {None}]]
  /\ revision \in [Resources -> Nat]
  /\ tx \in [Txs -> View]
  /\ writes \in 0 .. MaxWrites
  /\ \A t \in Txs :
       /\ (tx[t].pc = "paging") = (tx[t].reading # None)
       /\ (tx[t].pc = "paging") = (tx[t].pages # {})
       /\ Staged(t) \subseteq Seen(t)
       /\ \A i, j \in DOMAIN tx[t].order : tx[t].order[i] = tx[t].order[j] => i = j

(* The claims say exactly which record holds which key, whatever a         *)
(* transaction released, took and released again before its commit.        *)
ClaimsExact ==
  \A r \in Resources, k \in Keys : claims[r][k] = HolderIn(store, r, k)

(* A snapshot whose guard still holds is the resource as it is stored,     *)
(* although its pages were read while others committed; and the pages read *)
(* so far are too, as long as the revision found still stands.             *)
GuardedSnapshots ==
  \A t \in Txs, x \in Records :
    LET r == ResourceOf[x]
    IN tx[t].pc # "committed"
         => /\ tx[t].reads[r] = revision[r] => tx[t].base[x] = store[x]
            /\ tx[t].reading = r /\ x \notin tx[t].pages /\ tx[t].found = revision[r]
                 => tx[t].base[x] = store[x]

(* A transaction is one step of the serial store: what it saw is what is   *)
(* stored when it commits, and all it staged is stored then.               *)
Ran ==
  [t \in Txs |->
     IF tx[t].pc = "committed"
     THEN [saw |-> [x \in Seen(t) |-> tx[t].base[x]], left |-> [x \in Seen(t) |-> tx[t].view[x]]]
     ELSE None]

Serial == INSTANCE SerialStore WITH db <- store, ran <- Ran

(* Transactions are serializable: the specification implements the serial  *)
(* store, with each commit a step of it and everything else a stutter.     *)
Serializable == Serial!Spec

=============================================================================
