---------------------------- MODULE Projections ----------------------------
(***************************************************************************)
(* Projections: aggregates over a source's records, kept up to date from   *)
(* change events.  Events reach the appliers at least once and in any      *)
(* order; a ledger per record says which revision the aggregates contain   *)
(* and what it contributed.  A rebuild scans the source into a generation  *)
(* of its own while events go on being applied to the active one, and      *)
(* publishes it by a compare-and-swap on the meta document, which every    *)
(* applied event writes too.                                               *)
(*                                                                         *)
(* A record is abstracted to its revision and its contribution: the group  *)
(* and the value it adds there.  An applier's last write is one atomic     *)
(* putDocuments guarded by the versions of the meta document, the ledger   *)
(* entry and the groups; all writers of an active generation write meta,   *)
(* so that its version stands for them all.                                *)
(***************************************************************************)
EXTENDS Integers

CONSTANTS
  NRecords,     \* number of source records
  Groups,       \* group keys
  Contribs,     \* contributions a record may make, [key : Groups, value : Int]
  Appliers,     \* appliers of events that may be at work at once
  Rebuilders,   \* rebuilds that may be at work at once
  MaxVersion,   \* bound: revisions of a record
  MaxGen,       \* bound: generations ever reserved
  None          \* null

ASSUME ProjectionsAssumption ==
  /\ NRecords \in Nat /\ MaxVersion \in Nat /\ MaxGen \in Nat
  /\ Contribs \subseteq [key : Groups, value : Int]
  /\ None \notin Contribs \cup Int

Records == 1 .. NRecords
Revisions == 0 .. MaxVersion
Generations == 1 .. MaxGen
Events == [id : Records, version : 1 .. MaxVersion]
Entry == [version : Revisions, gives : Contribs \cup {None}]
Source == [version : Revisions, deleted : BOOLEAN, gives : Contribs \cup {None}]
Meta == [gen : 0 .. MaxGen, active : BOOLEAN, reserved : 0 .. MaxGen, version : Nat \ {0}]

ASSUME NullAssumption == None \notin Source /\ None \notin Entry /\ None \notin Meta

VARIABLES
  record,   \* [Records -> [version, deleted, gives]]; version 0: not created
  pending,  \* events not acknowledged
  meta,     \* the meta document or None
  contrib,  \* [Generations -> [Records -> Entry or None]], the ledgers
  group,    \* [Generations -> [Groups -> Int]], the aggregates
  apc,      \* [Appliers -> where it is]
  app,      \* [Appliers -> its locals]
  rpc,      \* [Rebuilders -> where it is]
  reb       \* [Rebuilders -> its locals]

vars == <<record, pending, meta, contrib, group, apc, app, rpc, reb>>

Unborn == [version |-> 0, deleted |-> FALSE, gives |-> None]
NoLedger == [r \in Records |-> None]
Zero == [k \in Groups |-> 0]
AtRest == [event |-> None, meta |-> None, entry |-> None, seen |-> None]
NoRebuild == [prev |-> None, gen |-> 0, version |-> 0, next |-> 1]

(* The value a contribution adds to a group.                               *)
Adds(c, k) == IF c # None /\ c.key = k THEN c.value ELSE 0
GivenBy(entry) == IF entry = None THEN None ELSE entry.gives

(* What values of the records add up to, one after the other.              *)
Total(values) ==
  LET upTo[r \in 0 .. NRecords] == IF r = 0 THEN 0 ELSE upTo[r - 1] + values[r]
  IN upTo[NRecords]

(* What a ledger adds up to.                                               *)
Sums(ledger) == [k \in Groups |-> Total([r \in Records |-> Adds(GivenBy(ledger[r]), k)])]

-----------------------------------------------------------------------------
Init ==
  /\ record = [r \in Records |-> Unborn]
  /\ pending = {}
  /\ meta = None
  /\ contrib = [g \in Generations |-> NoLedger]
  /\ group = [g \in Generations |-> Zero]
  /\ apc = [a \in Appliers |-> "idle"]
  /\ app = [a \in Appliers |-> AtRest]
  /\ rpc = [b \in Rebuilders |-> "idle"]
  /\ reb = [b \in Rebuilders |-> NoRebuild]

(* A commit on the source: the record is created, changed, moved out of or *)
(* into the filter, deleted or restored; the event is stored with it.      *)
Change(r) ==
  LET v == record[r].version + 1
  IN /\ v <= MaxVersion
     /\ \/ \E c \in Contribs \cup {None} :
             record' = [record EXCEPT ![r] = [version |-> v, deleted |-> FALSE, gives |-> c]]
        \/ /\ v > 1 /\ ~record[r].deleted
           /\ record' = [record EXCEPT ![r] = [version |-> v, deleted |-> TRUE, gives |-> None]]
     /\ pending' = pending \cup {[id |-> r, version |-> v]}
     /\ UNCHANGED <<meta, contrib, group, apc, app, rpc, reb>>

-----------------------------------------------------------------------------
(* applyEvent                                                              *)

Ack(e) == pending' = pending \ {e}

(* Mutant: events are ignored until the first generation is active.        *)
IgnoreWhileBuilding(a, e) ==
  /\ apc[a] = "idle"
  /\ e.version <= record[e.id].version
  /\ IF ~(meta # None /\ meta.active)
     THEN Ack(e) /\ UNCHANGED <<apc, app>>
     ELSE /\ apc' = [apc EXCEPT ![a] = "read"]
          /\ app' = [app EXCEPT ![a] = [AtRest EXCEPT !.event = e, !.meta = meta]]
          /\ UNCHANGED pending
  /\ UNCHANGED <<record, meta, contrib, group, rpc, reb>>

(* The applier takes an event, perhaps one that was applied before, and    *)
(* reads meta: before the first rebuild events are ignored, during it they *)
(* stay pending.                                                           *)
ReadMeta(a, e) ==
  /\ apc[a] = "idle"
  /\ e.version <= record[e.id].version
  /\ IF meta = None
     THEN Ack(e) /\ UNCHANGED <<apc, app>>
     ELSE /\ meta.active
          /\ apc' = [apc EXCEPT ![a] = "read"]
          /\ app' = [app EXCEPT ![a] = [AtRest EXCEPT !.event = e, !.meta = meta]]
          /\ UNCHANGED pending
  /\ UNCHANGED <<record, meta, contrib, group, rpc, reb>>

(* Mutant: the revision in the ledger is not looked at.                    *)
NeverStale(entry, e) == FALSE

(* The ledger already contains the event's revision.                       *)
Stale(entry, e) == entry # None /\ entry.version >= e.version

(* The ledger is read, and unless it makes the event stale the record, as  *)
(* it now is, whatever revision the event is about.  (A ledger entry that  *)
(* changes between the two reads makes the write fail.)                    *)
ReadSource(a) ==
  LET e == app[a].event
      entry == contrib[app[a].meta.gen][e.id]
  IN /\ apc[a] = "read"
     /\ IF Stale(entry, e)
        THEN /\ Ack(e)
             /\ apc' = [apc EXCEPT ![a] = "idle"]
             /\ app' = [app EXCEPT ![a] = AtRest]
        ELSE /\ apc' = [apc EXCEPT ![a] = "write"]
             /\ app' = [app EXCEPT ![a] = [@ EXCEPT !.entry = entry, !.seen = record[e.id]]]
             /\ UNCHANGED pending
     /\ UNCHANGED <<record, meta, contrib, group, rpc, reb>>

(* The ledger entry written: it has the record's revision, or the event's  *)
(* when the record is deleted.                                             *)
NewEntry(a) ==
  LET e == app[a].event
      seen == app[a].seen
  IN [version |-> IF seen.deleted \/ seen.version < e.version THEN e.version ELSE seen.version,
      gives |-> seen.gives]

(* Mutant: the old contribution is not taken back.                         *)
AddOnly(g, old, new) == [k \in Groups |-> group[g][k] + Adds(new, k)]

(* The groups with the old contribution taken back and the new one added.  *)
Adjusted(g, old, new) == [k \in Groups |-> group[g][k] - Adds(old, k) + Adds(new, k)]

(* putDocuments: groups, ledger and meta in one write, guarded by their    *)
(* versions; the loser begins again.                                       *)
Apply(a) ==
  LET e == app[a].event
      g == app[a].meta.gen
      entry == NewEntry(a)
  IN /\ apc[a] = "write"
     /\ IF meta.version = app[a].meta.version
        THEN /\ group' = [group EXCEPT ![g] = Adjusted(g, GivenBy(app[a].entry), entry.gives)]
             /\ contrib' = [contrib EXCEPT ![g][e.id] = entry]
             /\ meta' = [meta EXCEPT !.version = @ + 1]
             /\ Ack(e)
        ELSE UNCHANGED <<group, contrib, meta, pending>>
     /\ apc' = [apc EXCEPT ![a] = "idle"]
     /\ app' = [app EXCEPT ![a] = AtRest]
     /\ UNCHANGED <<record, rpc, reb>>

-----------------------------------------------------------------------------
(* rebuild                                                                 *)

StartRebuild(b) ==
  /\ rpc[b] = "idle"
  /\ rpc' = [rpc EXCEPT ![b] = "reserve"]
  /\ reb' = [reb EXCEPT ![b] = [NoRebuild EXCEPT !.prev = meta]]
  /\ UNCHANGED <<record, pending, meta, contrib, group, apc, app>>

MetaVersion(m) == IF m = None THEN 0 ELSE m.version

(* Mutant: only the active generation is counted, not the reserved ones.   *)
AfterActive(prev) == (IF prev = None THEN 0 ELSE prev.gen) + 1

(* A generation that was never reserved before.                            *)
NextGeneration(prev) ==
  IF prev = None THEN 1 ELSE (IF prev.gen > prev.reserved THEN prev.gen ELSE prev.reserved) + 1

(* The generation is reserved by a compare-and-swap; losing it fails the   *)
(* rebuild.                                                                *)
Reserve(b) ==
  LET prev == reb[b].prev
      g == NextGeneration(prev)
  IN /\ rpc[b] = "reserve"
     /\ g <= MaxGen
     /\ IF MetaVersion(meta) = MetaVersion(prev)
        THEN /\ meta' = IF prev = None
                        THEN [gen |-> 0, active |-> FALSE, reserved |-> g, version |-> 1]
                        ELSE [prev EXCEPT !.reserved = g, !.version = @ + 1]
             /\ reb' = [reb EXCEPT ![b] = [@ EXCEPT !.gen = g, !.version = MetaVersion(prev) + 1]]
             /\ rpc' = [rpc EXCEPT ![b] = "scan"]
        ELSE /\ rpc' = [rpc EXCEPT ![b] = "idle"]
             /\ reb' = [reb EXCEPT ![b] = NoRebuild]
             /\ UNCHANGED meta
     /\ UNCHANGED <<record, pending, contrib, group, apc, app>>

(* The next record of the list is read; if it contributes, its ledger      *)
(* entry is created.                                                       *)
Scan(b) ==
  LET r == reb[b].next
  IN /\ rpc[b] = "scan"
     /\ r <= NRecords
     /\ contrib' = IF record[r].gives = None THEN contrib
                   ELSE [contrib EXCEPT ![reb[b].gen][r] =
                           [version |-> record[r].version, gives |-> record[r].gives]]
     /\ reb' = [reb EXCEPT ![b].next = r + 1]
     /\ UNCHANGED <<record, pending, meta, group, apc, app, rpc>>

(* The groups added up during the scan are created.                        *)
WriteGroups(b) ==
  /\ rpc[b] = "scan"
  /\ reb[b].next > NRecords
  /\ group' = [group EXCEPT ![reb[b].gen] = Sums(contrib[reb[b].gen])]
  /\ rpc' = [rpc EXCEPT ![b] = "publish"]
  /\ UNCHANGED <<record, pending, meta, contrib, apc, app, reb>>

(* The active pointer is switched, unless meta was written since.          *)
Publish(b) ==
  /\ rpc[b] = "publish"
  /\ meta' = IF meta.version = reb[b].version
             THEN [gen |-> reb[b].gen, active |-> TRUE, reserved |-> reb[b].gen,
                   version |-> meta.version + 1]
             ELSE meta
  /\ rpc' = [rpc EXCEPT ![b] = "idle"]
  /\ reb' = [reb EXCEPT ![b] = NoRebuild]
  /\ UNCHANGED <<record, pending, contrib, group, apc, app>>

(* The host of a rebuild dies; its candidate is abandoned.  (An applier    *)
(* that dies before its only write has done nothing; the event stays.)     *)
RebuildDies(b) ==
  /\ rpc[b] \in {"scan", "publish"}
  /\ rpc' = [rpc EXCEPT ![b] = "idle"]
  /\ reb' = [reb EXCEPT ![b] = NoRebuild]
  /\ UNCHANGED <<record, pending, meta, contrib, group, apc, app>>

-----------------------------------------------------------------------------
Next ==
  \/ \E r \in Records : Change(r)
  \/ \E a \in Appliers :
       \/ \E e \in Events : ReadMeta(a, e)
       \/ ReadSource(a) \/ Apply(a)
  \/ \E b \in Rebuilders :
       StartRebuild(b) \/ Reserve(b) \/ Scan(b) \/ WriteGroups(b) \/ Publish(b) \/ RebuildDies(b)

Spec == Init /\ [][Next]_vars

-----------------------------------------------------------------------------
(* Every variable keeps its type, and only a published generation is       *)
(* active.                                                                 *)
TypeOK ==
  /\ record \in [Records -> Source]
  /\ pending \subseteq Events
  /\ meta \in Meta \cup {None}
  /\ contrib \in [Generations -> [Records -> Entry \cup {None}]]
  /\ group \in [Generations -> [Groups -> Int]]
  /\ apc \in [Appliers -> {"idle", "read", "write"}]
  /\ app \in [Appliers ->
       [event : Events \cup {None}, meta : Meta \cup {None}, entry : Entry \cup {None},
        seen : Source \cup {None}]]
  /\ rpc \in [Rebuilders -> {"idle", "reserve", "scan", "publish"}]
  /\ reb \in [Rebuilders ->
       [prev : Meta \cup {None}, gen : 0 .. MaxGen, version : Nat, next : 1 .. NRecords + 1]]
  /\ meta # None => (meta.active <=> meta.gen \in Generations) /\ meta.gen <= meta.reserved

Active == meta # None /\ meta.active

(* The aggregates readers see are exactly what the active ledger adds up   *)
(* to: no event is counted twice or half, whichever appliers and rebuilds  *)
(* ran into each other.                                                    *)
GroupsAddUp == Active => group[meta.gen] = Sums(contrib[meta.gen])

(* No change is lost: where the active ledger differs from the record, an  *)
(* event of a later revision than the ledger's is still to be applied,     *)
(* although events are acknowledged as stale or ignored, the source is     *)
(* read without a guard, and a rebuild may have read the record earlier.   *)
NoChangeLost ==
  Active => \A r \in Records :
    LET entry == contrib[meta.gen][r]
    IN GivenBy(entry) # record[r].gives =>
         \E e \in pending : e.id = r /\ ~Stale(entry, e)

(* Two rebuilds never write the same generation, nor does one write the    *)
(* active one: a candidate that was abandoned is never taken up again.     *)
GenerationsApart ==
  \A b \in Rebuilders : rpc[b] \in {"scan", "publish"} =>
    /\ reb[b].gen \in Generations /\ reb[b].gen # meta.gen
    /\ \A c \in Rebuilders \ {b} : rpc[c] \in {"scan", "publish"} => reb[c].gen # reb[b].gen
    /\ \A r \in reb[b].next .. NRecords : contrib[reb[b].gen][r] = None

(* A record's revision in the active ledger never goes back, except when   *)
(* another generation is published; and that is always a later one.        *)
RevisionsForward ==
  [][Active => /\ meta'.gen >= meta.gen
               /\ meta'.gen = meta.gen =>
                    \A r \in Records : contrib[meta.gen][r] # None =>
                      contrib'[meta.gen][r].version >= contrib[meta.gen][r].version]_vars

=============================================================================
