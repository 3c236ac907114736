----------------------------- MODULE Changesets -----------------------------
(***************************************************************************)
(* Changesets: a proposed list of operations is previewed, approved by the *)
(* hash of its preview, and committed, all at once (atomic) or row by row  *)
(* (resumable).  The changeset is a document written by compare-and-swap;  *)
(* the records it changes are committed by the engine, beside it.  Several *)
(* callers may preview and commit it at once, others change the records,   *)
(* and a caller may die anywhere.                                          *)
(*                                                                         *)
(* A row is blocked when it cannot be planned or committed against the     *)
(* records as they are.  A guarded row expects a revision of its record,   *)
(* and is blocked for good once the record has moved on; any other (a      *)
(* create, say, of a value that must be unique) may be blocked for a while *)
(* and could be committed twice.  What the preview's hash tells apart is   *)
(* which rows plan.  A copy of the document is current as long as its      *)
(* version is.                                                             *)
(***************************************************************************)
EXTENDS Integers, FiniteSetsExt

CONSTANTS
  NRows,        \* the number of operations of the changeset
  Guarded,      \* the rows that expect a revision
  Modes,        \* {"atomic", "resumable"} or one of them
  Callers,      \* calls of preview and commit that may be at work at once
  MaxVersion,   \* bound: the version up to which previews and approvals are asked for
  MaxCommits,   \* bound: calls of commit
  None          \* null

Rows == 1 .. NRows

ASSUME ChangesetsAssumption ==
  /\ NRows \in Nat \ {0}
  /\ Guarded \subseteq Rows
  /\ Modes \subseteq {"atomic", "resumable"}
  /\ MaxVersion \in Nat /\ MaxCommits \in Nat
  /\ (\A S \in SUBSET Rows : None # S) /\ None \notin {"committed", "failed"}

VARIABLES
  doc,       \* the changeset document
  blocked,   \* the rows that cannot be committed as things are
  applied,   \* [Rows -> Nat], how often the row's operation was committed
  receipts,  \* rows with a receipt of their own
  cpc,       \* [Callers -> where the call is]
  call,      \* [Callers -> its locals]
  commits,   \* history: calls of commit
  disturbed  \* history: a commit died, ran beside another one, or could not save its outcome

vars == <<doc, blocked, applied, receipts, cpc, call, commits, disturbed>>

Outcome == {"ok", "error", "committed", "skipped"}
NoResults == [r \in Rows |-> "ok"]

(* A call's locals: its copy of the document, the rows that planned, the   *)
(* rows still to visit and the status it is about to save.                 *)
AtRest == [copy |-> None, ok |-> {}, todo |-> {}, next |-> None]

-----------------------------------------------------------------------------
(* The rows that plan against the records as they are.                     *)
Plannable == Rows \ blocked

(* The copy a caller works with is still the stored document.              *)
Current(c) == doc.version = call[c].copy.version

(* save: the new document, with its version.                               *)
Saved(d) == [d EXCEPT !.version = @ + 1]

(* What committing the rows does to the records.                           *)
Committed(rows) ==
  /\ applied' = [r \in Rows |-> IF r \in rows THEN applied[r] + 1 ELSE applied[r]]
  /\ blocked' = blocked \cup (rows \cap Guarded)

Go(c, step, locals) ==
  /\ cpc' = [cpc EXCEPT ![c] = step]
  /\ call' = [call EXCEPT ![c] = locals]
Done(c) == Go(c, "idle", AtRest)

-----------------------------------------------------------------------------
(* propose creates the document.                                           *)
Init ==
  /\ \E mode \in Modes :
       doc = [mode |-> mode, status |-> "proposed", hash |-> None, approved |-> None,
              results |-> NoResults, version |-> 1]
  /\ blocked = {}
  /\ applied = [r \in Rows |-> 0]
  /\ receipts = {}
  /\ cpc = [c \in Callers |-> "idle"]
  /\ call = [c \in Callers |-> AtRest]
  /\ commits = 0
  /\ disturbed = FALSE

(* Somebody else's write blocks a row, or frees one that expects no        *)
(* revision.                                                               *)
Disturb(r) ==
  /\ blocked' \in {blocked \cup {r}, blocked \ ({r} \ Guarded)}
  /\ blocked' # blocked
  /\ UNCHANGED <<doc, applied, receipts, cpc, call, commits, disturbed>>

(* preview loads the document and plans every row.                         *)
Preview(c) ==
  /\ cpc[c] = "idle"
  /\ doc.version < MaxVersion
  /\ doc.status \in {"proposed", "previewed", "approved"}
  /\ Go(c, "preview", [AtRest EXCEPT !.copy = doc, !.ok = Plannable])
  /\ UNCHANGED <<doc, blocked, applied, receipts, commits, disturbed>>

(* The preview is saved; an approval of the same hash stands.              *)
SavePreview(c) ==
  LET copy == call[c].copy
      keeps == copy.status = "approved" /\ copy.approved = call[c].ok
  IN /\ cpc[c] = "preview"
     /\ doc' = IF Current(c)
               THEN Saved([copy EXCEPT !.status = IF keeps THEN "approved" ELSE "previewed",
                                       !.hash = call[c].ok])
               ELSE doc
     /\ Done(c)
     /\ UNCHANGED <<blocked, applied, receipts, commits, disturbed>>

(* approve: the hash given is the one of the latest preview.  Approving    *)
(* again is allowed, and takes the document to its next version.           *)
Approve ==
  /\ doc.version < MaxVersion
  /\ doc.status \in {"previewed", "approved"}
  /\ doc' = Saved([doc EXCEPT !.status = "approved", !.approved = doc.hash])
  /\ UNCHANGED <<blocked, applied, receipts, cpc, call, commits, disturbed>>

-----------------------------------------------------------------------------
(* commit                                                                  *)

InCommit(c) == cpc[c] \notin {"idle", "preview"}

(* commit loads the document: one that is partially committed is resumed;  *)
(* an approved one is planned anew.                                        *)
Commit(c) ==
  /\ cpc[c] = "idle"
  /\ commits < MaxCommits
  /\ doc.status \in {"approved", "partially-committed"}
  /\ Go(c, IF doc.status = "approved" THEN "plan" ELSE "rows",
        [AtRest EXCEPT !.copy = doc, !.todo = {r \in Rows : doc.results[r] # "committed"}])
  /\ commits' = commits + 1
  /\ disturbed' = (disturbed \/ \E d \in Callers : InCommit(d))
  /\ UNCHANGED <<doc, blocked, applied, receipts>>

(* Every row is planned.  An atomic changeset may exceed the logical or    *)
(* the provider's physical budget, which leaves it approved; a row that    *)
(* does not plan fails it.                                                 *)
Plan(c) ==
  LET Planned(step, status) == Go(c, step, [call[c] EXCEPT !.ok = Plannable, !.next = status])
  IN /\ cpc[c] = "plan"
     /\ \/ call[c].copy.mode = "resumable" /\ Planned("begin", None)
        \/ call[c].copy.mode = "atomic" /\ Done(c)
        \/ call[c].copy.mode = "atomic" /\ Plannable = Rows /\ Planned("commitAll", None)
        \/ call[c].copy.mode = "atomic" /\ Plannable # Rows /\ Planned("save", "failed")
     /\ UNCHANGED <<doc, blocked, applied, receipts, commits, disturbed>>

(* Mutant: the rows that still hold are committed.                         *)
CommitSome(c) ==
  /\ cpc[c] = "commitAll"
  /\ Committed(Plannable)
  /\ Go(c, "save", [call[c] EXCEPT !.next = IF Plannable = Rows THEN "committed" ELSE "failed"])
  /\ UNCHANGED <<doc, receipts, commits, disturbed>>

(* commitAll: every plan's guards hold, or nothing is stored.              *)
CommitAll(c) ==
  /\ cpc[c] = "commitAll"
  /\ \/ /\ Plannable = Rows
        /\ Committed(Rows)
        /\ Go(c, "save", [call[c] EXCEPT !.next = "committed"])
     \/ /\ Plannable # Rows
        /\ Go(c, "save", [call[c] EXCEPT !.next = "failed"])
        /\ UNCHANGED <<blocked, applied>>
  /\ UNCHANGED <<doc, receipts, commits, disturbed>>

(* Mutant: the outcome is saved whatever the document has become.          *)
SaveBlindly(c) ==
  /\ cpc[c] = "save"
  /\ doc' = [Saved(call[c].copy) EXCEPT
       !.status = call[c].next, !.version = doc.version + 1,
       !.results = [r \in Rows |-> IF call[c].next = "committed" THEN "committed" ELSE "skipped"]]
  /\ Done(c)
  /\ UNCHANGED <<blocked, applied, receipts, commits, disturbed>>

(* The row blamed for a failure: the first that does not plan, or else the *)
(* first of all.                                                           *)
Blamed(ok) == IF ok = Rows THEN 1 ELSE Min(Rows \ ok)

(* The outcome of an atomic commit is saved.                               *)
SaveOutcome(c) ==
  /\ cpc[c] = "save"
  /\ doc' = IF Current(c)
            THEN Saved([call[c].copy EXCEPT
                   !.status = call[c].next,
                   !.results = [r \in Rows |-> IF call[c].next = "committed" THEN "committed"
                                               ELSE IF r = Blamed(call[c].ok) THEN "error" ELSE "skipped"]])
            ELSE doc
  /\ disturbed' = (disturbed \/ ~Current(c))
  /\ Done(c)
  /\ UNCHANGED <<blocked, applied, receipts, commits>>

(* Resumable: the document says committing before the first row.           *)
Begin(c) ==
  LET d == Saved([call[c].copy EXCEPT !.status = "committing",
                    !.results = [r \in Rows |-> IF r \in call[c].ok THEN "ok" ELSE "error"]])
  IN /\ cpc[c] = "begin"
     /\ IF Current(c)
        THEN doc' = d /\ Go(c, "rows", [call[c] EXCEPT !.copy = d])
        ELSE Done(c) /\ UNCHANGED doc
     /\ UNCHANGED <<blocked, applied, receipts, commits, disturbed>>

(* Mutant: rows are committed without looking for a receipt.               *)
NoReplay(r) == FALSE

(* The row has a receipt: it is answered from it.                          *)
Replayed(r) == r \in receipts

(* The next row that is not committed runs under a receipt of its own.     *)
Row(c, r) ==
  LET copy == call[c].copy
      Result(o) == Go(c, "progress", [call[c] EXCEPT !.copy.results[r] = o, !.todo = @ \ {r}])
  IN /\ cpc[c] = "rows"
     /\ call[c].todo # {} /\ r = Min(call[c].todo)
     /\ \/ /\ Replayed(r)
           /\ Result("committed")
           /\ UNCHANGED <<blocked, applied, receipts>>
        \/ /\ ~Replayed(r) /\ r \in Plannable
           /\ Committed({r})
           /\ receipts' = receipts \cup {r}
           /\ Result("committed")
        \/ /\ ~Replayed(r) /\ r \notin Plannable
           /\ Result("error")
           /\ UNCHANGED <<blocked, applied, receipts>>
     /\ UNCHANGED <<doc, commits, disturbed>>

(* The progress is saved after every row; losing the compare-and-swap ends *)
(* the call.                                                               *)
SaveProgress(c) ==
  LET d == Saved([call[c].copy EXCEPT !.status = "committing"])
  IN /\ cpc[c] = "progress"
     /\ IF Current(c)
        THEN doc' = d /\ Go(c, "rows", [call[c] EXCEPT !.copy = d])
        ELSE Done(c) /\ UNCHANGED doc
     /\ UNCHANGED <<blocked, applied, receipts, commits, disturbed>>

(* Mutant: the last row decides.                                           *)
AnyCommitted(results) == \E r \in Rows : results[r] = "committed"

AllCommitted(results) == \A r \in Rows : results[r] = "committed"

(* After the last row the final status is saved.                           *)
SaveFinal(c) ==
  LET copy == call[c].copy
      status == IF AllCommitted(copy.results) THEN "committed" ELSE "partially-committed"
  IN /\ cpc[c] = "rows" /\ call[c].todo = {}
     /\ doc' = IF Current(c) THEN Saved([copy EXCEPT !.status = status]) ELSE doc
     /\ Done(c)
     /\ UNCHANGED <<blocked, applied, receipts, commits, disturbed>>

(* A caller dies in its commit.                                            *)
Die(c) ==
  /\ InCommit(c)
  /\ disturbed' = TRUE
  /\ Done(c)
  /\ UNCHANGED <<doc, blocked, applied, receipts, commits>>

-----------------------------------------------------------------------------
Next ==
  \/ Approve
  \/ \E r \in Rows : Disturb(r)
  \/ \E c \in Callers :
       \/ Preview(c) \/ SavePreview(c) \/ Commit(c) \/ Plan(c) \/ CommitAll(c) \/ SaveOutcome(c)
       \/ Begin(c) \/ SaveProgress(c) \/ SaveFinal(c) \/ Die(c)
       \/ \E r \in Rows : Row(c, r)

Spec == Init /\ [][Next]_vars

-----------------------------------------------------------------------------
Document ==
  [mode : Modes, hash : {None} \cup SUBSET Rows, approved : {None} \cup SUBSET Rows,
   status : {"proposed", "previewed", "approved", "committing", "committed",
             "partially-committed", "failed"},
   results : [Rows -> Outcome], version : Nat \ {0}]

(* Every variable keeps its type, and a changeset gets past its preview    *)
(* only with an approved hash.                                             *)
TypeOK ==
  /\ doc \in Document
  /\ blocked \subseteq Rows
  /\ applied \in [Rows -> Nat]
  /\ receipts \subseteq Rows
  /\ cpc \in [Callers -> {"idle", "preview", "plan", "commitAll", "save", "begin", "rows", "progress"}]
  /\ call \in [Callers -> [copy : Document \cup {None}, ok : SUBSET Rows, todo : SUBSET Rows,
                           next : {"committed", "failed", None}]]
  /\ commits \in 0 .. MaxCommits
  /\ disturbed \in BOOLEAN
  /\ doc.status \notin {"proposed", "previewed"} => doc.approved # None

(* A row of a resumable changeset is committed at most once, however many  *)
(* commits run beside each other, die after the row or are called again.   *)
RowOnce ==
  doc.mode = "resumable" => \A r \in Rows : applied[r] <= 1

(* What the document reports as committed is committed: each row that says *)
(* so, and every row once the changeset does.                              *)
ReportIsTrue ==
  /\ \A r \in Rows : doc.results[r] = "committed" => applied[r] >= 1
  /\ doc.status = "committed" => \A r \in Rows : doc.results[r] = "committed"

(* An atomic changeset is committed as a whole; and unless a commit died,  *)
(* ran beside another, or lost the document to a preview or an approval    *)
(* made meanwhile, it is committed at most once, and not at all when the   *)
(* document says it failed.                                                *)
AtomicOutcome ==
  doc.mode = "atomic" =>
    /\ \A r, s \in Rows : applied[r] = applied[s]
    /\ ~disturbed => \A r \in Rows :
         applied[r] <= 1 /\ (doc.status = "failed" => applied[r] = 0)

(* A committed row stays reported as committed, and a changeset that is    *)
(* committed or failed stays what it is, whatever a slower caller saves.   *)
OutcomeStands ==
  [][/\ \A r \in Rows : doc.results[r] = "committed" => doc'.results[r] = "committed"
     /\ doc.status \in {"committed", "failed"} => doc' = doc]_vars

=============================================================================
