-------------------------- MODULE ChangesetsProofs --------------------------
(***************************************************************************)
(* Proofs about Changesets, for any number of rows, callers and commits.   *)
(***************************************************************************)
EXTENDS Changesets, WellFoundedInduction, TLAPS

LEMMA LeastOf ==
  ASSUME NEW S, S \subseteq Nat, S # {}
  PROVE  \E x \in S : \A y \in S : x <= y
  <1>1. \E x \in S : \A y \in S : ~ (<<y, x>> \in OpToRel(<, Nat))
    BY NatLessThanWellFounded, WFMin
  <1>2. PICK x \in S : \A y \in S : ~ (<<y, x>> \in OpToRel(<, Nat))
    BY <1>1
  <1>3. \A y \in S : ~ (y < x)
    BY <1>2 DEF OpToRel
  <1> QED
    BY <1>3

(* The next row to visit is one of the rows.                               *)
LEMMA MinOf ==
  ASSUME NEW S, S \subseteq Nat, S # {}
  PROVE  Min(S) \in S
  BY LeastOf DEF Min

-----------------------------------------------------------------------------
Steps == {"idle", "preview", "plan", "commitAll", "save", "begin", "rows", "progress"}
Locals ==
  [copy : Document \cup {None}, ok : SUBSET Rows, todo : SUBSET Rows,
   next : {"committed", "failed", None}]

(* What holds of the document and of every copy of it: what is past its    *)
(* preview was approved, nothing is reported as committed before a commit, *)
(* and only a resumable changeset is ever half committed.                  *)
DocOK(d) ==
  /\ d \in Document
  /\ d.status # "proposed" => d.hash # None
  /\ d.status \notin {"proposed", "previewed"} => d.approved # None
  /\ d.status \in {"proposed", "previewed", "approved"} =>
       \A r \in Rows : d.results[r] # "committed"
  /\ d.status = "committed" => \A r \in Rows : d.results[r] = "committed"
  /\ d.status \in {"committing", "partially-committed"} => d.mode = "resumable"

(* What holds of a call: step is where it is, l its locals, d the stored   *)
(* document and ap how often each row was committed.  Its copy is not      *)
(* ahead of the document, and while it is current the document has no      *)
(* result that the copy does not have.                                     *)
CallOK(step, l, d, ap) ==
  step # "idle" =>
    /\ DocOK(l.copy)
    /\ l.copy.mode = d.mode
    /\ l.copy.version <= d.version
    /\ \A r \in Rows : l.copy.results[r] = "committed" => ap[r] >= 1
    /\ l.copy.version = d.version =>
         /\ l.copy.status = d.status
         /\ \A r \in Rows : d.results[r] = "committed" => l.copy.results[r] = "committed"
    /\ step = "preview" => l.copy.status \in {"proposed", "previewed", "approved"}
    /\ step \in {"plan", "commitAll", "save", "begin"} => l.copy.status = "approved"
    /\ step \in {"commitAll", "save"} => l.copy.mode = "atomic"
    /\ step = "begin" => l.copy.mode = "resumable"
    /\ step \in {"rows", "progress"} =>
         /\ l.copy.status \in {"committing", "partially-committed"}
         /\ \A r \in l.todo : l.copy.results[r] # "committed"
    /\ step = "save" =>
         l.next # None /\ (l.next = "committed" => \A r \in Rows : ap[r] >= 1)

Typed ==
  /\ blocked \subseteq Rows
  /\ applied \in [Rows -> Nat]
  /\ receipts \subseteq Rows
  /\ cpc \in [Callers -> Steps]
  /\ call \in [Callers -> Locals]
  /\ commits \in 0 .. MaxCommits
  /\ disturbed \in BOOLEAN

Calls == \A c \in Callers : CallOK(cpc[c], call[c], doc, applied)

Reported == \A r \in Rows : doc.results[r] = "committed" => applied[r] >= 1

(* A row has a receipt only if it was committed, and a row of a resumable  *)
(* changeset is committed only with its receipt.                           *)
Receipted(mode, rec, ap) ==
  /\ \A r \in rec : ap[r] >= 1
  /\ mode = "resumable" => \A r \in Rows : ap[r] = 0 \/ (ap[r] = 1 /\ r \in rec)
  /\ mode = "atomic" => \A r, s \in Rows : ap[r] = ap[s]

IInv == Typed /\ DocOK(doc) /\ Calls /\ Reported /\ Receipted(doc.mode, receipts, applied)

(* The document a save leaves.                                             *)
DocNext(d, e) == e = d \/ (e.mode = d.mode /\ e.version = d.version + 1)
ApNext(a, b) == \A r \in Rows : a[r] <= b[r]

LEMMA CallKept ==
  ASSUME NEW step, NEW l, NEW d \in Document, NEW e \in Document,
         NEW a \in [Rows -> Nat], NEW b \in [Rows -> Nat],
         DocNext(d, e), ApNext(a, b), CallOK(step, l, d, a)
  PROVE  CallOK(step, l, e, b)
  <1> SUFFICES ASSUME step # "idle" PROVE CallOK(step, l, e, b)
    BY DEF CallOK
  <1>1. /\ d.version \in Nat /\ e.version \in Nat /\ e.mode = d.mode
        /\ d.version <= e.version
    BY DEF Document, DocNext
  <1>2. l.copy \in Document /\ l.copy.version \in Nat
    BY DEF CallOK, DocOK, Document
  <1>3. \A r \in Rows : a[r] \in Nat /\ b[r] \in Nat /\ a[r] <= b[r]
    BY DEF ApNext
  <1>4. \A r \in Rows : a[r] >= 1 => b[r] >= 1
    BY <1>3
  <1>5. l.copy.version <= d.version
    BY DEF CallOK
  <1>6. l.copy.version <= e.version
    BY <1>1, <1>2, <1>5
  <1>7. l.copy.version = e.version => e = d
    BY <1>1, <1>2, <1>5 DEF DocNext
  <1> QED
    BY <1>1, <1>4, <1>6, <1>7 DEF CallOK

(* A step of one call, that may save the document and commit rows.         *)
LEMMA CallerStep ==
  ASSUME Typed, Calls, doc \in Document, doc' \in Document, applied' \in [Rows -> Nat],
         DocNext(doc, doc'), ApNext(applied, applied'),
         NEW c \in Callers, NEW step \in Steps, NEW l \in Locals, Go(c, step, l),
         CallOK(step, l, doc', applied')
  PROVE  /\ cpc' \in [Callers -> Steps] /\ call' \in [Callers -> Locals]
         /\ Calls'
  <1>1. /\ cpc' \in [Callers -> Steps] /\ call' \in [Callers -> Locals]
        /\ \A u \in Callers : /\ cpc'[u] = IF u = c THEN step ELSE cpc[u]
                              /\ call'[u] = IF u = c THEN l ELSE call[u]
    BY DEF Typed, Go
  <1>2. ASSUME NEW u \in Callers PROVE CallOK(cpc'[u], call'[u], doc', applied')
    <2>1. CASE u = c
      BY <2>1, <1>1
    <2>2. CASE u # c
      <3>1. CallOK(cpc[u], call[u], doc, applied)
        BY DEF Calls
      <3>2. applied \in [Rows -> Nat]
        BY DEF Typed
      <3>3. CallOK(cpc[u], call[u], doc', applied')
        BY <3>1, <3>2, CallKept
      <3> QED
        BY <2>2, <3>3, <1>1
    <2> QED
      BY <2>1, <2>2
  <1> QED
    BY <1>1, <1>2 DEF Calls

LEMMA AtRestOK == AtRest \in Locals /\ \A d, a : CallOK("idle", AtRest, d, a)
  BY DEF AtRest, Locals, CallOK

(* A step of a call that leaves the document and the records alone.        *)
LEMMA StayKeeps ==
  ASSUME IInv, NEW c \in Callers, NEW step \in Steps, NEW l \in Locals, Go(c, step, l),
         CallOK(step, l, doc, applied), UNCHANGED <<doc, blocked, applied, receipts>>,
         commits' \in 0 .. MaxCommits, disturbed' \in BOOLEAN
  PROVE  IInv'
  <1>1. /\ doc \in Document /\ doc' \in Document /\ applied' \in [Rows -> Nat]
        /\ DocNext(doc, doc') /\ ApNext(applied, applied') /\ Typed /\ Calls
        /\ CallOK(step, l, doc', applied')
    BY DEF IInv, DocOK, DocNext, ApNext, Typed
  <1>2. cpc' \in [Callers -> Steps] /\ call' \in [Callers -> Locals] /\ Calls'
    BY <1>1, CallerStep
  <1>3. Typed'
    BY <1>1, <1>2 DEF Typed
  <1>4. DocOK(doc') /\ Reported' /\ Receipted(doc'.mode, receipts', applied')
    BY DEF IInv, Reported
  <1> QED
    BY <1>2, <1>3, <1>4 DEF IInv

LEMMA EndKeeps ==
  ASSUME IInv, NEW c \in Callers, Done(c),
         UNCHANGED <<doc, blocked, applied, receipts, commits>>, disturbed' \in BOOLEAN
  PROVE  IInv'
  <1>1. "idle" \in Steps /\ commits' \in 0 .. MaxCommits
    BY DEF Steps, IInv, Typed
  <1> QED
    BY <1>1, AtRestOK, StayKeeps DEF Done

(* A step of a call that saves the document.                               *)
LEMMA SaveKeeps ==
  ASSUME IInv, NEW c \in Callers, NEW step \in Steps, NEW l \in Locals, Go(c, step, l),
         DocOK(doc'), doc'.mode = doc.mode, doc'.version = doc.version + 1,
         \A r \in Rows : doc'.results[r] = "committed" => applied[r] >= 1,
         CallOK(step, l, doc', applied),
         UNCHANGED <<blocked, applied, receipts, commits>>, disturbed' \in BOOLEAN
  PROVE  IInv'
  <1>1. /\ doc \in Document /\ doc' \in Document /\ applied' \in [Rows -> Nat]
        /\ DocNext(doc, doc') /\ ApNext(applied, applied') /\ Typed /\ Calls
        /\ CallOK(step, l, doc', applied')
    BY DEF IInv, DocOK, DocNext, ApNext, Typed
  <1>2. cpc' \in [Callers -> Steps] /\ call' \in [Callers -> Locals] /\ Calls'
    BY <1>1, CallerStep
  <1>3. Typed'
    BY <1>1, <1>2 DEF Typed
  <1>4. Reported' /\ Receipted(doc'.mode, receipts', applied')
    BY DEF IInv, Reported
  <1> QED
    BY <1>2, <1>3, <1>4 DEF IInv

(* A call that is at work has a copy of the document.                      *)
LEMMA AtWork ==
  ASSUME IInv, NEW c \in Callers, cpc[c] # "idle"
  PROVE  /\ CallOK(cpc[c], call[c], doc, applied)
         /\ DocOK(call[c].copy) /\ call[c].copy \in Document /\ call[c] \in Locals
         /\ call[c].copy.version \in Nat \ {0}
         /\ call[c].copy.results \in [Rows -> Outcome]
         /\ call[c].copy.mode = doc.mode
         /\ \A r \in Rows : call[c].copy.results[r] = "committed" => applied[r] >= 1
         /\ doc \in Document /\ DocOK(doc)
         /\ disturbed \in BOOLEAN
  <1>1. CallOK(cpc[c], call[c], doc, applied) /\ call[c] \in Locals
    BY DEF IInv, Calls, Typed
  <1>2. DocOK(call[c].copy) /\ call[c].copy \in Document
    BY <1>1 DEF CallOK, DocOK
  <1> QED
    BY <1>1, <1>2 DEF CallOK, Document, IInv, DocOK, Typed

LEMMA SavedIs ==
  ASSUME NEW e \in Document
  PROVE  /\ Saved(e) \in Document /\ Saved(e).version = e.version + 1
         /\ Saved(e).mode = e.mode /\ Saved(e).status = e.status /\ Saved(e).hash = e.hash
         /\ Saved(e).approved = e.approved /\ Saved(e).results = e.results
  BY DEF Saved, Document

-----------------------------------------------------------------------------
(* One lemma per action.                                                   *)

LEMMA DisturbKeeps ==
  ASSUME IInv, NEW r \in Rows, Disturb(r)
  PROVE  IInv'
  <1>1. Typed'
    BY DEF IInv, Typed, Disturb
  <1>2. /\ DocOK(doc') /\ Reported' /\ Receipted(doc'.mode, receipts', applied')
        /\ Calls'
    BY DEF IInv, Reported, Calls, Disturb
  <1> QED
    BY <1>1, <1>2 DEF IInv

LEMMA ApproveKeeps ==
  ASSUME IInv, Approve
  PROVE  IInv'
  <1>1. /\ doc \in Document /\ DocOK(doc) /\ doc.status \in {"previewed", "approved"}
        /\ doc.version \in Nat /\ doc.hash # None
    BY DEF IInv, DocOK, Document, Approve
  <1> DEFINE e == [doc EXCEPT !.status = "approved", !.approved = doc.hash]
             d == Saved(e)
  <1>2. doc' = d
    BY DEF Approve
  <1>a. /\ e \in Document /\ e.status = "approved" /\ e.approved = doc.hash
        /\ e.version = doc.version /\ e.hash = doc.hash /\ e.mode = doc.mode
        /\ e.results = doc.results
    BY <1>1 DEF Document
  <1> HIDE DEF e
  <1>3. /\ d \in Document /\ d.status = "approved" /\ d.approved = doc.hash
        /\ d.version = doc.version + 1 /\ d.hash = doc.hash /\ d.mode = doc.mode
        /\ d.results = doc.results
    BY <1>a, SavedIs
  <1> HIDE DEF d
  <1>4. DocOK(d)
    BY <1>1, <1>3 DEF DocOK
  <1>5. ASSUME NEW c \in Callers PROVE CallOK(cpc[c], call[c], d, applied)
    <2>1. CallOK(cpc[c], call[c], doc, applied)
      BY DEF IInv, Calls
    <2>2. /\ DocNext(doc, d) /\ ApNext(applied, applied) /\ applied \in [Rows -> Nat]
      BY <1>3 DEF DocNext, ApNext, IInv, Typed
    <2> QED
      BY <2>1, <2>2, <1>1, <1>3, CallKept
  <1>6. UNCHANGED <<blocked, applied, receipts, cpc, call, commits, disturbed>>
    BY DEF Approve
  <1>7. Calls'
    BY <1>2, <1>5, <1>6 DEF Calls
  <1>8. Typed'
    BY <1>6 DEF IInv, Typed
  <1>9. Reported' /\ Receipted(doc'.mode, receipts', applied')
    BY <1>2, <1>3, <1>6 DEF IInv, Reported
  <1> QED
    BY <1>2, <1>4, <1>7, <1>8, <1>9 DEF IInv

LEMMA PreviewKeeps ==
  ASSUME IInv, NEW c \in Callers, Preview(c)
  PROVE  IInv'
  <1> DEFINE l == [AtRest EXCEPT !.copy = doc, !.ok = Plannable]
  <1>1. /\ doc \in Document /\ DocOK(doc) /\ doc.version \in Nat
        /\ doc.status \in {"proposed", "previewed", "approved"}
    BY DEF IInv, DocOK, Document, Preview
  <1>2. l \in Locals /\ l.copy = doc
    BY <1>1 DEF Locals, AtRest, Plannable
  <1> HIDE DEF l
  <1>3. CallOK("preview", l, doc, applied)
    BY <1>1, <1>2 DEF CallOK, IInv, Reported
  <1>4. "preview" \in Steps /\ Go(c, "preview", l)
    BY DEF Steps, Preview, l
  <1>5. UNCHANGED <<doc, blocked, applied, receipts, commits, disturbed>>
    BY DEF Preview
  <1>6. commits' \in 0 .. MaxCommits /\ disturbed' \in BOOLEAN
    BY <1>5 DEF IInv, Typed
  <1> QED
    BY <1>2, <1>3, <1>4, <1>5, <1>6, StayKeeps

LEMMA CommitKeeps ==
  ASSUME IInv, NEW c \in Callers, Commit(c)
  PROVE  IInv'
  <1> DEFINE l == [AtRest EXCEPT !.copy = doc,
                                 !.todo = {r \in Rows : doc.results[r] # "committed"}]
             step == IF doc.status = "approved" THEN "plan" ELSE "rows"
  <1>1. /\ doc \in Document /\ DocOK(doc) /\ doc.version \in Nat
        /\ doc.status \in {"approved", "partially-committed"}
    BY DEF IInv, DocOK, Document, Commit
  <1>2. /\ l \in Locals /\ l.copy = doc
        /\ l.todo = {r \in Rows : doc.results[r] # "committed"}
    BY <1>1 DEF Locals, AtRest
  <1>3. Go(c, step, l)
    BY DEF Commit
  <1> HIDE DEF l
  <1>4. CallOK(step, l, doc, applied)
    BY <1>1, <1>2 DEF CallOK, IInv, Reported
  <1>5. step \in Steps
    BY DEF Steps
  <1> HIDE DEF step
  <1>6. UNCHANGED <<doc, blocked, applied, receipts>>
    BY DEF Commit
  <1>7. commits' \in 0 .. MaxCommits /\ disturbed' \in BOOLEAN
    <2>1. commits' = commits + 1 /\ commits < MaxCommits /\ commits \in 0 .. MaxCommits
      BY DEF IInv, Typed, Commit
    <2>2. disturbed' \in BOOLEAN
      BY DEF IInv, Typed, Commit
    <2> QED
      BY <2>1, <2>2, ChangesetsAssumption
  <1> QED
    BY <1>2, <1>3, <1>4, <1>5, <1>6, <1>7, StayKeeps

LEMMA PlanKeeps ==
  ASSUME IInv, NEW c \in Callers, Plan(c)
  PROVE  IInv'
  <1> DEFINE L(status) == [call[c] EXCEPT !.ok = Plannable, !.next = status]
  <1>1. /\ cpc[c] = "plan" /\ UNCHANGED <<doc, blocked, applied, receipts, commits, disturbed>>
        /\ \/ call[c].copy.mode = "resumable" /\ Go(c, "begin", L(None))
           \/ Done(c)
           \/ call[c].copy.mode = "atomic" /\ Go(c, "commitAll", L(None))
           \/ call[c].copy.mode = "atomic" /\ Go(c, "save", L("failed"))
    BY DEF Plan
  <1>2. commits' \in 0 .. MaxCommits /\ disturbed' \in BOOLEAN
    BY <1>1 DEF IInv, Typed
  <1>3. CallOK("plan", call[c], doc, applied) /\ call[c] \in Locals
    BY <1>1, AtWork
  <1>4. \A status \in {"failed", None} :
          /\ L(status) \in Locals /\ L(status).copy = call[c].copy
          /\ L(status).next = status
    BY <1>3 DEF Locals, Plannable
  <1> HIDE DEF L
  <1>5. CASE call[c].copy.mode = "resumable" /\ Go(c, "begin", L(None))
    <2>1. CallOK("begin", L(None), doc, applied) /\ "begin" \in Steps
      BY <1>3, <1>4, <1>5 DEF CallOK, Steps
    <2> QED
      BY <2>1, <1>1, <1>2, <1>4, <1>5, StayKeeps
  <1>6. CASE Done(c)
    BY <1>1, <1>2, <1>6, EndKeeps
  <1>7. CASE call[c].copy.mode = "atomic" /\ Go(c, "commitAll", L(None))
    <2>1. CallOK("commitAll", L(None), doc, applied) /\ "commitAll" \in Steps
      BY <1>3, <1>4, <1>7 DEF CallOK, Steps
    <2> QED
      BY <2>1, <1>1, <1>2, <1>4, <1>7, StayKeeps
  <1>8. CASE call[c].copy.mode = "atomic" /\ Go(c, "save", L("failed"))
    <2>0. "failed" # None
      BY ChangesetsAssumption
    <2>1. CallOK("save", L("failed"), doc, applied) /\ "save" \in Steps
      BY <2>0, <1>3, <1>4, <1>8 DEF CallOK, Steps
    <2> QED
      BY <2>1, <1>1, <1>2, <1>4, <1>8, StayKeeps
  <1> QED
    BY <1>1, <1>5, <1>6, <1>7, <1>8

LEMMA SavePreviewKeeps ==
  ASSUME IInv, NEW c \in Callers, SavePreview(c)
  PROVE  IInv'
  <1> DEFINE copy == call[c].copy
             keeps == copy.status = "approved" /\ copy.approved = call[c].ok
             e == [copy EXCEPT !.status = IF keeps THEN "approved" ELSE "previewed",
                               !.hash = call[c].ok]
             d == Saved(e)
  <1>1. /\ cpc[c] = "preview" /\ Done(c)
        /\ UNCHANGED <<blocked, applied, receipts, commits, disturbed>>
    BY DEF SavePreview
  <1>2. /\ CallOK("preview", call[c], doc, applied) /\ DocOK(copy) /\ copy \in Document
        /\ call[c] \in Locals /\ copy.version \in Nat \ {0} /\ copy.mode = doc.mode
        /\ \A r \in Rows : copy.results[r] = "committed" => applied[r] >= 1
        /\ disturbed' \in BOOLEAN
    BY <1>1, AtWork
  <1>3. call[c].ok \in SUBSET Rows /\ call[c].ok # None
    BY <1>2, ChangesetsAssumption DEF Locals
  <1>4. doc' = IF Current(c) THEN d ELSE doc
    BY DEF SavePreview
  <1>a. /\ e \in Document /\ e.status \in {"approved", "previewed"}
        /\ e.status = "approved" => copy.status = "approved"
        /\ e.hash = call[c].ok /\ e.approved = copy.approved /\ e.mode = copy.mode
        /\ e.results = copy.results /\ e.version = copy.version
    BY <1>2, <1>3 DEF Document
  <1> HIDE DEF e
  <1>5. /\ d \in Document /\ d.status \in {"approved", "previewed"}
        /\ d.status = "approved" => copy.status = "approved"
        /\ d.hash = call[c].ok /\ d.approved = copy.approved /\ d.mode = copy.mode
        /\ d.results = copy.results /\ d.version = copy.version + 1
    BY <1>a, SavedIs
  <1>6. copy.status \in {"proposed", "previewed", "approved"}
    BY <1>2 DEF CallOK
  <1> HIDE DEF d, copy, keeps
  <1>7. CASE Current(c)
    <2>1. DocOK(d)
      BY <1>2, <1>3, <1>5, <1>6 DEF DocOK
    <2>2. doc.version = copy.version
      BY <1>7 DEF Current, copy
    <2> QED
      BY <1>1, <1>2, <1>4, <1>5, <1>7, <2>1, <2>2, AtRestOK, SaveKeeps DEF Done, Steps
  <1>8. CASE ~Current(c)
    BY <1>1, <1>2, <1>4, <1>8, EndKeeps
  <1> QED
    BY <1>7, <1>8

(* The rows a commit of all of them, or of one, applies.                   *)
LEMMA AppliedRows ==
  ASSUME IInv, NEW rows, rows \subseteq Rows, Committed(rows)
  PROVE  /\ applied' \in [Rows -> Nat] /\ blocked' \subseteq Rows
         /\ ApNext(applied, applied')
         /\ \A r \in Rows : applied'[r] = IF r \in rows THEN applied[r] + 1 ELSE applied[r]
  <1>1. applied \in [Rows -> Nat] /\ blocked \subseteq Rows
    BY DEF IInv, Typed
  <1>2. \A r \in Rows : applied'[r] = IF r \in rows THEN applied[r] + 1 ELSE applied[r]
    BY DEF Committed
  <1>3. \A r \in Rows : applied'[r] \in Nat /\ applied[r] <= applied'[r]
    BY <1>1, <1>2
  <1>4. applied' = [r \in Rows |-> applied'[r]]
    BY DEF Committed
  <1> QED
    BY <1>1, <1>2, <1>3, <1>4 DEF Committed, ApNext

LEMMA CommitAllKeeps ==
  ASSUME IInv, NEW c \in Callers, CommitAll(c)
  PROVE  IInv'
  <1> DEFINE L(status) == [call[c] EXCEPT !.next = status]
  <1>1. /\ cpc[c] = "commitAll" /\ UNCHANGED <<doc, receipts, commits, disturbed>>
        /\ \/ Committed(Rows) /\ Go(c, "save", L("committed"))
           \/ Go(c, "save", L("failed")) /\ UNCHANGED <<blocked, applied>>
    BY DEF CommitAll
  <1>2. /\ commits' \in 0 .. MaxCommits /\ disturbed' \in BOOLEAN
        /\ "committed" # None /\ "failed" # None /\ "save" \in Steps
    BY <1>1, ChangesetsAssumption DEF IInv, Typed, Steps
  <1>3. CallOK("commitAll", call[c], doc, applied) /\ call[c] \in Locals
    BY <1>1, AtWork
  <1>4. \A status \in {"committed", "failed"} :
          /\ L(status) \in Locals /\ L(status).copy = call[c].copy
          /\ L(status).next = status
    BY <1>3 DEF Locals
  <1> HIDE DEF L
  <1>5. CASE Committed(Rows) /\ Go(c, "save", L("committed"))
    <2>1. /\ applied' \in [Rows -> Nat] /\ blocked' \subseteq Rows
          /\ ApNext(applied, applied')
          /\ \A r \in Rows : applied'[r] = applied[r] + 1
      BY <1>5, AppliedRows
    <2>2. \A r \in Rows : applied[r] \in Nat /\ applied'[r] >= 1
      BY <2>1 DEF IInv, Typed
    <2>3. CallOK("save", L("committed"), doc, applied')
      BY <2>2, <1>2, <1>3, <1>4 DEF CallOK
    <2>4. doc \in Document /\ DocOK(doc) /\ doc' = doc /\ DocNext(doc, doc') /\ Typed /\ Calls
      BY <1>1 DEF IInv, DocOK, DocNext
    <2>5. cpc' \in [Callers -> Steps] /\ call' \in [Callers -> Locals] /\ Calls'
      BY <2>1, <2>3, <2>4, <1>2, <1>4, <1>5, CallerStep
    <2>6. Typed'
      BY <2>1, <2>4, <2>5, <1>1, <1>2 DEF Typed
    <2>7. Reported'
      BY <2>2, <1>1 DEF Reported
    <2>8. doc.mode = "atomic"
      BY <1>3 DEF CallOK
    <2>9. Receipted(doc'.mode, receipts', applied')
      BY <2>1, <2>2, <2>4, <2>8, <1>1 DEF IInv, Typed, Receipted
    <2> QED
      BY <2>4, <2>5, <2>6, <2>7, <2>9 DEF IInv
  <1>6. CASE Go(c, "save", L("failed")) /\ UNCHANGED <<blocked, applied>>
    <2>1. CallOK("save", L("failed"), doc, applied)
      BY <1>2, <1>3, <1>4 DEF CallOK
    <2> QED
      BY <2>1, <1>1, <1>2, <1>4, <1>6, StayKeeps
  <1> QED
    BY <1>1, <1>5, <1>6

LEMMA SaveOutcomeKeeps ==
  ASSUME IInv, NEW c \in Callers, SaveOutcome(c)
  PROVE  IInv'
  <1> DEFINE copy == call[c].copy
             done == call[c].next = "committed"
             results == [r \in Rows |-> IF done THEN "committed"
                                        ELSE IF r = Blamed(call[c].ok) THEN "error" ELSE "skipped"]
             e == [copy EXCEPT !.status = call[c].next, !.results = results]
             d == Saved(e)
  <1>1. cpc[c] = "save" /\ Done(c) /\ UNCHANGED <<blocked, applied, receipts, commits>>
    BY DEF SaveOutcome
  <1>2. /\ CallOK("save", call[c], doc, applied) /\ DocOK(copy) /\ copy \in Document
        /\ call[c] \in Locals /\ copy.version \in Nat \ {0} /\ copy.mode = doc.mode
        /\ disturbed \in BOOLEAN
    BY <1>1, AtWork
  <1>3. disturbed' \in BOOLEAN
    BY <1>2 DEF SaveOutcome
  <1>4. /\ call[c].next \in {"committed", "failed"} /\ copy.status = "approved"
        /\ done => \A r \in Rows : applied[r] >= 1
    BY <1>2 DEF CallOK, Locals
  <1>5. results \in [Rows -> Outcome]
    BY DEF Outcome
  <1>6. \A r \in Rows : (results[r] = "committed") = done
    OBVIOUS
  <1>7. doc' = IF Current(c) THEN d ELSE doc
    BY DEF SaveOutcome
  <1> HIDE DEF results
  <1>a. /\ e \in Document /\ e.status = call[c].next /\ e.hash = copy.hash
        /\ e.approved = copy.approved /\ e.mode = copy.mode
        /\ e.results = results /\ e.version = copy.version
    BY <1>2, <1>4, <1>5 DEF Document
  <1> HIDE DEF e
  <1>8. /\ d \in Document /\ d.status = call[c].next /\ d.hash = copy.hash
        /\ d.approved = copy.approved /\ d.mode = copy.mode
        /\ d.results = results /\ d.version = copy.version + 1
    BY <1>a, SavedIs
  <1> HIDE DEF d, copy
  <1>9. CASE Current(c)
    <2>1. DocOK(d)
      BY <1>2, <1>4, <1>6, <1>8 DEF DocOK
    <2>2. doc.version = copy.version
      BY <1>9 DEF Current, copy
    <2>3. \A r \in Rows : d.results[r] = "committed" => applied[r] >= 1
      BY <1>4, <1>6, <1>8
    <2> QED
      BY <1>1, <1>2, <1>3, <1>7, <1>8, <1>9, <2>1, <2>2, <2>3, AtRestOK, SaveKeeps DEF Done, Steps
  <1>10. CASE ~Current(c)
    BY <1>1, <1>3, <1>7, <1>10, EndKeeps
  <1> QED
    BY <1>9, <1>10

LEMMA BeginKeeps ==
  ASSUME IInv, NEW c \in Callers, Begin(c)
  PROVE  IInv'
  <1> DEFINE copy == call[c].copy
             results == [r \in Rows |-> IF r \in call[c].ok THEN "ok" ELSE "error"]
             e == [copy EXCEPT !.status = "committing", !.results = results]
             d == Saved(e)
             l == [call[c] EXCEPT !.copy = d]
  <1>1. /\ cpc[c] = "begin" /\ UNCHANGED <<blocked, applied, receipts, commits, disturbed>>
        /\ IF Current(c) THEN doc' = d /\ Go(c, "rows", l) ELSE Done(c) /\ UNCHANGED doc
    BY DEF Begin
  <1>2. /\ CallOK("begin", call[c], doc, applied) /\ DocOK(copy) /\ copy \in Document
        /\ call[c] \in Locals /\ copy.version \in Nat \ {0} /\ copy.mode = doc.mode
        /\ disturbed' \in BOOLEAN
    BY <1>1, AtWork
  <1>3. copy.status = "approved" /\ copy.mode = "resumable"
    BY <1>2 DEF CallOK
  <1>4. results \in [Rows -> Outcome] /\ \A r \in Rows : results[r] # "committed"
    BY DEF Outcome
  <1> HIDE DEF results
  <1>5. /\ e \in Document /\ e.status = "committing" /\ e.hash = copy.hash
        /\ e.approved = copy.approved /\ e.mode = copy.mode
        /\ e.results = results /\ e.version = copy.version
    BY <1>2, <1>4 DEF Document
  <1> HIDE DEF e
  <1>6. /\ d \in Document /\ d.status = "committing" /\ d.hash = copy.hash
        /\ d.approved = copy.approved /\ d.mode = copy.mode
        /\ d.results = results /\ d.version = copy.version + 1
    BY <1>5, SavedIs
  <1> HIDE DEF d
  <1>7. l \in Locals /\ l.copy = d /\ l.todo \subseteq Rows
    BY <1>2, <1>6 DEF Locals
  <1> HIDE DEF l, copy
  <1>8. CASE Current(c)
    <2>1. DocOK(d)
      BY <1>2, <1>3, <1>4, <1>6 DEF DocOK
    <2>2. doc.version = copy.version
      BY <1>8 DEF Current, copy
    <2>3. CallOK("rows", l, d, applied) /\ "rows" \in Steps
      BY <2>1, <1>3, <1>4, <1>6, <1>7 DEF CallOK, Steps, Document
    <2> QED
      BY <1>1, <1>2, <1>4, <1>6, <1>7, <1>8, <2>1, <2>2, <2>3, SaveKeeps
  <1>9. CASE ~Current(c)
    BY <1>1, <1>2, <1>9, EndKeeps
  <1> QED
    BY <1>8, <1>9

LEMMA SaveProgressKeeps ==
  ASSUME IInv, NEW c \in Callers, SaveProgress(c)
  PROVE  IInv'
  <1> DEFINE copy == call[c].copy
             e == [copy EXCEPT !.status = "committing"]
             d == Saved(e)
             l == [call[c] EXCEPT !.copy = d]
  <1>1. /\ cpc[c] = "progress" /\ UNCHANGED <<blocked, applied, receipts, commits, disturbed>>
        /\ IF Current(c) THEN doc' = d /\ Go(c, "rows", l) ELSE Done(c) /\ UNCHANGED doc
    BY DEF SaveProgress
  <1>2. /\ CallOK("progress", call[c], doc, applied) /\ DocOK(copy) /\ copy \in Document
        /\ call[c] \in Locals /\ copy.version \in Nat \ {0} /\ copy.mode = doc.mode
        /\ \A r \in Rows : copy.results[r] = "committed" => applied[r] >= 1
        /\ disturbed' \in BOOLEAN
    BY <1>1, AtWork
  <1>3. /\ copy.status \in {"committing", "partially-committed"}
        /\ \A r \in call[c].todo : copy.results[r] # "committed"
    BY <1>2 DEF CallOK
  <1>4. /\ e \in Document /\ e.status = "committing" /\ e.hash = copy.hash
        /\ e.approved = copy.approved /\ e.mode = copy.mode
        /\ e.results = copy.results /\ e.version = copy.version
    BY <1>2 DEF Document
  <1> HIDE DEF e
  <1>5. /\ d \in Document /\ d.status = "committing" /\ d.hash = copy.hash
        /\ d.approved = copy.approved /\ d.mode = copy.mode
        /\ d.results = copy.results /\ d.version = copy.version + 1
    BY <1>4, SavedIs
  <1> HIDE DEF d
  <1>6. l \in Locals /\ l.copy = d /\ l.todo = call[c].todo
    BY <1>2, <1>5 DEF Locals
  <1> HIDE DEF l, copy
  <1>7. CASE Current(c)
    <2>1. DocOK(d)
      BY <1>2, <1>3, <1>5 DEF DocOK
    <2>2. doc.version = copy.version
      BY <1>7 DEF Current, copy
    <2>3. CallOK("rows", l, d, applied) /\ "rows" \in Steps
      BY <2>1, <1>2, <1>3, <1>5, <1>6 DEF CallOK, Steps, Document
    <2> QED
      BY <1>1, <1>2, <1>5, <1>6, <1>7, <2>1, <2>2, <2>3, SaveKeeps
  <1>8. CASE ~Current(c)
    BY <1>1, <1>2, <1>8, EndKeeps
  <1> QED
    BY <1>7, <1>8

LEMMA SaveFinalKeeps ==
  ASSUME IInv, NEW c \in Callers, SaveFinal(c)
  PROVE  IInv'
  <1> DEFINE copy == call[c].copy
             status == IF AllCommitted(copy.results) THEN "committed" ELSE "partially-committed"
             e == [copy EXCEPT !.status = status]
             d == Saved(e)
  <1>1. /\ cpc[c] = "rows" /\ Done(c)
        /\ UNCHANGED <<blocked, applied, receipts, commits, disturbed>>
        /\ doc' = IF Current(c) THEN d ELSE doc
    BY DEF SaveFinal
  <1>2. /\ CallOK("rows", call[c], doc, applied) /\ DocOK(copy) /\ copy \in Document
        /\ copy.version \in Nat \ {0} /\ copy.mode = doc.mode
        /\ \A r \in Rows : copy.results[r] = "committed" => applied[r] >= 1
        /\ disturbed' \in BOOLEAN
    BY <1>1, AtWork
  <1>3. copy.status \in {"committing", "partially-committed"}
    BY <1>2 DEF CallOK
  <1>4. /\ status \in {"committed", "partially-committed"}
        /\ status = "committed" => \A r \in Rows : copy.results[r] = "committed"
    BY DEF AllCommitted
  <1> HIDE DEF status
  <1>5. /\ e \in Document /\ e.status = status /\ e.hash = copy.hash
        /\ e.approved = copy.approved /\ e.mode = copy.mode
        /\ e.results = copy.results /\ e.version = copy.version
    BY <1>2, <1>4 DEF Document
  <1> HIDE DEF e
  <1>6. /\ d \in Document /\ d.status = status /\ d.hash = copy.hash
        /\ d.approved = copy.approved /\ d.mode = copy.mode
        /\ d.results = copy.results /\ d.version = copy.version + 1
    BY <1>5, SavedIs
  <1> HIDE DEF d, copy
  <1>7. CASE Current(c)
    <2>1. DocOK(d)
      BY <1>2, <1>3, <1>4, <1>6 DEF DocOK
    <2>2. doc.version = copy.version
      BY <1>7 DEF Current, copy
    <2> QED
      BY <1>1, <1>2, <1>6, <1>7, <2>1, <2>2, AtRestOK, SaveKeeps DEF Done, Steps
  <1>8. CASE ~Current(c)
    BY <1>1, <1>2, <1>8, EndKeeps
  <1> QED
    BY <1>7, <1>8

(* The locals of a call after a row: its result is in the copy, and it is  *)
(* not visited again.                                                      *)
AfterRow(l, r, o) == [l EXCEPT !.copy.results[r] = o, !.todo = @ \ {r}]

LEMMA AfterRowIs ==
  ASSUME NEW l \in Locals, l.copy \in Document, NEW r \in Rows, NEW o \in Outcome
  PROVE  /\ AfterRow(l, r, o) \in Locals /\ AfterRow(l, r, o).todo = l.todo \ {r}
         /\ AfterRow(l, r, o).copy \in Document
         /\ AfterRow(l, r, o).copy.mode = l.copy.mode
         /\ AfterRow(l, r, o).copy.status = l.copy.status
         /\ AfterRow(l, r, o).copy.version = l.copy.version
         /\ AfterRow(l, r, o).copy.hash = l.copy.hash
         /\ AfterRow(l, r, o).copy.approved = l.copy.approved
         /\ \A s \in Rows : AfterRow(l, r, o).copy.results[s] =
                              IF s = r THEN o ELSE l.copy.results[s]
  <1> DEFINE results == [l.copy.results EXCEPT ![r] = o]
             copy == [l.copy EXCEPT !.results = results]
  <1>1. /\ results \in [Rows -> Outcome]
        /\ \A s \in Rows : results[s] = IF s = r THEN o ELSE l.copy.results[s]
    BY DEF Document
  <1>2. AfterRow(l, r, o) = [l EXCEPT !.copy = copy, !.todo = l.todo \ {r}]
    BY DEF AfterRow, Locals
  <1> HIDE DEF results
  <1>3. /\ copy \in Document /\ copy.mode = l.copy.mode /\ copy.status = l.copy.status
        /\ copy.version = l.copy.version /\ copy.hash = l.copy.hash
        /\ copy.approved = l.copy.approved /\ copy.results = results
    BY <1>1 DEF Document
  <1> HIDE DEF copy
  <1>4. /\ AfterRow(l, r, o) \in Locals /\ AfterRow(l, r, o).copy = copy
        /\ AfterRow(l, r, o).todo = l.todo \ {r}
    BY <1>2, <1>3 DEF Locals
  <1> QED
    BY <1>1, <1>3, <1>4

LEMMA RowKeeps ==
  ASSUME IInv, NEW c \in Callers, NEW r \in Rows, Row(c, r), r \in call[c].todo
  PROVE  IInv'
  <1> DEFINE L(o) == AfterRow(call[c], r, o)
             copy == call[c].copy
  <1>1. /\ cpc[c] = "rows" /\ UNCHANGED <<doc, commits, disturbed>>
        /\ \/ r \in receipts /\ Go(c, "progress", L("committed"))
              /\ UNCHANGED <<blocked, applied, receipts>>
           \/ r \notin receipts /\ Committed({r}) /\ receipts' = receipts \cup {r}
              /\ Go(c, "progress", L("committed"))
           \/ Go(c, "progress", L("error")) /\ UNCHANGED <<blocked, applied, receipts>>
    BY DEF Row, Replayed, AfterRow
  <1>2. /\ CallOK("rows", call[c], doc, applied) /\ DocOK(copy) /\ copy \in Document
        /\ call[c] \in Locals /\ copy.mode = doc.mode
        /\ commits' \in 0 .. MaxCommits /\ disturbed' \in BOOLEAN
    BY <1>1, AtWork DEF IInv, Typed
  <1>3. /\ copy.status \in {"committing", "partially-committed"}
        /\ \A s \in call[c].todo : copy.results[s] # "committed"
        /\ copy.version <= doc.version
        /\ \A s \in Rows : copy.results[s] = "committed" => applied[s] >= 1
        /\ copy.version = doc.version =>
             /\ copy.status = doc.status
             /\ \A s \in Rows : doc.results[s] = "committed" => copy.results[s] = "committed"
    BY <1>2 DEF CallOK
  <1>4. \A o \in {"committed", "error"} :
          /\ L(o) \in Locals /\ L(o).todo = call[c].todo \ {r}
          /\ L(o).copy \in Document /\ L(o).copy.mode = copy.mode
          /\ L(o).copy.status = copy.status /\ L(o).copy.version = copy.version
          /\ L(o).copy.hash = copy.hash /\ L(o).copy.approved = copy.approved
          /\ \A s \in Rows : L(o).copy.results[s] = IF s = r THEN o ELSE copy.results[s]
    <2> SUFFICES ASSUME NEW o \in {"committed", "error"}
                 PROVE  /\ L(o) \in Locals /\ L(o).todo = call[c].todo \ {r}
                        /\ L(o).copy \in Document /\ L(o).copy.mode = copy.mode
                        /\ L(o).copy.status = copy.status /\ L(o).copy.version = copy.version
                        /\ L(o).copy.hash = copy.hash /\ L(o).copy.approved = copy.approved
                        /\ \A s \in Rows : L(o).copy.results[s] = IF s = r THEN o ELSE copy.results[s]
      OBVIOUS
    <2>1. o \in Outcome
      BY DEF Outcome
    <2> QED
      BY <2>1, <1>2, AfterRowIs
  <1>5. call[c].todo \subseteq Rows /\ "progress" \in Steps
    BY <1>2 DEF Locals, Steps
  <1> HIDE DEF L, copy
  <1>6. ASSUME NEW o \in {"committed", "error"}, NEW ap,
               \A s \in Rows : applied[s] >= 1 => ap[s] >= 1, o = "committed" => ap[r] >= 1
        PROVE  CallOK("progress", L(o), doc, ap)
    <2>1. DocOK(L(o).copy)
      BY <1>2, <1>3, <1>4 DEF DocOK
    <2>2. \A s \in Rows : L(o).copy.results[s] = "committed" => ap[s] >= 1
      BY <1>3, <1>4, <1>6
    <2>3. \A s \in L(o).todo : L(o).copy.results[s] # "committed"
      BY <1>3, <1>4, <1>5
    <2>4. L(o).copy.version = doc.version =>
            \A s \in Rows : doc.results[s] = "committed" => L(o).copy.results[s] = "committed"
      BY <1>3, <1>4
    <2> QED
      BY <2>1, <2>2, <2>3, <2>4, <1>2, <1>3, <1>4 DEF CallOK
  <1>7. ASSUME NEW o \in {"committed", "error"}, o = "committed" => applied[r] >= 1,
               Go(c, "progress", L(o)), UNCHANGED <<blocked, applied, receipts>>
        PROVE  IInv'
    <2>1. CallOK("progress", L(o), doc, applied)
      BY <1>6, <1>7
    <2> QED
      BY <2>1, <1>1, <1>2, <1>4, <1>5, <1>7, StayKeeps
  <1>8. CASE r \in receipts /\ Go(c, "progress", L("committed"))
             /\ UNCHANGED <<blocked, applied, receipts>>
    <2>1. applied[r] >= 1
      BY <1>8 DEF IInv, Receipted
    <2> QED
      BY <2>1, <1>7, <1>8
  <1>9. CASE Go(c, "progress", L("error")) /\ UNCHANGED <<blocked, applied, receipts>>
    BY <1>7, <1>9
  <1>10. CASE r \notin receipts /\ Committed({r}) /\ receipts' = receipts \cup {r}
              /\ Go(c, "progress", L("committed"))
    <2>1. /\ applied' \in [Rows -> Nat] /\ blocked' \subseteq Rows
          /\ ApNext(applied, applied')
          /\ \A s \in Rows : applied'[s] = IF s = r THEN applied[s] + 1 ELSE applied[s]
      BY <1>10, AppliedRows
    <2>2. \A s \in Rows : applied[s] \in Nat
      BY DEF IInv, Typed
    <2>3. applied'[r] >= 1 /\ \A s \in Rows : applied[s] >= 1 => applied'[s] >= 1
      BY <2>1, <2>2
    <2>4. CallOK("progress", L("committed"), doc, applied')
      BY <2>3, <1>6
    <2>5. doc \in Document /\ DocOK(doc) /\ doc' = doc /\ DocNext(doc, doc') /\ Typed /\ Calls
      BY <1>1 DEF IInv, DocOK, DocNext
    <2>6. cpc' \in [Callers -> Steps] /\ call' \in [Callers -> Locals] /\ Calls'
      BY <2>1, <2>4, <2>5, <1>4, <1>5, <1>10, CallerStep
    <2>7. Typed'
      BY <2>1, <2>5, <2>6, <1>2, <1>10 DEF Typed
    <2>8. Reported'
      BY <2>3, <1>1 DEF IInv, Reported
    <2>9. doc.mode = "resumable"
      BY <1>2, <1>3 DEF DocOK
    <2>10. Receipted(doc'.mode, receipts', applied')
      <3>1. Receipted("resumable", receipts, applied) /\ doc'.mode = "resumable"
        BY <2>5, <2>9 DEF IInv
      <3>2. applied[r] = 0
        BY <3>1, <1>10 DEF Receipted
      <3>3. receipts \subseteq Rows
        BY DEF IInv, Typed
      <3> QED
        BY <3>1, <3>2, <3>3, <2>1, <2>3, <1>10 DEF Receipted
    <2> QED
      BY <2>5, <2>6, <2>7, <2>8, <2>10 DEF IInv
  <1> QED
    BY <1>1, <1>8, <1>9, <1>10

LEMMA RowIsTodo ==
  ASSUME IInv, NEW c \in Callers, NEW r \in Rows, Row(c, r)
  PROVE  r \in call[c].todo
  <1>1. call[c].todo \subseteq Rows /\ call[c].todo # {} /\ r = Min(call[c].todo)
    BY DEF IInv, Typed, Locals, Row
  <1>2. call[c].todo \subseteq Nat
    BY <1>1 DEF Rows
  <1> QED
    BY <1>1, <1>2, MinOf

LEMMA DieKeeps ==
  ASSUME IInv, NEW c \in Callers, Die(c)
  PROVE  IInv'
  BY EndKeeps DEF Die

LEMMA InitIInv == Init => IInv
  <1> SUFFICES ASSUME Init PROVE IInv
    OBVIOUS
  <1>1. NoResults \in [Rows -> Outcome] /\ \A r \in Rows : NoResults[r] # "committed"
    BY DEF NoResults, Outcome
  <1>2. PICK mode \in Modes :
          doc = [mode |-> mode, status |-> "proposed", hash |-> None, approved |-> None,
                 results |-> NoResults, version |-> 1]
    BY DEF Init
  <1>3. doc \in Document /\ doc.status = "proposed" /\ doc.results = NoResults
    <2>1. /\ doc.status = "proposed" /\ doc.results = NoResults /\ doc.mode = mode
          /\ doc.hash = None /\ doc.approved = None /\ doc.version = 1
      BY <1>2
    <2>2. [mode |-> mode, status |-> "proposed", hash |-> None, approved |-> None,
           results |-> NoResults, version |-> 1] \in Document
      BY <1>1 DEF Document
    <2> QED
      BY <2>1, <2>2, <1>2
  <1>4. DocOK(doc) /\ Reported
    BY <1>1, <1>3 DEF DocOK, Reported
  <1>5. /\ blocked = {} /\ applied = [r \in Rows |-> 0] /\ receipts = {} /\ commits = 0
        /\ disturbed = FALSE
        /\ \A c \in Callers : cpc[c] = "idle" /\ call[c] = AtRest
        /\ cpc = [c \in Callers |-> "idle"] /\ call = [c \in Callers |-> AtRest]
    BY DEF Init
  <1>6. Typed
    <2>1. cpc \in [Callers -> Steps]
      BY <1>5 DEF Steps
    <2>2. call \in [Callers -> Locals]
      BY <1>5, AtRestOK
    <2>3. applied \in [Rows -> Nat] /\ commits \in 0 .. MaxCommits
      BY <1>5, ChangesetsAssumption
    <2> QED
      BY <2>1, <2>2, <2>3, <1>5 DEF Typed
  <1>7. Calls
    BY <1>5 DEF Calls, CallOK
  <1>8. Receipted(doc.mode, receipts, applied)
    BY <1>5 DEF Receipted
  <1> QED
    BY <1>4, <1>6, <1>7, <1>8 DEF IInv

LEMMA NextIInv == IInv /\ [Next]_vars => IInv'
  <1> SUFFICES ASSUME IInv, [Next]_vars PROVE IInv'
    OBVIOUS
  <1>1. CASE Approve
    BY <1>1, ApproveKeeps
  <1>2. ASSUME NEW r \in Rows, Disturb(r) PROVE IInv'
    BY <1>2, DisturbKeeps
  <1>3. ASSUME NEW c \in Callers, Preview(c) \/ SavePreview(c) \/ Commit(c) \/ Plan(c) PROVE IInv'
    BY <1>3, PreviewKeeps, SavePreviewKeeps, CommitKeeps, PlanKeeps
  <1>4. ASSUME NEW c \in Callers, CommitAll(c) \/ SaveOutcome(c) \/ Begin(c) PROVE IInv'
    BY <1>4, CommitAllKeeps, SaveOutcomeKeeps, BeginKeeps
  <1>5. ASSUME NEW c \in Callers, SaveProgress(c) \/ SaveFinal(c) \/ Die(c) PROVE IInv'
    BY <1>5, SaveProgressKeeps, SaveFinalKeeps, DieKeeps
  <1>6. ASSUME NEW c \in Callers, NEW r \in Rows, Row(c, r) PROVE IInv'
    BY <1>6, RowIsTodo, RowKeeps
  <1>7. CASE UNCHANGED vars
    BY <1>7 DEF vars, IInv, Typed, Calls, Reported
  <1> QED
    BY <1>1, <1>2, <1>3, <1>4, <1>5, <1>6, <1>7 DEF Next

LEMMA Invariant == Spec => []IInv
  BY InitIInv, NextIInv, PTL DEF Spec

(* Every variable keeps its type, and a changeset gets past its preview    *)
(* only with an approved hash.                                             *)
THEOREM TypeCorrect == Spec => []TypeOK
  <1>1. IInv => TypeOK
    BY DEF IInv, Typed, DocOK, Locals, Steps, TypeOK
  <1> QED
    BY <1>1, Invariant, PTL

(* However many commits of a resumable changeset run beside each other,    *)
(* die after a row or are called again, no row is committed twice.         *)
THEOREM RowsCommitOnce == Spec => []RowOnce
  <1>1. IInv => RowOnce
    BY DEF IInv, Typed, Receipted, RowOnce
  <1> QED
    BY <1>1, Invariant, PTL

(* What the document reports as committed is committed.                    *)
THEOREM ReportsAreTrue == Spec => []ReportIsTrue
  <1>1. IInv => ReportIsTrue
    BY DEF IInv, Reported, DocOK, ReportIsTrue
  <1> QED
    BY <1>1, Invariant, PTL

-----------------------------------------------------------------------------
(* What a step may do to the document.                                     *)
DocStep ==
  \/ doc' = doc
  \/ /\ doc'.mode = doc.mode
     /\ doc.status \notin {"committed", "failed"}
     /\ \A r \in Rows : doc.results[r] = "committed" => doc'.results[r] = "committed"

(* A call saves what it made of its current copy.                          *)
LEMMA CopySaved ==
  ASSUME IInv, NEW c \in Callers, cpc[c] # "idle", Current(c),
         NEW e \in Document, doc' = Saved(e), e.mode = call[c].copy.mode,
         \/ cpc[c] \in {"preview", "save", "begin"}
         \/ cpc[c] \in {"rows", "progress"} /\ e.results = call[c].copy.results
  PROVE  DocStep
  <1> DEFINE copy == call[c].copy
  <1>1. /\ CallOK(cpc[c], call[c], doc, applied) /\ DocOK(doc) /\ copy.version = doc.version
        /\ copy.mode = doc.mode
    BY AtWork DEF Current
  <1>2. /\ copy.status = doc.status
        /\ \A r \in Rows : doc.results[r] = "committed" => copy.results[r] = "committed"
    BY <1>1 DEF CallOK
  <1>3. doc'.mode = e.mode /\ doc'.results = e.results
    BY SavedIs
  <1>4. CASE cpc[c] \in {"preview", "save", "begin"}
    <2>1. copy.status \in {"proposed", "previewed", "approved"}
      BY <1>1, <1>4 DEF CallOK
    <2>2. \A r \in Rows : doc.results[r] # "committed"
      BY <2>1, <1>1, <1>2 DEF DocOK
    <2> QED
      BY <2>1, <2>2, <1>1, <1>2, <1>3 DEF DocStep
  <1>5. CASE cpc[c] \in {"rows", "progress"} /\ e.results = copy.results
    <2>1. copy.status \in {"committing", "partially-committed"}
      BY <1>1, <1>5 DEF CallOK
    <2> QED
      BY <2>1, <1>1, <1>2, <1>3, <1>5 DEF DocStep
  <1> QED
    BY <1>4, <1>5

LEMMA StepDoc == IInv /\ [Next]_vars => DocStep
  <1> SUFFICES ASSUME IInv, [Next]_vars PROVE DocStep
    OBVIOUS
  <1>1. CASE Approve
    <2> DEFINE e == [doc EXCEPT !.status = "approved", !.approved = doc.hash]
    <2>1. doc \in Document /\ doc' = Saved(e) /\ doc.status \in {"previewed", "approved"}
      BY <1>1 DEF IInv, DocOK, Approve
    <2>2. doc.hash \in (SUBSET Rows) \cup {None}
      BY <2>1 DEF Document
    <2>3. e \in Document /\ e.mode = doc.mode /\ e.results = doc.results
      BY <2>1, <2>2 DEF Document
    <2> HIDE DEF e
    <2>4. doc'.mode = doc.mode /\ doc'.results = doc.results
      BY <2>1, <2>3, SavedIs
    <2> QED
      BY <2>1, <2>4 DEF DocStep
  <1>2. ASSUME NEW c \in Callers, SavePreview(c) PROVE DocStep
    <2> DEFINE copy == call[c].copy
               keeps == copy.status = "approved" /\ copy.approved = call[c].ok
               e == [copy EXCEPT !.status = IF keeps THEN "approved" ELSE "previewed",
                                 !.hash = call[c].ok]
    <2>1. cpc[c] = "preview" /\ doc' = IF Current(c) THEN Saved(e) ELSE doc
      BY <1>2 DEF SavePreview
    <2>2. copy \in Document /\ call[c].ok \in SUBSET Rows
      BY <2>1, AtWork DEF Locals
    <2>3. e \in Document /\ e.mode = copy.mode
      BY <2>2 DEF Document
    <2> HIDE DEF e
    <2> QED
      BY <2>1, <2>3, CopySaved DEF DocStep
  <1>3. ASSUME NEW c \in Callers, SaveOutcome(c) PROVE DocStep
    <2> DEFINE copy == call[c].copy
               results == [r \in Rows |-> IF call[c].next = "committed" THEN "committed"
                                          ELSE IF r = Blamed(call[c].ok) THEN "error" ELSE "skipped"]
               e == [copy EXCEPT !.status = call[c].next, !.results = results]
    <2>1. cpc[c] = "save" /\ doc' = IF Current(c) THEN Saved(e) ELSE doc
      BY <1>3 DEF SaveOutcome
    <2>2. copy \in Document /\ call[c].next \in {"committed", "failed"}
      BY <2>1, AtWork DEF Locals, CallOK
    <2>3. results \in [Rows -> Outcome]
      BY DEF Outcome
    <2> HIDE DEF results
    <2>4. e \in Document /\ e.mode = copy.mode
      BY <2>2, <2>3 DEF Document
    <2> HIDE DEF e
    <2> QED
      BY <2>1, <2>4, CopySaved DEF DocStep
  <1>4. ASSUME NEW c \in Callers, Begin(c) PROVE DocStep
    <2> DEFINE copy == call[c].copy
               results == [r \in Rows |-> IF r \in call[c].ok THEN "ok" ELSE "error"]
               e == [copy EXCEPT !.status = "committing", !.results = results]
    <2>1. cpc[c] = "begin" /\ IF Current(c) THEN doc' = Saved(e) ELSE doc' = doc
      BY <1>4 DEF Begin
    <2>2. copy \in Document /\ results \in [Rows -> Outcome]
      BY <2>1, AtWork DEF Outcome
    <2> HIDE DEF results
    <2>3. e \in Document /\ e.mode = copy.mode
      BY <2>2 DEF Document
    <2> HIDE DEF e
    <2> QED
      BY <2>1, <2>3, CopySaved DEF DocStep
  <1>5. ASSUME NEW c \in Callers, SaveProgress(c) PROVE DocStep
    <2> DEFINE copy == call[c].copy
               e == [copy EXCEPT !.status = "committing"]
    <2>1. cpc[c] = "progress" /\ IF Current(c) THEN doc' = Saved(e) ELSE doc' = doc
      BY <1>5 DEF SaveProgress
    <2>2. copy \in Document
      BY <2>1, AtWork
    <2>3. e \in Document /\ e.mode = copy.mode /\ e.results = copy.results
      BY <2>2 DEF Document
    <2> HIDE DEF e
    <2> QED
      BY <2>1, <2>3, CopySaved DEF DocStep
  <1>6. ASSUME NEW c \in Callers, SaveFinal(c) PROVE DocStep
    <2> DEFINE copy == call[c].copy
               status == IF AllCommitted(copy.results) THEN "committed" ELSE "partially-committed"
               e == [copy EXCEPT !.status = status]
    <2>1. cpc[c] = "rows" /\ doc' = IF Current(c) THEN Saved(e) ELSE doc
      BY <1>6 DEF SaveFinal
    <2>2. copy \in Document /\ status \in {"committed", "partially-committed"}
      BY <2>1, AtWork
    <2> HIDE DEF status
    <2>3. e \in Document /\ e.mode = copy.mode /\ e.results = copy.results
      BY <2>2 DEF Document
    <2> HIDE DEF e
    <2> QED
      BY <2>1, <2>3, CopySaved DEF DocStep
  <1>7. ASSUME NEW c \in Callers,
               \/ Preview(c) \/ Commit(c) \/ Plan(c) \/ CommitAll(c) \/ Die(c)
               \/ \E r \in Rows : Row(c, r)
        PROVE  DocStep
    BY <1>7 DEF Preview, Commit, Plan, CommitAll, Die, Row, DocStep
  <1>8. ASSUME NEW r \in Rows, Disturb(r) PROVE DocStep
    BY <1>8 DEF Disturb, DocStep
  <1>9. CASE UNCHANGED vars
    BY <1>9 DEF vars, DocStep
  <1> QED
    BY <1>1, <1>2, <1>3, <1>4, <1>5, <1>6, <1>7, <1>8, <1>9 DEF Next

(* A row stays reported as committed, and a changeset that is committed or *)
(* failed stays what it is, whatever a slower call saves.                  *)
THEOREM OutcomesStand == Spec => OutcomeStands
  <1>1. IInv /\ [Next]_vars =>
          [/\ \A r \in Rows : doc.results[r] = "committed" => doc'.results[r] = "committed"
           /\ doc.status \in {"committed", "failed"} => doc' = doc]_vars
    <2>1. DocStep =>
            /\ \A r \in Rows : doc.results[r] = "committed" => doc'.results[r] = "committed"
            /\ doc.status \in {"committed", "failed"} => doc' = doc
      BY DEF DocStep
    <2> QED
      BY <2>1, StepDoc
  <1> QED
    BY <1>1, Invariant, PTL DEF Spec, OutcomeStands

-----------------------------------------------------------------------------
(* An atomic commit has stored its rows and not yet saved its outcome.     *)
Won(c) == cpc[c] = "save" /\ call[c].next = "committed"

(* An undisturbed atomic changeset: one commit at a time, none on a        *)
(* changeset that is over, and the rows are committed once, by a commit    *)
(* that has saved its outcome or is about to.                              *)
Alone ==
  /\ \A c, d \in Callers : InCommit(c) /\ InCommit(d) => c = d
  /\ \A c \in Callers : InCommit(c) => doc.status \notin {"committed", "failed"}
  /\ \A c \in Callers : InCommit(c) /\ ~Won(c) => \A r \in Rows : applied[r] = 0
  /\ \A r \in Rows : applied[r] <= 1
  /\ (\E r \in Rows : applied[r] # 0) =>
       doc.status = "committed" \/ \E c \in Callers : Won(c)

Undisturbed == doc.mode = "atomic" /\ ~disturbed => Alone

(* A step of one call leaves the others where they are.                    *)
LEMMA OthersStay ==
  ASSUME Typed, NEW c \in Callers, NEW step, NEW l, Go(c, step, l)
  PROVE  /\ cpc'[c] = step /\ call'[c] = l
         /\ \A u \in Callers \ {c} : /\ cpc'[u] = cpc[u] /\ call'[u] = call[u]
                                    /\ InCommit(u)' = InCommit(u) /\ Won(u)' = Won(u)
  BY DEF Typed, Go, InCommit, Won

(* A call that stays in its commit without storing or saving anything.     *)
LEMMA StillAlone ==
  ASSUME Typed, Alone, NEW c \in Callers, NEW step, NEW l, Go(c, step, l),
         UNCHANGED <<doc, applied>>, ~Won(c),
         step \in {"idle", "preview"} \/ InCommit(c),
         ~(step = "save" /\ l.next = "committed")
  PROVE  Alone'
  <1>1. /\ cpc'[c] = step /\ ~Won(c)' /\ (InCommit(c)' => InCommit(c))
        /\ \A u \in Callers \ {c} : InCommit(u)' = InCommit(u) /\ Won(u)' = Won(u)
    BY OthersStay DEF InCommit, Won
  <1> QED
    BY <1>1 DEF Alone

LEMMA CommitAlone ==
  ASSUME IInv, Alone, doc.mode = "atomic", NEW c \in Callers, Commit(c), ~disturbed'
  PROVE  Alone'
  <1>1. /\ cpc[c] = "idle" /\ UNCHANGED <<doc, applied>>
        /\ \A d \in Callers : ~InCommit(d)
        /\ doc.status \notin {"committed", "failed"}
    BY DEF Commit
  <1>2. /\ ~Won(c)' /\ \A u \in Callers \ {c} : ~InCommit(u)' /\ ~Won(u)'
    <2>1. PICK step \in {"plan", "rows"}, l \in {[AtRest EXCEPT !.copy = doc,
                               !.todo = {r \in Rows : doc.results[r] # "committed"}]} :
            Go(c, step, l)
      BY DEF Commit
    <2>2. cpc'[c] = step /\ \A u \in Callers \ {c} : InCommit(u)' = InCommit(u) /\ Won(u)' = Won(u)
      BY <2>1, OthersStay DEF IInv
    <2> QED
      BY <2>1, <2>2, <1>1 DEF Won, InCommit
  <1>3. applied \in [Rows -> Nat] /\ \A u \in Callers : ~Won(u)
    BY <1>1 DEF IInv, Typed, Won, InCommit
  <1>4. \A r \in Rows : applied[r] = 0
    BY <1>1, <1>3 DEF Alone
  <1> QED
    BY <1>1, <1>2, <1>4 DEF Alone

(* The rows are stored by a call that was alone in its commit.             *)
LEMMA CommitAllAlone ==
  ASSUME IInv, Alone, NEW c \in Callers, CommitAll(c)
  PROVE  Alone'
  <1>1. cpc[c] = "commitAll" /\ InCommit(c) /\ ~Won(c) /\ doc' = doc /\ call[c] \in Locals /\ Typed
    BY DEF CommitAll, InCommit, Won, IInv, Typed
  <1>2. CASE Committed(Rows) /\ Go(c, "save", [call[c] EXCEPT !.next = "committed"])
    <2>1. /\ cpc'[c] = "save" /\ call'[c].next = "committed"
          /\ \A u \in Callers \ {c} : InCommit(u)' = InCommit(u) /\ Won(u)' = Won(u)
      BY <1>1, <1>2, OthersStay DEF Locals
    <2>2. \A r \in Rows : applied[r] = 0
      BY <1>1 DEF Alone
    <2>3. \A r \in Rows : applied'[r] = 1
      BY <1>2, <2>2 DEF Committed
    <2>4. Won(c)' /\ \A u \in Callers \ {c} : ~InCommit(u)'
      BY <2>1, <1>1 DEF Alone, Won
    <2> QED
      BY <2>3, <2>4, <1>1 DEF Alone
  <1>3. CASE applied' = applied /\ Go(c, "save", [call[c] EXCEPT !.next = "failed"])
    <2>1. [call[c] EXCEPT !.next = "failed"].next # "committed"
      BY <1>1 DEF Locals
    <2> QED
      BY <1>1, <1>3, <2>1, StillAlone
  <1> QED
    BY <1>2, <1>3 DEF CommitAll

(* The outcome of the only commit is saved.                                *)
LEMMA SaveOutcomeAlone ==
  ASSUME IInv, Alone, NEW c \in Callers, SaveOutcome(c), ~disturbed'
  PROVE  Alone'
  <1> DEFINE e == [call[c].copy EXCEPT
                     !.status = call[c].next,
                     !.results = [r \in Rows |-> IF call[c].next = "committed" THEN "committed"
                                   ELSE IF r = Blamed(call[c].ok) THEN "error" ELSE "skipped"]]
  <1>1. cpc[c] = "save" /\ InCommit(c) /\ Done(c) /\ applied' = applied /\ Typed
    BY DEF SaveOutcome, InCommit, IInv
  <1>2. Current(c) /\ doc' = Saved(e)
    BY DEF SaveOutcome, IInv, Typed
  <1>3. call[c].copy \in Document /\ call[c].next \in {"committed", "failed"}
    BY <1>1, AtWork DEF CallOK, Locals
  <1>4. doc'.status = call[c].next
    BY <1>2, <1>3 DEF Saved, Document
  <1>5. /\ ~InCommit(c)' /\ ~Won(c)'
        /\ \A u \in Callers \ {c} : ~InCommit(u)' /\ ~Won(u)'
    <2>1. /\ cpc'[c] = "idle"
          /\ \A u \in Callers \ {c} : InCommit(u)' = InCommit(u) /\ Won(u)' = Won(u)
      BY <1>1, OthersStay DEF Done
    <2> QED
      BY <2>1, <1>1 DEF Alone, InCommit, Won
  <1>6. call[c].next = "failed" => \A r \in Rows : applied[r] = 0
    BY <1>1 DEF Alone, Won
  <1> QED
    BY <1>1, <1>3, <1>4, <1>5, <1>6 DEF Alone

(* A preview is saved, or an approval given: the status was not an outcome *)
(* and is none.                                                            *)
LEMMA StatusAlone ==
  ASSUME Alone, applied' = applied,
         \A u \in Callers : InCommit(u)' = InCommit(u) /\ Won(u)' = Won(u),
         \/ doc' = doc
         \/ doc.status # "committed" /\ doc'.status \notin {"committed", "failed"}
  PROVE  Alone'
  BY DEF Alone

LEMMA SavePreviewAlone ==
  ASSUME IInv, Alone, NEW c \in Callers, SavePreview(c)
  PROVE  Alone'
  <1> DEFINE copy == call[c].copy
             status == IF copy.status = "approved" /\ copy.approved = call[c].ok
                       THEN "approved" ELSE "previewed"
  <1>1. /\ cpc[c] = "preview" /\ Done(c) /\ applied' = applied /\ Typed
        /\ doc' = IF Current(c) THEN Saved([copy EXCEPT !.status = status, !.hash = call[c].ok])
                   ELSE doc
    BY DEF SavePreview, IInv
  <1>2. \A u \in Callers : InCommit(u)' = InCommit(u) /\ Won(u)' = Won(u)
    <2> TAKE u \in Callers
    <2>1. /\ cpc'[c] = "idle"
          /\ u # c => cpc'[u] = cpc[u] /\ call'[u] = call[u]
      BY <1>1, OthersStay DEF Done
    <2>2. CASE u = c
      BY <2>1, <2>2, <1>1 DEF InCommit, Won
    <2>3. CASE u # c
      BY <2>1, <2>3 DEF InCommit, Won
    <2> QED
      BY <2>2, <2>3
  <1>3. ASSUME Current(c)
        PROVE  doc.status # "committed" /\ doc'.status \notin {"committed", "failed"}
    <2>1. copy \in Document /\ CallOK("preview", call[c], doc, applied)
      BY <1>1, AtWork
    <2>2. doc'.status = status
      BY <1>1, <1>3, <2>1 DEF Saved, Document
    <2>3. copy.status = doc.status /\ copy.status \in {"proposed", "previewed", "approved"}
      BY <2>1, <1>3 DEF CallOK, Current
    <2> QED
      BY <2>2, <2>3
  <1> QED
    BY <1>1, <1>2, <1>3, StatusAlone

LEMMA ApproveAlone ==
  ASSUME IInv, Alone, Approve
  PROVE  Alone'
  <1>1. /\ doc \in Document /\ applied' = applied /\ doc.status \in {"previewed", "approved"}
        /\ doc' = Saved([doc EXCEPT !.status = "approved", !.approved = doc.hash])
        /\ cpc' = cpc /\ call' = call
    BY DEF Approve, IInv, DocOK
  <1>2. doc'.status = "approved"
    BY <1>1 DEF Saved, Document
  <1> QED
    BY <1>1, <1>2, StatusAlone DEF InCommit, Won

(* An atomic changeset never takes a step of the resumable kind.           *)
LEMMA NoRows ==
  ASSUME IInv, doc.mode = "atomic", NEW c \in Callers
  PROVE  cpc[c] \notin {"begin", "rows", "progress"}
  <1> SUFFICES ASSUME cpc[c] \in {"begin", "rows", "progress"} PROVE FALSE
    OBVIOUS
  <1>1. /\ CallOK(cpc[c], call[c], doc, applied) /\ DocOK(call[c].copy)
        /\ call[c].copy.mode = "atomic"
    BY AtWork
  <1> QED
    BY <1>1 DEF CallOK, DocOK

LEMMA NextAlone == IInv /\ Undisturbed /\ [Next]_vars => Undisturbed'
  <1> SUFFICES ASSUME IInv, Undisturbed, [Next]_vars, doc'.mode = "atomic", ~disturbed'
               PROVE  Alone'
    BY DEF Undisturbed
  <1>1. doc.mode = "atomic"
    BY StepDoc DEF DocStep
  <1>2. ~disturbed /\ Typed
    BY DEF IInv, Typed, Next, Approve, Disturb, Preview, SavePreview, Commit, Plan, CommitAll,
           SaveOutcome, Begin, SaveProgress, SaveFinal, Die, Row, vars
  <1>3. Alone
    BY <1>1, <1>2 DEF Undisturbed
  <1>4. CASE Approve
    BY <1>3, <1>4, ApproveAlone
  <1>5. ASSUME NEW r \in Rows, Disturb(r) PROVE Alone'
    BY <1>3, <1>5 DEF Disturb, Alone, InCommit, Won
  <1>6. ASSUME NEW c \in Callers, Preview(c) PROVE Alone'
    <2>1. /\ ~Won(c) /\ UNCHANGED <<doc, applied>>
          /\ \E l : Go(c, "preview", l)
      BY <1>6 DEF Preview, Won
    <2> QED
      BY <2>1, <1>2, <1>3, StillAlone
  <1>7. ASSUME NEW c \in Callers, Plan(c) PROVE Alone'
    <2>1. /\ ~Won(c) /\ InCommit(c) /\ UNCHANGED <<doc, applied>> /\ call[c] \in Locals
          /\ call[c].copy.mode = "atomic"
      <3>1. cpc[c] = "plan"
        BY <1>7 DEF Plan
      <3> QED
        BY <3>1, <1>1, <1>7, AtWork DEF Plan, Won, InCommit
    <2>2. CASE Done(c)
      BY <2>1, <2>2, <1>2, <1>3, StillAlone DEF Done
    <2>3. CASE \E l : Go(c, "commitAll", l)
      BY <2>1, <2>3, <1>2, <1>3, StillAlone
    <2>4. CASE Go(c, "save", [call[c] EXCEPT !.ok = Plannable, !.next = "failed"])
      <3>1. [call[c] EXCEPT !.ok = Plannable, !.next = "failed"].next # "committed"
        BY <2>1 DEF Locals
      <3> QED
        BY <2>1, <2>4, <3>1, <1>2, <1>3, StillAlone
    <2> QED
      BY <2>1, <2>2, <2>3, <2>4, <1>7 DEF Plan
  <1>8. ASSUME NEW c \in Callers, SavePreview(c) \/ Commit(c) \/ CommitAll(c) \/ SaveOutcome(c)
        PROVE  Alone'
    BY <1>1, <1>3, <1>8, SavePreviewAlone, CommitAlone, CommitAllAlone, SaveOutcomeAlone
  <1>9. ASSUME NEW c \in Callers,
               Begin(c) \/ SaveProgress(c) \/ SaveFinal(c) \/ \E r \in Rows : Row(c, r)
        PROVE  Alone'
    BY <1>1, <1>9, NoRows DEF Begin, SaveProgress, SaveFinal, Row
  <1>10. ASSUME NEW c \in Callers, Die(c) PROVE Alone'
    BY <1>10 DEF Die
  <1>11. CASE UNCHANGED vars
    BY <1>3, <1>11 DEF vars, Alone, InCommit, Won
  <1> QED
    BY <1>4, <1>5, <1>6, <1>7, <1>8, <1>9, <1>10, <1>11 DEF Next

(* An atomic changeset is committed as a whole; and unless a commit died,  *)
(* ran beside another, or lost the document, it is committed at most once, *)
(* and not at all when the document says it failed.                        *)
THEOREM AtomicCommits == Spec => []AtomicOutcome
  <1>1. Init => Undisturbed
    BY DEF Init, Undisturbed, Alone, InCommit, Won
  <1>2. IInv /\ Undisturbed => AtomicOutcome
    <2> SUFFICES ASSUME IInv, Undisturbed, doc.mode = "atomic"
                 PROVE  /\ \A r, s \in Rows : applied[r] = applied[s]
                        /\ ~disturbed => \A r \in Rows :
                             applied[r] <= 1 /\ (doc.status = "failed" => applied[r] = 0)
      BY DEF AtomicOutcome
    <2>1. \A r, s \in Rows : applied[r] = applied[s]
      BY DEF IInv, Receipted
    <2>2. ASSUME ~disturbed, NEW r \in Rows
          PROVE  applied[r] <= 1 /\ (doc.status = "failed" => applied[r] = 0)
      <3>1. Alone
        BY <2>2 DEF Undisturbed
      <3>2. \A c \in Callers : Won(c) => InCommit(c)
        BY DEF Won, InCommit
      <3> QED
        BY <3>1, <3>2 DEF Alone
    <2> QED
      BY <2>1, <2>2
  <1> QED
    BY <1>1, <1>2, NextAlone, Invariant, PTL DEF Spec
=============================================================================
