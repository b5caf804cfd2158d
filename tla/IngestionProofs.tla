--------------------------- MODULE IngestionProofs ---------------------------
(***************************************************************************)
(* Proofs about Ingestion for every set of documents and processes, every  *)
(* window and timeout with Timeout <= Stale, with and without database     *)
(* faults.  The first part says what the model's record updates do, field  *)
(* by field; the second proves one lemma per action about the document it  *)
(* moves; the third combines them.                                         *)
(*                                                                         *)
(* Then, Ingestion implements DocumentLifecycle for every set of documents *)
(* and .NET processes, where commits succeed: what a step makes of one     *)
(* document is lifted to a step of DocumentLifecycle, and each action is   *)
(* shown to make such a step of its document.                              *)
(*                                                                         *)
(* The last part is the upload directory: a row that exists has its file.  *)
(* What carries it is the order of the two steps at both ends of a         *)
(* document's life: the file is written before the row and removed after   *)
(* it, by a request that remembers the document.                           *)
(***************************************************************************)
EXTENDS Ingestion, TLAPS

USE ProcsAssumption, TimeAssumption, FaultAssumption

-----------------------------------------------------------------------------
(* Field by field.                                                         *)

LEMMA BlankRows ==
  /\ Absent \in Rows
  /\ Queued \in Rows
  /\ Absent.status = "absent" /\ Absent.error = "none" /\ Absent.review = "not_required"
  /\ Absent.age = 0 /\ Absent.enriched = 0 /\ Absent.indexed = FALSE
  /\ Queued.status = "queued" /\ Queued.error = "none" /\ Queued.review = "not_required"
  /\ Queued.age = 0 /\ Queued.enriched = 0 /\ Queued.indexed = FALSE
<1>1. Absent \in Rows
  BY DEF Absent, Rows, Transient, Terminal, Errors, MaxAge
<1>2. Queued \in Rows
  BY <1>1 DEF Queued, Rows, Transient
<1> QED
  BY <1>1, <1>2 DEF Queued, Absent

LEMMA UpdateRow ==
  ASSUME NEW r \in Rows, NEW s \in Transient \cup Terminal, NEW e \in Errors
  PROVE  /\ Update(r, s, e) \in Rows
         /\ Update(r, s, e).status = s
         /\ Update(r, s, e).error = e
         /\ Update(r, s, e).age = 0
         /\ Update(r, s, e).review = r.review
         /\ Update(r, s, e).enriched = r.enriched
         /\ Update(r, s, e).indexed = r.indexed
<1> DEFINE q == [r EXCEPT !.status = s]
<1> DEFINE p == [q EXCEPT !.error = e]
<1>1. q \in Rows /\ q.status = s /\ q.error = r.error /\ q.review = r.review
      /\ q.enriched = r.enriched /\ q.indexed = r.indexed
  BY DEF Rows
<1> HIDE DEF q
<1>2. p \in Rows /\ p.status = s /\ p.error = e /\ p.review = r.review
      /\ p.enriched = r.enriched /\ p.indexed = r.indexed
  BY <1>1 DEF Rows
<1> HIDE DEF p
<1>3. [p EXCEPT !.age = 0] \in Rows
  BY <1>2 DEF Rows, MaxAge
<1>4. Update(r, s, e) = [p EXCEPT !.age = 0]
  BY DEF Update, p, q
<1> QED
  BY <1>2, <1>3, <1>4 DEF Rows

LEMMA ReadyRow ==
  ASSUME NEW r \in Rows, NEW v \in {"not_required", "pending_sme"}
  PROVE  /\ Ready(r, v) \in Rows
         /\ Ready(r, v).status = r.status
         /\ Ready(r, v).error = r.error
         /\ Ready(r, v).age = r.age
         /\ Ready(r, v).review = v
         /\ Ready(r, v).enriched = r.enriched
         /\ Ready(r, v).indexed = TRUE
<1> DEFINE q == [r EXCEPT !.indexed = TRUE]
<1>1. q \in Rows /\ q.status = r.status /\ q.error = r.error /\ q.age = r.age
      /\ q.enriched = r.enriched /\ q.indexed = TRUE
  BY DEF Rows
<1> HIDE DEF q
<1>2. [q EXCEPT !.review = v] \in Rows
  BY <1>1 DEF Rows
<1>3. Ready(r, v) = [q EXCEPT !.review = v]
  BY DEF Ready, q
<1> QED
  BY <1>1, <1>2, <1>3 DEF Rows

LEMMA EnrichedRow ==
  ASSUME NEW r \in Rows, NEW n \in 0..2
  PROVE  /\ Enriched(r, n) \in Rows
         /\ Enriched(r, n).status = r.status
         /\ Enriched(r, n).error = r.error
         /\ Enriched(r, n).age = r.age
         /\ Enriched(r, n).review = r.review
         /\ Enriched(r, n).enriched = n
         /\ Enriched(r, n).indexed = r.indexed
BY DEF Rows, Enriched

LEMMA AgedRow ==
  ASSUME NEW r \in Rows, NEW n \in 0..MaxAge
  PROVE  /\ [r EXCEPT !.age = n] \in Rows
         /\ [r EXCEPT !.age = n].status = r.status
         /\ [r EXCEPT !.age = n].error = r.error
         /\ [r EXCEPT !.age = n].age = n
         /\ [r EXCEPT !.age = n].review = r.review
         /\ [r EXCEPT !.age = n].enriched = r.enriched
         /\ [r EXCEPT !.age = n].indexed = r.indexed
BY DEF Rows

LEMMA StagedTask ==
  ASSUME NEW t \in Tasks, NEW s \in Stages
  PROVE  /\ [t EXCEPT !.stage = s] \in Tasks
         /\ [t EXCEPT !.stage = s].stage = s
         /\ [t EXCEPT !.stage = s].seen = t.seen
         /\ [t EXCEPT !.stage = s].elapsed = t.elapsed
BY DEF Tasks

LEMMA SeenTask ==
  ASSUME NEW t \in Tasks, NEW e \in Errors
  PROVE  /\ [t EXCEPT !.seen = e] \in Tasks
         /\ [t EXCEPT !.seen = e].stage = t.stage
         /\ [t EXCEPT !.seen = e].elapsed = t.elapsed
BY DEF Tasks

LEMMA ElapsedTask ==
  ASSUME NEW t \in Tasks, NEW n \in 0..Timeout
  PROVE  /\ [t EXCEPT !.elapsed = n] \in Tasks
         /\ [t EXCEPT !.elapsed = n].stage = t.stage
         /\ [t EXCEPT !.elapsed = n].elapsed = n
BY DEF Tasks

-----------------------------------------------------------------------------
(* What an action makes of the row and the worker of its document.         *)

RowIs(d, s, e, a, v, n, i) ==
  /\ row' \in [Docs -> Rows]
  /\ row'[d].status = s /\ row'[d].error = e /\ row'[d].age = a
  /\ row'[d].review = v /\ row'[d].enriched = n /\ row'[d].indexed = i
  /\ \A c \in Docs \ {d} : row'[c] = row[c]

StageIs(d, s) ==
  /\ task' \in [Docs -> Tasks]
  /\ task'[d].stage = s
  /\ task'[d].elapsed = task[d].elapsed
  /\ \A c \in Docs \ {d} : task'[c] = task[c]

LEMMA PutRow ==
  ASSUME TypeOK, NEW d \in Docs, NEW r \in Rows, row' = [row EXCEPT ![d] = r]
  PROVE  /\ RowIs(d, r.status, r.error, r.age, r.review, r.enriched, r.indexed)
         /\ row'[d] = r
BY DEF TypeOK, RowIs

LEMMA PutUpdate ==
  ASSUME TypeOK, NEW d \in Docs, NEW s \in Transient \cup Terminal, NEW e \in Errors,
         row' = [row EXCEPT ![d] = Update(row[d], s, e)]
  PROVE  RowIs(d, s, e, 0, row[d].review, row[d].enriched, row[d].indexed)
<1>1. row[d] \in Rows
  BY DEF TypeOK
<1> DEFINE r == Update(row[d], s, e)
<1>2. /\ r \in Rows /\ r.status = s /\ r.error = e /\ r.age = 0
      /\ r.review = row[d].review /\ r.enriched = row[d].enriched /\ r.indexed = row[d].indexed
  BY <1>1, UpdateRow
<1>3. row' = [row EXCEPT ![d] = r]
  OBVIOUS
<1> HIDE DEF r
<1> QED
  BY <1>2, <1>3, PutRow

LEMMA PutReady ==
  ASSUME TypeOK, NEW d \in Docs, NEW e \in Errors,
         row' = [row EXCEPT ![d] = Ready(Update(row[d], "ready", e), ReviewAtReady(d))]
  PROVE  RowIs(d, "ready", e, 0, ReviewAtReady(d), row[d].enriched, TRUE)
<1>1. row[d] \in Rows /\ ReviewAtReady(d) \in {"not_required", "pending_sme"}
  BY DEF TypeOK, Rows, ReviewAtReady
<1> DEFINE q == Update(row[d], "ready", e)
<1> DEFINE r == Ready(q, ReviewAtReady(d))
<1>2. q \in Rows /\ q.status = "ready" /\ q.error = e /\ q.age = 0 /\ q.enriched = row[d].enriched
  BY <1>1, UpdateRow DEF Terminal
<1>3. row' = [row EXCEPT ![d] = r]
  OBVIOUS
<1> HIDE DEF q
<1>4. /\ r \in Rows /\ r.status = "ready" /\ r.error = e /\ r.age = 0
      /\ r.review = ReviewAtReady(d) /\ r.enriched = row[d].enriched /\ r.indexed = TRUE
  BY <1>1, <1>2, ReadyRow
<1> HIDE DEF r
<1> QED
  BY <1>3, <1>4, PutRow DEF RowIs

LEMMA PutEnriched ==
  ASSUME TypeOK, NEW d \in Docs, NEW n \in 0..2, row' = [row EXCEPT ![d] = Enriched(row[d], n)]
  PROVE  RowIs(d, row[d].status, row[d].error, row[d].age, row[d].review, n, row[d].indexed)
<1>1. row[d] \in Rows
  BY DEF TypeOK
<1> DEFINE r == Enriched(row[d], n)
<1>2. /\ r \in Rows /\ r.status = row[d].status /\ r.error = row[d].error /\ r.age = row[d].age
      /\ r.review = row[d].review /\ r.enriched = n /\ r.indexed = row[d].indexed
  BY <1>1, EnrichedRow
<1>3. row' = [row EXCEPT ![d] = r]
  OBVIOUS
<1> HIDE DEF r
<1> QED
  BY <1>2, <1>3, PutRow

LEMMA PutStage ==
  ASSUME TypeOK, NEW d \in Docs, NEW s \in Stages, Goto(d, s)
  PROVE  StageIs(d, s)
<1>1. task[d] \in Tasks
  BY DEF TypeOK
<1>2. task' = [task EXCEPT ![d] = [task[d] EXCEPT !.stage = s]]
  BY DEF Goto
<1> QED
  BY <1>1, <1>2, StagedTask DEF TypeOK, StageIs

LEMMA PutSeen ==
  ASSUME TypeOK, NEW d \in Docs, NEW s \in Stages, NEW x \in Errors,
         task' = [task EXCEPT ![d].stage = s, ![d].seen = x]
  PROVE  StageIs(d, s)
<1>1. task[d] \in Tasks
  BY DEF TypeOK
<1> DEFINE u == [task EXCEPT ![d].stage = s]
<1>2. /\ u = [task EXCEPT ![d] = [task[d] EXCEPT !.stage = s]]
      /\ u[d] = [task[d] EXCEPT !.stage = s]
      /\ \A e \in Docs \ {d} : u[e] = task[e]
  BY DEF TypeOK
<1>3. u \in [Docs -> Tasks] /\ u[d].stage = s /\ u[d].elapsed = task[d].elapsed
  BY <1>1, <1>2, StagedTask DEF TypeOK
<1>4. task' = [u EXCEPT ![d].seen = x]
  OBVIOUS
<1> HIDE DEF u
<1>5. task' = [u EXCEPT ![d] = [u[d] EXCEPT !.seen = x]]
  BY <1>4
<1>6. /\ [u[d] EXCEPT !.seen = x] \in Tasks
      /\ [u[d] EXCEPT !.seen = x].stage = s
      /\ [u[d] EXCEPT !.seen = x].elapsed = task[d].elapsed
  BY <1>3, SeenTask
<1> QED
  BY <1>2, <1>3, <1>5, <1>6 DEF StageIs

-----------------------------------------------------------------------------
(* The invariant of one document, and the actions that move one document.  *)

Safe(d) ==
  /\ DocumentInv(d)
  /\ row[d].status = "ready" => row[d].indexed
  /\ row[d].indexed =>
       \/ row[d].status = "ready"
       \/ DbFaults /\ row[d].status = "failed" /\ row[d].error = "pipeline"
  /\ row[d].review = IF row[d].indexed /\ scope[d] = "library" THEN "pending_sme" ELSE "not_required"
  /\ row[d].status = "ready" => row[d].enriched = 2
  /\ home[d] \in DotNet /\ task[d].stage \in Working /\ InTime(d) => row[d].error # "interrupted"

LEMMA IndInvIsSafe == IndInv <=> TypeOK /\ \A d \in Docs : Safe(d)
BY DEF IndInv, Safe, IndexedExactlyWhenReady, ReviewFollowsIndex, ReadyIsEnriched, NetWorkerNotSwept

Others(d) ==
  \A c \in Docs \ {d} : /\ row'[c] = row[c] /\ task'[c] = task[c]
                        /\ home'[c] = home[c] /\ scope'[c] = scope[c]

(* An action that leaves the other documents alone need only keep its own  *)
(* document safe.                                                          *)
Good(d) == TypeOK' /\ Safe(d)' /\ Others(d)

LEMMA OthersStaySafe ==
  ASSUME NEW d \in Docs, \A c \in Docs : Safe(c), Good(d)
  PROVE  TypeOK' /\ \A c \in Docs : Safe(c)'
<1> SUFFICES ASSUME NEW c \in Docs \ {d} PROVE Safe(c)'
  BY DEF Good
<1>1. /\ row'[c] = row[c] /\ task'[c] = task[c] /\ home'[c] = home[c] /\ scope'[c] = scope[c]
      /\ Safe(c)
  BY DEF Good, Others
<1> QED
  BY <1>1 DEF Safe, DocumentInv, InTime, Exists

LEMMA DocumentTypes ==
  ASSUME TypeOK, NEW d \in Docs
  PROVE  /\ row[d] \in Rows /\ row[d].status \in Transient \cup Terminal \cup {"absent"}
         /\ row[d].error \in Errors /\ row[d].age \in 0..MaxAge /\ row[d].indexed \in BOOLEAN
         /\ task[d] \in Tasks /\ task[d].stage \in Stages /\ task[d].seen \in Errors
         /\ task[d].elapsed \in 0..Timeout
BY DEF TypeOK, Rows, Tasks

(* Moves of a worker that leave the row as it is. *)
LEMMA WorkerMoves ==
  ASSUME TypeOK, NEW d \in Docs, Safe(d), UNCHANGED row, Worker(d), NEW s \in Stages, StageIs(d, s),
         task[d].stage \in Working,
         s \in Working \cup {"done"},
         s \in {"captions", "index", "embed"} => task[d].stage \in {"captions", "index", "embed"},
         task[d].stage = "failing" => s = "done"
  PROVE  Good(d)
<1>1. TypeOK'
  BY DEF TypeOK, StageIs, Worker
<1>2. Others(d)
  BY DEF Others, StageIs, Worker
<1>3. Safe(d)'
  BY DEF Safe, DocumentInv, StageIs, Worker, InTime, Exists, Working
<1> QED
  BY <1>1, <1>2, <1>3 DEF Good

(* A status written before the last commit of a pipeline. *)
LEMMA StatusMoves ==
  ASSUME TypeOK, NEW d \in Docs, Safe(d), Worker(d), Exists(d),
         NEW s \in Stages, StageIs(d, s), NEW t \in Transient, NEW e \in Errors,
         RowIs(d, t, e, 0, row[d].review, row[d].enriched, row[d].indexed),
         home[d] \in DotNet => e = row[d].error,
         task[d].stage \in Working \ {"failing"}, s \in Working \ {"failing"},
         s \in {"captions", "index", "embed"} => task[d].stage \in {"captions", "index", "embed"}
  PROVE  Good(d)
<1>1. TypeOK'
  BY DEF TypeOK, StageIs, RowIs, Worker
<1>2. Others(d)
  BY DEF Others, StageIs, RowIs, Worker
<1>3. Safe(d)'
  BY DocumentTypes DEF Safe, DocumentInv, StageIs, RowIs, Worker, InTime, Exists, Working, Transient
<1> QED
  BY <1>1, <1>2, <1>3 DEF Good

LEMMA PySetStatusGood ==
  ASSUME TypeOK, NEW d \in Docs, Safe(d), NEW from, NEW to, NEW s \in Transient,
         PySetStatus(d, from, s, to),
         from \in Working \ {"failing"}, to \in Working \ {"failing"},
         to \in {"captions", "index", "embed"} => from \in {"captions", "index", "embed"}
  PROVE  Good(d)
<1>1. CASE /\ Exists(d)
           /\ row'  = [row EXCEPT ![d] = PyStatus(d, s)]
           /\ task' = [task EXCEPT ![d].stage = to, ![d].seen = "none"]
  <2> DEFINE e == IF task[d].seen = "none" THEN row[d].error ELSE "none"
  <2>1. e \in Errors
    BY DocumentTypes DEF Errors
  <2>2. StageIs(d, to)
    BY <1>1, PutSeen DEF Stages, Errors
  <2>3. row' = [row EXCEPT ![d] = Update(row[d], s, e)]
    BY <1>1 DEF PyStatus
  <2> HIDE DEF e
  <2>4. RowIs(d, s, e, 0, row[d].review, row[d].enriched, row[d].indexed)
    BY <2>1, <2>3, PutUpdate
  <2> QED
    BY <1>1, <2>1, <2>2, <2>4, StatusMoves DEF PySetStatus, At, Stages
<1>2. CASE UNCHANGED row /\ Goto(d, "done")
  <2>1. StageIs(d, "done")
    BY <1>2, PutStage DEF Stages, Finished
  <2> QED
    BY <1>2, <2>1, WorkerMoves DEF PySetStatus, At, Stages, Finished
<1> QED
  BY <1>1, <1>2 DEF PySetStatus

(* Enrichment rows; they come before the stages that rely on them. *)
LEMMA EnrichmentMoves ==
  ASSUME TypeOK, NEW d \in Docs, Safe(d), Worker(d), Exists(d), NEW n \in 0..2,
         RowIs(d, row[d].status, row[d].error, row[d].age, row[d].review, n, row[d].indexed),
         task[d].stage \in {"enrich", "rows"},
         NEW s \in Stages, StageIs(d, s),
         \/ s = "rows"
         \/ n = 2 /\ s \in {"captions", "index"}
  PROVE  Good(d)
<1>2. TypeOK'
  BY DEF TypeOK, StageIs, RowIs, Worker
<1>3. Others(d)
  BY DEF Others, StageIs, RowIs, Worker
<1>4. Safe(d)'
  BY DocumentTypes DEF Safe, DocumentInv, StageIs, RowIs, Worker, InTime, Exists, Working
<1> QED
  BY <1>2, <1>3, <1>4 DEF Good

(* The last commit of either pipeline. *)
LEMMA PublishGood ==
  ASSUME TypeOK, NEW d \in Docs, Safe(d), Worker(d), task[d].stage = "embed", NEW e \in Errors,
         home[d] \in DotNet => e # "interrupted",
         Publish(d, Ready(Update(row[d], "ready", e), ReviewAtReady(d)))
  PROVE  Good(d)
<1> DEFINE r == Ready(Update(row[d], "ready", e), ReviewAtReady(d))
<1>1. CASE /\ Exists(d) /\ row' = [row EXCEPT ![d] = r]
           /\ Goto(d, "done") \/ (DbFaults /\ Goto(d, "failing"))
  <2>1. RowIs(d, "ready", e, 0, ReviewAtReady(d), row[d].enriched, TRUE)
    BY <1>1, PutReady
  <2>2. PICK s \in {"done", "failing"} : StageIs(d, s) /\ (s = "failing" => DbFaults)
    BY <1>1, PutStage DEF Stages, Working, Finished
  <2>3. TypeOK'
    BY <2>1, <2>2 DEF TypeOK, StageIs, RowIs, Worker
  <2>4. Others(d)
    BY <2>1, <2>2 DEF Others, StageIs, RowIs, Worker
  <2>5. Safe(d)'
    BY <1>1, <2>1, <2>2, DocumentTypes
       DEF Safe, DocumentInv, StageIs, RowIs, Worker, InTime, Exists, Working, ReviewAtReady
  <2> QED
    BY <2>3, <2>4, <2>5 DEF Good
<1>2. CASE UNCHANGED row /\ Goto(d, "failing")
  <2>1. StageIs(d, "failing")
    BY <1>2, PutStage DEF Stages, Working
  <2> QED
    BY <1>2, <2>1, WorkerMoves DEF Stages, Working
<1>3. \/ /\ Exists(d) /\ row' = [row EXCEPT ![d] = r]
         /\ Goto(d, "done") \/ (DbFaults /\ Goto(d, "failing"))
      \/ UNCHANGED row /\ Goto(d, "failing")
  BY Zenon DEF Publish
<1> HIDE DEF r
<1> QED
  BY <1>1, <1>2, <1>3

LEMMA WriteFailedGood ==
  ASSUME TypeOK, NEW d \in Docs, Safe(d), WriteFailed(d)
  PROVE  Good(d)
<1>1. StageIs(d, "done") /\ Worker(d) /\ task[d].stage = "failing"
  BY PutStage DEF WriteFailed, Stages, Finished
<1>2. CASE Exists(d) /\ row' = [row EXCEPT ![d] = Update(row[d], "failed", "pipeline")]
  <2>1. RowIs(d, "failed", "pipeline", 0, row[d].review, row[d].enriched, row[d].indexed)
    BY <1>2, PutUpdate DEF Terminal, Errors
  <2>2. TypeOK'
    BY <1>1, <2>1 DEF TypeOK, StageIs, RowIs, Worker
  <2>3. Others(d)
    BY <1>1, <2>1 DEF Others, StageIs, RowIs, Worker
  <2>4. Safe(d)'
    BY <1>1, <1>2, <2>1, DocumentTypes
       DEF Safe, DocumentInv, StageIs, RowIs, Worker, InTime, Exists, Working
  <2> QED
    BY <2>2, <2>3, <2>4 DEF Good
<1>3. CASE UNCHANGED row
  BY <1>1, <1>3, WorkerMoves DEF Stages, Finished, Working
<1>4. ~Exists(d) /\ row' = [row EXCEPT ![d] = @] => UNCHANGED row
  BY DEF TypeOK
<1> QED
  BY <1>2, <1>3, <1>4 DEF WriteFailed, FailedRow

(* Every step of the FastAPI worker. *)
LEMMA PyWorkerGood ==
  ASSUME TypeOK, NEW d \in Docs, Safe(d), PyWorker(d)
  PROVE  Good(d)
<1> USE DEF Stages, Working, Finished
<1>1. CASE PyLoad(d)
  <2>1. PICK s \in {"loaded", "done"} : StageIs(d, s)
    BY <1>1, PutSeen, DocumentTypes DEF PyLoad
  <2> QED
    BY <1>1, <2>1, WorkerMoves DEF PyLoad, At
<1>2. CASE PyExtracting(d)
  BY <1>2, PySetStatusGood DEF PyExtracting, Transient
<1>3. CASE PyExtract(d)
  <2>1. PICK s \in {"extracted", "failing"} : StageIs(d, s)
    BY <1>3, PutStage DEF PyExtract
  <2> QED
    BY <1>3, <2>1, WorkerMoves DEF PyExtract, At
<1>4. CASE PyEnriching(d)
  BY <1>4, PySetStatusGood DEF PyEnriching, Transient
<1>5. CASE PyEnrich(d)
  <2>1. CASE Exists(d) /\ row' = [row EXCEPT ![d] = Enriched(row[d], 2)] /\ Goto(d, "captions")
    <3>1. StageIs(d, "captions")
      BY <2>1, PutStage
    <3>2. RowIs(d, row[d].status, row[d].error, row[d].age, row[d].review, 2, row[d].indexed)
      BY <2>1, 2 \in 0..2, PutEnriched, Zenon
    <3> QED
      BY <1>5, <2>1, <3>1, <3>2, EnrichmentMoves DEF PyEnrich, At
  <2>2. CASE UNCHANGED row /\ Goto(d, "failing")
    BY <1>5, <2>2, PutStage, WorkerMoves DEF PyEnrich, At
  <2> QED
    BY <1>5, <2>1, <2>2 DEF PyEnrich
<1>6. CASE PyCaptions(d)
  <2>1. PICK s \in {"index", "done"} : StageIs(d, s)
    BY <1>6, PutStage DEF PyCaptions
  <2> QED
    BY <1>6, <2>1, WorkerMoves DEF PyCaptions, At
<1>7. CASE PyEmbedding(d)
  BY <1>7, PySetStatusGood DEF PyEmbedding, Transient
<1>8. CASE PyPublish(d)
  <2> DEFINE e == IF task[d].seen = "none" THEN row[d].error ELSE "none"
  <2>1. e \in Errors
    BY DocumentTypes DEF Errors
  <2>2. Publish(d, Ready(Update(row[d], "ready", e), ReviewAtReady(d)))
    BY <1>8 DEF PyPublish, PyReady, PyStatus
  <2>3. home[d] \notin DotNet
    BY <1>8 DEF PyPublish, At
  <2> HIDE DEF e
  <2> QED
    BY <1>8, <2>1, <2>2, <2>3, PublishGood DEF PyPublish, At
<1> QED
  BY <1>1, <1>2, <1>3, <1>4, <1>5, <1>6, <1>7, <1>8 DEF PyWorker

LEMMA NetSetStatusGood ==
  ASSUME TypeOK, NEW d \in Docs, Safe(d), NEW from, NEW to, NEW s \in Transient,
         NetSetStatus(d, from, s, to),
         from \in Working \ {"failing"}, to \in Working \ {"failing"},
         to \in {"captions", "index", "embed"} => from \in {"captions", "index", "embed"}
  PROVE  Good(d)
<1>1. StageIs(d, to)
  BY PutStage DEF NetSetStatus, Stages
<1>2. CASE Exists(d)
  <2>1. row' = [row EXCEPT ![d] = Update(row[d], s, row[d].error)]
    BY <1>2 DEF NetSetStatus
  <2>2. RowIs(d, s, row[d].error, 0, row[d].review, row[d].enriched, row[d].indexed)
    BY <2>1, PutUpdate, DocumentTypes
  <2> QED
    BY <1>1, <1>2, <2>2, StatusMoves, DocumentTypes DEF NetSetStatus, At, Stages
<1>3. CASE ~Exists(d)
  <2>1. UNCHANGED row
    BY <1>3 DEF NetSetStatus, TypeOK
  <2> QED
    BY <1>1, <2>1, WorkerMoves DEF NetSetStatus, At, Stages
<1> QED
  BY <1>2, <1>3

(* Every step of the .NET worker. *)
LEMMA NetWorkerGood ==
  ASSUME TypeOK, NEW d \in Docs, Safe(d), NetWorker(d)
  PROVE  Good(d)
<1> USE DEF Stages, Working, Finished
<1>1. CASE NetLoad(d)
  <2>1. PICK s \in {"loaded", "done"} : StageIs(d, s)
    BY <1>1, PutStage DEF NetLoad
  <2> QED
    BY <1>1, <2>1, WorkerMoves DEF NetLoad, At
<1>2. CASE NetExtracting(d)
  BY <1>2, NetSetStatusGood DEF NetExtracting, Transient
<1>3. CASE NetExtract(d)
  BY <1>3, PutStage, WorkerMoves DEF NetExtract, At
<1>4. CASE NetEnriching(d)
  BY <1>4, NetSetStatusGood DEF NetEnriching, Transient
<1>5. CASE NetSummary(d)
  <2>1. StageIs(d, "rows")
    BY <1>5, PutStage DEF NetSummary
  <2>2. RowIs(d, row[d].status, row[d].error, row[d].age, row[d].review, 1, row[d].indexed)
    BY <1>5, 1 \in 0..2, PutEnriched, Zenon DEF NetSummary
  <2> QED
    BY <1>5, <2>1, <2>2, EnrichmentMoves DEF NetSummary, At
<1>6. CASE NetRows(d)
  <2>1. StageIs(d, "index")
    BY <1>6, PutStage DEF NetRows
  <2>2. RowIs(d, row[d].status, row[d].error, row[d].age, row[d].review, 2, row[d].indexed)
    BY <1>6, 2 \in 0..2, PutEnriched, Zenon DEF NetRows
  <2> QED
    BY <1>6, <2>1, <2>2, EnrichmentMoves DEF NetRows, At
<1>7. CASE NetEmbedding(d)
  BY <1>7, NetSetStatusGood DEF NetEmbedding, Transient
<1>8. CASE NetPublish(d)
  BY <1>8, PublishGood DEF NetPublish, NetReady, At, Errors
<1>9. CASE NetFail(d)
  BY <1>9, PutStage, WorkerMoves DEF NetFail
<1> QED
  BY <1>1, <1>2, <1>3, <1>4, <1>5, <1>6, <1>7, <1>8, <1>9 DEF NetWorker

(* The handlers of a request: upload and delete. *)
LEMMA UploadGood ==
  ASSUME TypeOK, NEW d \in Docs, Safe(d), InsertRow(d) \/ InsertFails(d) \/ NetRejectFile(d)
  PROVE  Good(d)
<1> USE DEF Stages, Working, Finished
<1>1. CASE InsertRow(d)
  <2>1. StageIs(d, "queued")
    BY <1>1, PutStage DEF InsertRow
  <2>2. RowIs(d, "queued", "none", 0, "not_required", 0, FALSE)
    BY <1>1, PutRow, BlankRows DEF InsertRow, RowIs
  <2>3. TypeOK' /\ Others(d)
    BY <1>1, <2>1, <2>2 DEF TypeOK, Others, StageIs, RowIs, InsertRow
  <2>4. Safe(d)'
    BY <1>1, <2>1, <2>2, DocumentTypes DEF Safe, DocumentInv, StageIs, RowIs, InsertRow, InTime
  <2> QED
    BY <2>3, <2>4 DEF Good
<1>2. CASE InsertFails(d) \/ NetRejectFile(d)
  <2>1. StageIs(d, "refused")
    BY <1>2, PutStage DEF InsertFails, NetRejectFile
  <2>2. TypeOK' /\ Others(d)
    BY <1>2, <2>1 DEF TypeOK, Others, StageIs, InsertFails, NetRejectFile
  <2>3. Safe(d)'
    BY <1>2, <2>1 DEF Safe, DocumentInv, StageIs, InsertFails, NetRejectFile, At, InTime, Exists
  <2> QED
    BY <2>2, <2>3 DEF Good
<1> QED
  BY <1>1, <1>2

LEMMA RequestGood ==
  ASSUME TypeOK, NEW d \in Docs, Safe(d), NEW p \in Procs, Request(p, d)
  PROVE  Good(d)
<1>1. CASE \E s \in {"personal", "library"} : SaveFile(p, d, s)
  <2>1. StageIs(d, "request")
    BY <1>1, PutStage DEF SaveFile, Stages
  <2>2. TypeOK' /\ Others(d)
    <3>1. PICK s \in {"personal", "library"} : SaveFile(p, d, s)
      BY <1>1
    <3>2. /\ file' \in [Docs -> BOOLEAN] /\ home' \in [Docs -> Procs \cup {NoProc}]
          /\ scope' \in [Docs -> {"personal", "library"}]
      BY <3>1 DEF SaveFile, TypeOK
    <3> QED
      BY <2>1, <3>1, <3>2 DEF TypeOK, Others, StageIs, SaveFile
  <2>3. row'[d] = Absent /\ home'[d] = p /\ p # NoProc
    BY <1>1 DEF SaveFile, Safe, DocumentInv, TypeOK
  <2>4. Safe(d)'
    BY <2>1, <2>3, BlankRows DEF Safe, DocumentInv, StageIs, Working
  <2> QED
    BY <2>2, <2>4 DEF Good
<1>2. CASE DeleteRow(d) /\ UNCHANGED <<task, home, scope>>
            /\ file' \in [Docs -> BOOLEAN] /\ up' \in SUBSET Procs /\ halfway' \in [Procs -> SUBSET Docs]
  <2>1. row'[d] = Absent /\ RowIs(d, "absent", "none", 0, "not_required", 0, FALSE)
    BY <1>2, PutRow, BlankRows DEF DeleteRow, RowIs
  <2>2. TypeOK' /\ Others(d)
    BY <1>2, <2>1 DEF TypeOK, Others, RowIs
  <2>3. Safe(d)'
    BY <1>2, <2>1, DocumentTypes DEF Safe, DocumentInv, RowIs, InTime, Exists
  <2> QED
    BY <2>2, <2>3 DEF Good
<1>3. CASE UNCHANGED <<row, task, home, scope>>
            /\ file' \in [Docs -> BOOLEAN] /\ up' \in SUBSET Procs /\ halfway' \in [Procs -> SUBSET Docs]
  BY <1>3 DEF Good, TypeOK, Others, Safe, DocumentInv, InTime, Exists
<1>4. CASE PyDeleteFiles(p, d) \/ NetDeleteFiles(p, d)
  <2>1. file' \in [Docs -> BOOLEAN]
    BY <1>4 DEF PyDeleteFiles, NetDeleteFiles, TypeOK
  <2>2. halfway' \in [Procs -> SUBSET Docs]
    BY <1>4 DEF PyDeleteFiles, NetDeleteFiles, TypeOK
  <2> QED
    BY <1>3, <1>4, <2>1, <2>2 DEF PyDeleteFiles, NetDeleteFiles, TypeOK
<1>5. CASE PyDeleteRow(p, d) \/ NetDeleteRow(p, d)
  BY <1>2, <1>5 DEF PyDeleteRow, NetDeleteRow, TypeOK
<1> QED
  BY <1>1, <1>4, <1>5 DEF Request

LEMMA IndInvPrimed ==
  ASSUME TypeOK', \A d \in Docs : Safe(d)'
  PROVE  IndInv'
BY DEF IndInv, Safe, IndexedExactlyWhenReady, ReviewFollowsIndex, ReadyIsEnriched, NetWorkerNotSwept

-----------------------------------------------------------------------------
(* Steps that move many documents at once.                                 *)

LEMMA CrashSafe ==
  ASSUME IndInv, NEW p \in Procs, Crash(p)
  PROVE  IndInv'
<1> USE DEF Stages, Working, Finished
<1>1. ASSUME NEW d \in Docs
      PROVE  /\ task'[d] \in Tasks
             /\ task'[d].elapsed = task[d].elapsed
             /\ \/ task'[d].stage = task[d].stage
                \/ task[d].stage = "request" /\ task'[d].stage = "refused"
                \/ task[d].stage \in Working /\ task'[d].stage = "done"
  <2>1. task[d] \in Tasks /\ task[d].stage \in Stages
    BY DocumentTypes DEF IndInv
  <2>2. CASE home[d] # p
    BY <2>1, <2>2 DEF Crash
  <2>3. CASE home[d] = p
    <3> DEFINE s == CASE task[d].stage = "request" -> "refused"
                      [] task[d].stage \in Working -> "done"
                      [] OTHER -> task[d].stage
    <3>1. task'[d] = [task[d] EXCEPT !.stage = s]
      BY <2>3 DEF Crash
    <3>2. /\ s \in Stages
          /\ \/ s = task[d].stage
             \/ task[d].stage = "request" /\ s = "refused"
             \/ task[d].stage \in Working /\ s = "done"
      BY <2>1
    <3> HIDE DEF s
    <3>3. /\ [task[d] EXCEPT !.stage = s] \in Tasks
          /\ [task[d] EXCEPT !.stage = s].stage = s
          /\ [task[d] EXCEPT !.stage = s].elapsed = task[d].elapsed
      BY <2>1, <3>2, StagedTask
    <3> QED
      BY <3>1, <3>2, <3>3
  <2> QED
    BY <2>2, <2>3
<1>2. task' \in [Docs -> Tasks]
  BY <1>1 DEF Crash
<1>3. TypeOK'
  BY <1>2 DEF IndInv, TypeOK, Crash
<1>4. ASSUME NEW d \in Docs
      PROVE  Safe(d)'
  BY <1>1, IndInvIsSafe DEF Safe, DocumentInv, Crash, InTime, Exists
<1> QED
  BY <1>3, <1>4, IndInvPrimed

LEMMA SweepSafe ==
  ASSUME IndInv, row' = Swept, UNCHANGED <<task, file, home, scope, halfway>>, up' \in SUBSET Procs
  PROVE  IndInv'
<1>1. ASSUME NEW d \in Docs, Sweepable(row[d])
      PROVE  /\ row'[d] \in Rows
             /\ row'[d].status = "failed" /\ row'[d].error = "interrupted" /\ row'[d].age = 0
             /\ row'[d].review = row[d].review /\ row'[d].enriched = row[d].enriched
             /\ row'[d].indexed = row[d].indexed
  <2>1. row'[d] = Update(row[d], "failed", "interrupted")
    BY <1>1 DEF Swept, FailedRow
  <2>2. row[d] \in Rows
    BY DocumentTypes DEF IndInv
  <2> QED
    BY <2>1, <2>2, UpdateRow DEF Terminal, Errors
<1>2. ASSUME NEW d \in Docs, ~Sweepable(row[d])
      PROVE  row'[d] = row[d]
  BY <1>2 DEF Swept
<1>3. row' \in [Docs -> Rows]
  BY <1>1, <1>2, DocumentTypes DEF Swept, IndInv
<1>4. TypeOK'
  BY <1>3 DEF IndInv, TypeOK
<1>5. ASSUME NEW d \in Docs
      PROVE  Safe(d)'
  <2>1. Safe(d) /\ TypeOK
    BY IndInvIsSafe
  <2>2. CASE ~Sweepable(row[d])
    BY <2>1, <2>2, <1>2 DEF Safe, DocumentInv, InTime, Exists
  <2>3. CASE Sweepable(row[d])
    (* A .NET worker in time has a row younger than the window. *)
    <3>1. ~(home[d] \in DotNet /\ task[d].stage \in Working /\ InTime(d))
      BY <2>1, <2>3, DocumentTypes DEF Safe, DocumentInv, Sweepable, InTime, Tasks, Rows, MaxAge
    <3>2. ~row[d].indexed /\ row[d].status \in Transient
      BY <2>1, <2>3 DEF Safe, Sweepable, Transient
    <3> QED
      BY <1>1, <2>1, <2>3, <3>1, <3>2, BlankRows DEF Safe, DocumentInv, InTime, Exists, Transient
  <2> QED
    BY <2>2, <2>3
<1> QED
  BY <1>4, <1>5, IndInvPrimed

LEMMA TickSafe ==
  ASSUME IndInv, Tick
  PROVE  IndInv'
<1>1. ASSUME NEW d \in Docs
      PROVE  /\ row'[d] \in Rows
             /\ row'[d].status = row[d].status /\ row'[d].error = row[d].error
             /\ row'[d].age = AgedBy1(d) /\ row'[d].review = row[d].review
             /\ row'[d].enriched = row[d].enriched /\ row'[d].indexed = row[d].indexed
             /\ row[d].status = "absent" => row'[d] = row[d]
  <2>1. row[d] \in Rows /\ row[d].age \in 0..MaxAge
    BY DocumentTypes DEF IndInv
  <2>2. AgedBy1(d) \in 0..MaxAge
    BY <2>1 DEF AgedBy1, MaxAge
  <2>3. row'[d] = [row[d] EXCEPT !.age = AgedBy1(d)]
    BY DEF Tick
  <2>4. row[d].status = "absent" => [row[d] EXCEPT !.age = AgedBy1(d)] = row[d]
    BY <2>1 DEF AgedBy1, Exists, Rows
  <2> QED
    BY <2>1, <2>2, <2>3, <2>4, AgedRow
<1>2. ASSUME NEW d \in Docs
      PROVE  /\ task'[d] \in Tasks
             /\ task'[d].stage = task[d].stage
             /\ task'[d].elapsed = ElapsedBy1(d)
  <2>1. task[d] \in Tasks /\ task[d].elapsed \in 0..Timeout
    BY DocumentTypes DEF IndInv
  <2>2. ElapsedBy1(d) \in 0..Timeout
    BY <2>1 DEF ElapsedBy1, InTime
  <2>3. task'[d] = [task[d] EXCEPT !.elapsed = ElapsedBy1(d)]
    BY DEF Tick
  <2> QED
    BY <2>1, <2>2, <2>3, ElapsedTask
<1>3. row' \in [Docs -> Rows] /\ task' \in [Docs -> Tasks]
  BY <1>1, <1>2 DEF Tick
<1>4. TypeOK'
  BY <1>3 DEF IndInv, TypeOK, Tick
<1>5. ASSUME NEW d \in Docs
      PROVE  Safe(d)'
  <2>1. Safe(d) /\ TypeOK /\ UNCHANGED <<home, scope>>
    BY IndInvIsSafe DEF Tick
  <2>2. InTime(d)' => InTime(d)
    BY <1>2, <2>1, DocumentTypes DEF InTime, ElapsedBy1
  <2>3. home[d] \in DotNet /\ task[d].stage \in Working /\ InTime(d) =>
          row'[d].age <= task'[d].elapsed
    BY <1>1, <1>2, <2>1, DocumentTypes DEF Safe, DocumentInv, AgedBy1, ElapsedBy1
  <2>4. row[d] = Absent => row'[d] = Absent
    BY <1>1, BlankRows
  <2>5. DocumentInv(d)'
    BY <1>1, <1>2, <2>1, <2>2, <2>3, <2>4 DEF Safe, DocumentInv, Exists
  <2> QED
    BY <1>1, <1>2, <2>1, <2>2, <2>5 DEF Safe
<1> QED
  BY <1>4, <1>5, IndInvPrimed

-----------------------------------------------------------------------------
(* The invariant, and what follows from it.                                *)

LEMMA InitSafe == Init => IndInv
<1> SUFFICES ASSUME Init PROVE IndInv
  OBVIOUS
<1>1. [stage |-> "none", seen |-> "none", elapsed |-> 0] \in Tasks
  BY DEF Tasks, Stages, Finished, Errors
<1>2. TypeOK
  BY <1>1, BlankRows DEF Init, TypeOK
<1>3. \A d \in Docs : Safe(d)
  BY BlankRows DEF Init, Safe, DocumentInv, Working, Exists
<1> QED
  BY <1>2, <1>3, IndInvIsSafe

(* IndInv is inductive: no step of an upload, a delete, a worker of either *)
(* backend, a sweep, a crash or the clock breaks it.                       *)
THEOREM Invariance == IndInv /\ [Next]_vars => IndInv'
<1> SUFFICES ASSUME IndInv, [Next]_vars PROVE IndInv'
  OBVIOUS
<1>1. TypeOK /\ \A c \in Docs : Safe(c)
  BY IndInvIsSafe
<1>2. ASSUME NEW d \in Docs, Good(d)
      PROVE  IndInv'
  BY <1>1, <1>2, OthersStaySafe, IndInvPrimed
<1>3. ASSUME NEW d \in Docs, InsertRow(d) \/ InsertFails(d) \/ NetRejectFile(d)
      PROVE  IndInv'
  BY <1>1, <1>2, <1>3, UploadGood
<1>4. ASSUME NEW d \in Docs, WorkerStep(d)
      PROVE  IndInv'
  BY <1>1, <1>2, <1>4, PyWorkerGood, NetWorkerGood, WriteFailedGood DEF WorkerStep
<1>5. ASSUME NEW d \in Docs, NEW p \in Procs, Request(p, d)
      PROVE  IndInv'
  BY <1>1, <1>2, <1>5, RequestGood
<1>6. ASSUME NEW p \in Procs, Crash(p)
      PROVE  IndInv'
  BY <1>6, CrashSafe
<1>7. ASSUME NEW p \in Procs, Start(p)
      PROVE  IndInv'
  BY <1>1, <1>7, SweepSafe DEF Start, TypeOK
<1>8. ASSUME NEW p \in Procs, PyStartUnswept(p)
      PROVE  IndInv'
  <2>1. TypeOK'
    BY <1>1, <1>8 DEF PyStartUnswept, TypeOK
  <2>2. \A d \in Docs : Safe(d)'
    BY <1>1, <1>8 DEF PyStartUnswept, Safe, DocumentInv, InTime, Exists
  <2> QED
    BY <2>1, <2>2, IndInvPrimed
<1>9. CASE Tick
  BY <1>9, TickSafe
<1>10. CASE UNCHANGED vars
  <2>1. TypeOK'
    BY <1>1, <1>10 DEF vars, TypeOK
  <2>2. \A d \in Docs : Safe(d)'
    BY <1>1, <1>10 DEF vars, Safe, DocumentInv, InTime, Exists
  <2> QED
    BY <2>1, <2>2, IndInvPrimed
<1> QED
  BY <1>3, <1>4, <1>5, <1>6, <1>7, <1>8, <1>9, <1>10 DEF Next

THEOREM InductiveInvariant == Spec => []IndInv
BY InitSafe, Invariance, PTL DEF Spec

(* Every variable keeps its type: statuses stay within the CHECK           *)
(* constraint, ages and elapsed times within their caps.                   *)
THEOREM TypeCorrect == Spec => []TypeOK
<1>1. IndInv => TypeOK
  BY DEF IndInv
<1> QED
  BY <1>1, InductiveInvariant, PTL

(* In every reachable state of any number of processes of both backends,   *)
(* the chunks of a document are stored exactly when its status is 'ready', *)
(* but for a last commit whose reply was lost: the final commit of         *)
(* run_ingestion and RunAsync is never half visible, and no sweep, delete  *)
(* or crash separates the two.                                             *)
THEOREM IndexAtomicity == Spec => []IndexedExactlyWhenReady
<1>1. IndInv => IndexedExactlyWhenReady
  BY DEF IndInv
<1> QED
  BY <1>1, InductiveInvariant, PTL

(* No library document is ever searchable without being in review, and no  *)
(* other document ever is in review.                                       *)
THEOREM ReviewGate == Spec => []ReviewFollowsIndex
<1>1. IndInv => ReviewFollowsIndex
  BY DEF IndInv
<1> QED
  BY <1>1, InductiveInvariant, PTL

(* A 'ready' document has its summary, keywords and questions, though both *)
(* pipelines commit them before and apart from the status.                 *)
THEOREM ReadyEnrichment == Spec => []ReadyIsEnriched
<1>1. IndInv => ReadyIsEnriched
  BY DEF IndInv
<1> QED
  BY <1>1, InductiveInvariant, PTL

(* From Timeout <= Stale alone: no startup sweep, of either backend, fails *)
(* a document whose .NET worker may still write its status.                *)
THEOREM TimeoutBeatsSweep == Spec => []NetWorkerNotSwept
<1>1. IndInv => NetWorkerNotSwept
  BY DEF IndInv
<1> QED
  BY <1>1, InductiveInvariant, PTL

-----------------------------------------------------------------------------
(* What a step does to a ready document and to a worker that ends, where   *)
(* every commit succeeds and is known to have.                             *)

(* Only a worker that has work left steps. *)
LEMMA WorkersWork ==
  ASSUME NEW d \in Docs, WorkerStep(d)
  PROVE  task[d].stage \in Working
<1> USE DEF At, Working
<1>1. CASE PyWorker(d)
  BY <1>1 DEF PyWorker, PyLoad, PyExtracting, PyExtract, PyEnriching, PyEnrich, PyCaptions,
              PyEmbedding, PyPublish, PySetStatus
<1>2. CASE NetWorker(d)
  BY <1>2 DEF NetWorker, NetLoad, NetExtracting, NetExtract, NetEnriching, NetSummary, NetRows,
              NetEmbedding, NetPublish, NetFail, NetSetStatus
<1>3. CASE WriteFailed(d)
  BY <1>3 DEF WriteFailed
<1> QED
  BY <1>1, <1>2, <1>3 DEF WorkerStep

LEMMA StepsMoveOne ==
  ASSUME IndInv, NEW c \in Docs,
         \/ InsertRow(c) \/ InsertFails(c) \/ NetRejectFile(c) \/ WorkerStep(c)
         \/ \E p \in Procs : Request(p, c)
  PROVE  Others(c)
<1>1. TypeOK /\ Safe(c)
  BY IndInvIsSafe
<1> QED
  BY <1>1, UploadGood, PyWorkerGood, NetWorkerGood, WriteFailedGood, RequestGood
     DEF WorkerStep, Good

(* A worker that is failing writes 'failed', or nothing. *)
LEMMA FailingWrites ==
  ASSUME TypeOK, NEW d \in Docs, WorkerStep(d), task[d].stage = "failing"
  PROVE  row' = row \/ row' = [row EXCEPT ![d] = FailedRow(row[d], "pipeline")]
<1> USE DEF At
<1>1. ~PyWorker(d)
  BY DEF PyWorker, PyLoad, PyExtracting, PyExtract, PyEnriching, PyEnrich, PyCaptions,
         PyEmbedding, PyPublish, PySetStatus
<1>2. ~NetWorker(d)
  BY DEF NetWorker, NetLoad, NetExtracting, NetExtract, NetEnriching, NetSummary, NetRows,
         NetEmbedding, NetPublish, NetFail, NetSetStatus, Working
<1>3. WriteFailed(d)
  BY <1>1, <1>2 DEF WorkerStep
<1>4. [row EXCEPT ![d] = row[d]] = row
  BY DEF TypeOK
<1> QED
  BY <1>3, <1>4 DEF WriteFailed

LEMMA ReadyKept ==
  ASSUME IndInv, Next, NEW d \in Docs, row[d].status = "ready"
  PROVE  \/ row'[d].status \in {"ready", "absent"}
         \/ DbFaults /\ task[d].stage = "failing" /\ row'[d].error = "pipeline"
<1>1. TypeOK /\ Safe(d)
  BY IndInvIsSafe
<1>2. \/ task[d].stage \notin Working \cup {"request"}
      \/ DbFaults /\ task[d].stage = "failing"
  BY <1>1, BlankRows DEF Safe, DocumentInv
<1>3. CASE \E c \in Docs : \/ InsertRow(c) \/ InsertFails(c) \/ NetRejectFile(c) \/ WorkerStep(c)
                           \/ \E p \in Procs : Request(p, c)
  <2>1. PICK c \in Docs : \/ InsertRow(c) \/ InsertFails(c) \/ NetRejectFile(c) \/ WorkerStep(c)
                          \/ \E p \in Procs : Request(p, c)
    BY <1>3
  <2>2. CASE c # d
    BY <2>1, <2>2, StepsMoveOne DEF Others
  <2>3. CASE c = d /\ ~WorkerStep(d)
    <3>1. \E p \in Procs : Request(p, d)
      BY <2>1, <2>3, <1>2 DEF InsertRow, InsertFails, NetRejectFile, At
    <3>2. row' = row \/ DeleteRow(d)
      BY <3>1 DEF Request, SaveFile, PyDeleteFiles, PyDeleteRow, NetDeleteRow, NetDeleteFiles
    <3> QED
      BY <1>1, <3>2, BlankRows DEF DeleteRow, TypeOK
  <2>4. CASE WorkerStep(d)
    <3>1. DbFaults /\ task[d].stage = "failing"
      BY <1>2, <2>4, WorkersWork
    <3>2. row' = row \/ row' = [row EXCEPT ![d] = FailedRow(row[d], "pipeline")]
      BY <1>1, <2>4, <3>1, BlankRows, FailingWrites
    <3>3. CASE row' = [row EXCEPT ![d] = FailedRow(row[d], "pipeline")]
      BY <1>1, <3>1, <3>3, PutUpdate DEF FailedRow, RowIs, Terminal, Errors
    <3> QED
      BY <3>2, <3>3
  <2> QED
    BY <2>1, <2>2, <2>3, <2>4
<1>4. CASE \E p \in Procs : Crash(p) \/ PyStartUnswept(p)
  BY <1>4 DEF Crash, PyStartUnswept
<1>5. CASE \E p \in Procs : Start(p)
  BY <1>5 DEF Start, Swept, Sweepable, Transient
<1>6. CASE Tick
  <2>1. row'[d] = [row[d] EXCEPT !.age = AgedBy1(d)]
    BY <1>6 DEF Tick
  <2> QED
    BY <1>1, <2>1 DEF TypeOK, Rows
<1> QED
  BY <1>3, <1>4, <1>5, <1>6 DEF Next

(* Once ready, a document stays ready until it is deleted, whatever late   *)
(* worker, sweep, crash or second process there is: its worker has ended   *)
(* with the commit that made it ready (test_recovery.py:72), unless the    *)
(* reply of that commit was lost.                                          *)
THEOREM ReadyStays == Spec => ReadyIsFinal
<1> DEFINE Kept == \A d \in Docs : row[d].status = "ready" =>
                     \/ row'[d].status \in {"ready", "absent"}
                     \/ DbFaults /\ task[d].stage = "failing" /\ row'[d].error = "pipeline"
<1>1. IndInv /\ [Next]_vars => [Kept]_row
  BY ReadyKept DEF vars
<1>2. ReadyIsFinal <=> [][Kept]_row
  BY DEF ReadyIsFinal
<1> HIDE DEF Kept
<1> QED
  BY <1>1, <1>2, InductiveInvariant, PTL DEF Spec

(* A worker's last step leaves a terminal status, finds no row, or is an   *)
(* unguarded commit that failed.                                           *)
LEMMA LastStep ==
  ASSUME TypeOK, ProcsAssumption, NEW d \in Docs, WorkerStep(d), task'[d].stage \notin Working
  PROVE  row'[d].status \in Terminal \cup {"absent"} \/ (DbFaults /\ Unguarded(d))
<1> DEFINE Silent == DbFaults /\ Unguarded(d)
           Ends == row'[d].status \in Terminal \cup {"absent"}
<1> USE DEF At, Stages, Working, Finished
<1>1. ASSUME NEW s \in Working, Goto(d, s)
      PROVE  FALSE
  BY <1>1, PutStage DEF StageIs
<1>2. ASSUME ~Exists(d), UNCHANGED row
      PROVE  Ends
  BY <1>2 DEF Exists
<1>3. ASSUME NEW from \in {"loaded", "extracted", "index"}, NEW s, NEW to \in Working,
             PySetStatus(d, from, s, to)
      PROVE  Ends \/ Silent
  <2>1. CASE task' = [task EXCEPT ![d].stage = to, ![d].seen = "none"]
    <3>1. StageIs(d, to)
      BY <2>1, PutSeen DEF Errors
    <3> QED
      BY <3>1 DEF StageIs
  <2> QED
    BY <1>2, <1>3, <2>1 DEF PySetStatus, Unguarded
<1>4. ASSUME NEW e \in Errors,
             Publish(d, Ready(Update(row[d], "ready", e), ReviewAtReady(d)))
      PROVE  Ends
  <2>1. ~Goto(d, "failing")
    BY <1>1
  <2>2. row' = [row EXCEPT ![d] = Ready(Update(row[d], "ready", e), ReviewAtReady(d))]
    BY <1>4, <2>1, Zenon DEF Publish
  <2> QED
    BY <2>2, PutReady DEF RowIs, Terminal
<1>5. ASSUME PyWorker(d)
      PROVE  Ends \/ Silent
  <2>1. CASE PyLoad(d)
    <3>1. CASE Exists(d)
      <4>1. StageIs(d, "loaded")
        BY <2>1, <3>1, PutSeen, DocumentTypes DEF PyLoad
      <4> QED
        BY <4>1 DEF StageIs
    <3> QED
      BY <1>2, <2>1, <3>1 DEF PyLoad
  <2>2. CASE PyExtracting(d) \/ PyEnriching(d) \/ PyEmbedding(d)
    BY <1>3, <2>2 DEF PyExtracting, PyEnriching, PyEmbedding
  <2>3. CASE PyExtract(d) \/ PyEnrich(d)
    BY <1>1, <2>3 DEF PyExtract, PyEnrich
  <2>4. CASE PyCaptions(d)
    BY <1>1, <1>2, <2>4 DEF PyCaptions, Unguarded
  <2>5. CASE PyPublish(d)
    <3> DEFINE e == IF task[d].seen = "none" THEN row[d].error ELSE "none"
    <3>1. e \in Errors
      BY DocumentTypes DEF Errors
    <3>2. Publish(d, Ready(Update(row[d], "ready", e), ReviewAtReady(d)))
      BY <2>5 DEF PyPublish, PyReady, PyStatus
    <3> HIDE DEF e
    <3> QED
      BY <1>4, <3>1, <3>2
  <2> QED
    BY <1>5, <2>1, <2>2, <2>3, <2>4, <2>5 DEF PyWorker
<1>6. ASSUME NetWorker(d)
      PROVE  Ends
  <2>1. CASE NetLoad(d)
    BY <1>1, <1>2, <2>1 DEF NetLoad
  <2>2. CASE NetPublish(d)
    BY <1>4, <2>2 DEF NetPublish, NetReady, Errors
  <2>3. CASE \/ NetExtracting(d) \/ NetExtract(d) \/ NetEnriching(d) \/ NetSummary(d)
            \/ NetRows(d) \/ NetEmbedding(d) \/ NetFail(d)
    BY <1>1, <2>3 DEF NetExtracting, NetExtract, NetEnriching, NetSummary, NetRows, NetEmbedding,
                      NetFail, NetSetStatus
  <2> QED
    BY <1>6, <2>1, <2>2, <2>3 DEF NetWorker
<1>7. ASSUME WriteFailed(d)
      PROVE  Ends \/ Silent
  <2>0. CASE DbFaults
    BY <1>7, <2>0 DEF WriteFailed, Unguarded
  <2>1. CASE ~DbFaults /\ Exists(d)
    <3>1. row' = [row EXCEPT ![d] = Update(row[d], "failed", "pipeline")]
      BY <1>7, <2>1 DEF WriteFailed, FailedRow
    <3> QED
      BY <3>1, PutUpdate DEF RowIs, Terminal, Errors
  <2>2. CASE ~DbFaults /\ ~Exists(d)
    BY <1>2, <1>7, <2>2 DEF WriteFailed, TypeOK
  <2> QED
    BY <2>0, <2>1, <2>2
<1> QED
  BY <1>5, <1>6, <1>7 DEF WorkerStep

LEMMA ExitsSpeak ==
  ASSUME IndInv, Next, NEW d \in Docs,
         task[d].stage \in Working, task'[d].stage \notin Working, home[d] \in up'
  PROVE  row'[d].status \in Terminal \cup {"absent"} \/ (DbFaults /\ Unguarded(d))
<1>1. TypeOK /\ Safe(d)
  BY IndInvIsSafe
<1>2. task[d].stage \notin {"none", "request"} /\ home[d] # NoProc
  BY <1>1 DEF Safe, DocumentInv, Working
<1>3. CASE \E c \in Docs : \/ InsertRow(c) \/ InsertFails(c) \/ NetRejectFile(c) \/ WorkerStep(c)
                           \/ \E p \in Procs : Request(p, c)
  <2>1. PICK c \in Docs : \/ InsertRow(c) \/ InsertFails(c) \/ NetRejectFile(c) \/ WorkerStep(c)
                          \/ \E p \in Procs : Request(p, c)
    BY <1>3
  <2>2. CASE c # d
    BY <2>1, <2>2, StepsMoveOne DEF Others
  <2>3. CASE c = d /\ ~WorkerStep(d)
    <3>1. \E p \in Procs : Request(p, d)
      BY <2>1, <2>3, <1>2 DEF InsertRow, InsertFails, NetRejectFile, At
    <3>2. UNCHANGED task
      BY <1>2, <3>1 DEF Request, SaveFile, PyDeleteFiles, PyDeleteRow, NetDeleteRow, NetDeleteFiles
    <3> QED
      BY <3>2
  <2>4. CASE WorkerStep(d)
    BY <1>1, <2>4, LastStep, ProcsAssumption
  <2> QED
    BY <2>2, <2>3, <2>4
<1>4. CASE \E p \in Procs : Crash(p)
  <2>1. PICK p \in Procs : Crash(p)
    BY <1>4
  <2>2. home[d] # p
    BY <2>1 DEF Crash
  <2> QED
    BY <2>1, <2>2 DEF Crash
<1>5. CASE \E p \in Procs : Start(p) \/ PyStartUnswept(p)
  BY <1>5 DEF Start, PyStartUnswept
<1>6. CASE Tick
  <2>1. task'[d] = [task[d] EXCEPT !.elapsed = ElapsedBy1(d)]
    BY <1>6 DEF Tick
  <2> QED
    BY <1>1, <2>1 DEF TypeOK, Tasks
<1> QED
  BY <1>3, <1>4, <1>5, <1>6 DEF Next

(* A worker whose process lives never ends without a word, unless one of   *)
(* the commits outside any try fails: by then its document is ready or     *)
(* failed, or was deleted under it (ingestion.py:102-129).                 *)
THEOREM NoWorkerVanishes == Spec => NoSilentExit
<1> DEFINE Spoken == \A d \in Docs :
                       task[d].stage \in Working /\ task'[d].stage \notin Working /\ home[d] \in up'
                         => \/ row'[d].status \in Terminal \cup {"absent"}
                            \/ DbFaults /\ Unguarded(d)
<1>1. IndInv /\ [Next]_vars => [Spoken]_vars
  BY ExitsSpeak DEF vars
<1>2. NoSilentExit <=> [][Spoken]_vars
  BY DEF NoSilentExit
<1> HIDE DEF Spoken
<1> QED
  BY <1>1, <1>2, InductiveInvariant, PTL DEF Spec

-----------------------------------------------------------------------------
(* The lifecycle of a document.                                            *)

(* A worker with work left was not overtaken by another failure than the   *)
(* sweep's, which waits until its token has expired.                       *)
NotOvertaken ==
  \A d \in Docs :
    task[d].stage \in Working /\ row[d].status = "failed" => row[d].error = "interrupted"

-----------------------------------------------------------------------------
(* From one document to all.                                               *)

LEMMA Elsewhere ==
  ASSUME NEW c \in Docs, Others(c)
  PROVE  \A d \in Docs \ {c} : Phase(d)' = Phase(d) /\ row'[d].indexed = row[d].indexed
BY DEF Others, Phase

LEMMA Phased ==
  ASSUME TypeOK, NEW d \in Docs
  PROVE  /\ Phase(d) \in {"new", "processing", "ready", "failed", "deleted"}
         /\ row[d].indexed \in BOOLEAN
BY DocumentTypes DEF Phase, Transient, Terminal

LEMMA NewPhase ==
  ASSUME NEW d \in Docs, task[d].stage \in {"none", "request", "refused"}
  PROVE  Phase(d) = "new"
BY DEF Phase

LEMMA Stays ==
  ASSUME \A d \in Docs : Phase(d)' = Phase(d) /\ row'[d].indexed = row[d].indexed
  PROVE  UNCHANGED Lifecycle!vars
BY DEF Lifecycle!vars

LEMMA Accepted ==
  ASSUME NEW c \in Docs, Others(c), Phase(c) = "new", Phase(c)' = "processing",
         row'[c].indexed = row[c].indexed
  PROVE  Lifecycle!Next
<1>1. Lifecycle!Accept(c)
  BY Elsewhere DEF Lifecycle!Accept, Lifecycle!Move
<1> QED
  BY <1>1 DEF Lifecycle!Next

LEMMA Completed ==
  ASSUME NEW c \in Docs, Others(c), Phase(c) = "processing", Phase(c)' = "ready",
         row'[c].indexed = TRUE
  PROVE  Lifecycle!Next
<1>1. Lifecycle!Complete(c)
  BY Elsewhere DEF Lifecycle!Complete, Lifecycle!Move
<1> QED
  BY <1>1 DEF Lifecycle!Next

LEMMA Deleted ==
  ASSUME NEW c \in Docs, Others(c), Phase(c) \in {"processing", "ready", "failed"},
         Phase(c)' = "deleted", row'[c].indexed = FALSE
  PROVE  Lifecycle!Next
<1>1. Lifecycle!Delete(c)
  BY Elsewhere DEF Lifecycle!Delete, Lifecycle!Move
<1> QED
  BY <1>1 DEF Lifecycle!Next

LEMMA AllFailed ==
  ASSUME NEW S \in SUBSET Docs,
         \A d \in Docs : row'[d].indexed = row[d].indexed,
         \A d \in S : Phase(d) = "processing" /\ Phase(d)' = "failed",
         \A d \in Docs \ S : Phase(d)' = Phase(d)
  PROVE  Lifecycle!Next
<1>1. Lifecycle!Fail(S)
  BY DEF Lifecycle!Fail
<1> QED
  BY <1>1 DEF Lifecycle!Next

-----------------------------------------------------------------------------
(* Action by action.                                                       *)

Promised == [Lifecycle!Next]_(Lifecycle!vars)

(* What NotOvertaken says of one document. *)
Unopposed(d) == task[d].stage \in Working /\ row[d].status = "failed" => row[d].error = "interrupted"

LEMMA Unmoved ==
  ASSUME NEW c \in Docs, Others(c), Phase(c)' = Phase(c), row'[c].indexed = row[c].indexed
  PROVE  Promised
BY Elsewhere, Stays DEF Promised

LEMMA WorkerPromised ==
  ASSUME FastApi = {}, ~DbFaults, IndInv, NEW c \in Docs, Unopposed(c), WorkerStep(c)
  PROVE  Promised /\ Unopposed(c)'
<1> USE DEF Stages, Working, Finished
<1>0. /\ TypeOK /\ Safe(c) /\ Others(c)
      /\ task[c].stage \in Working
      /\ home[c] \in DotNet
  <2>1. TypeOK /\ Safe(c)
    BY IndInvIsSafe
  <2>2. task[c].stage \in Working
    BY WorkersWork, Zenon
  <2>3. home[c] \in Procs
    BY <2>1, <2>2 DEF Safe, DocumentInv, TypeOK
  <2> QED
    BY <2>1, <2>2, <2>3, StepsMoveOne DEF Procs
<1>1. /\ ~row[c].indexed
      /\ Phase(c) \in {"processing", "failed", "deleted"}
      /\ Phase(c) = "deleted" <=> ~Exists(c)
      /\ Phase(c) = "failed" <=> row[c].status = "failed"
      /\ Phase(c) = "processing" <=> row[c].status \in Transient
  BY <1>0, DocumentTypes DEF Safe, DocumentInv, Phase, Exists, Transient, Terminal
<1>2. InTime(c) /\ Exists(c) => row[c].status \in Transient
  BY <1>0, <1>1, DocumentTypes DEF Safe, Unopposed, Exists, Terminal
<1>3. ASSUME UNCHANGED row, NEW s \in Working \cup {"done"}, Goto(c, s)
      PROVE  Promised /\ Unopposed(c)'
  <2>1. StageIs(c, s)
    BY <1>0, <1>3, PutStage
  <2>2. Phase(c)' = Phase(c)
    BY <1>0, <1>3, <2>1 DEF Phase, StageIs
  <2>3. Promised
    BY <1>0, <1>3, <2>2, Unmoved
  <2>4. Unopposed(c)'
    BY <1>0, <1>3, <2>1 DEF Unopposed, StageIs
  <2> QED
    BY <2>3, <2>4
<1>4. ASSUME NEW from, NEW s \in Transient, NEW to \in Working, NetSetStatus(c, from, s, to)
      PROVE  Promised /\ Unopposed(c)'
  <2>1. CASE ~Exists(c)
    BY <1>0, <1>3, <1>4, <2>1 DEF NetSetStatus, TypeOK
  <2>2. CASE Exists(c)
    <3>1. StageIs(c, to)
      BY <1>0, <1>4, PutStage DEF NetSetStatus
    <3>2. row' = [row EXCEPT ![c] = Update(row[c], s, row[c].error)]
      BY <1>4, <2>2 DEF NetSetStatus
    <3>3. RowIs(c, s, row[c].error, 0, row[c].review, row[c].enriched, row[c].indexed)
      BY <1>0, <3>2, PutUpdate, DocumentTypes
    <3>4. Phase(c) = "processing" /\ Phase(c)' = "processing"
      BY <1>1, <1>2, <1>4, <2>2, <3>1, <3>3 DEF NetSetStatus, Phase, RowIs, StageIs, Transient
    <3>5. Promised
      BY <1>0, <3>3, <3>4, Unmoved DEF RowIs
    <3>6. Unopposed(c)'
      BY <3>3 DEF Unopposed, RowIs, Transient
    <3> QED
      BY <3>5, <3>6
  <2> QED
    BY <2>1, <2>2
<1>5. ASSUME NEW n \in 0..2, NEW s \in Working, Goto(c, s), row' = [row EXCEPT ![c] = Enriched(row[c], n)]
      PROVE  Promised /\ Unopposed(c)'
  <2>1. StageIs(c, s)
    BY <1>0, <1>5, PutStage
  <2>2. RowIs(c, row[c].status, row[c].error, row[c].age, row[c].review, n, row[c].indexed)
    BY <1>0, <1>5, PutEnriched
  <2>3. Phase(c)' = Phase(c)
    BY <1>0, <2>1, <2>2 DEF Phase, StageIs, RowIs
  <2>4. Promised
    BY <1>0, <2>2, <2>3, Unmoved DEF RowIs
  <2>5. Unopposed(c)'
    BY <1>0, <2>1, <2>2 DEF Unopposed, StageIs, RowIs
  <2> QED
    BY <2>4, <2>5
<1>6. CASE NetLoad(c)
  BY <1>3, <1>6 DEF NetLoad
<1>7. CASE NetExtracting(c) \/ NetEnriching(c) \/ NetEmbedding(c)
  BY <1>4, <1>7 DEF NetExtracting, NetEnriching, NetEmbedding, Transient
<1>8. CASE NetExtract(c) \/ NetFail(c)
  BY <1>3, <1>8 DEF NetExtract, NetFail
<1>9. CASE NetSummary(c)
  BY <1>5, <1>9, 1 \in 0..2 DEF NetSummary
<1>10. CASE NetRows(c)
  BY <1>5, <1>10, 2 \in 0..2 DEF NetRows
<1>11. CASE NetPublish(c)
  <2> DEFINE r == Ready(Update(row[c], "ready", "none"), ReviewAtReady(c))
  <2>1. \/ UNCHANGED row /\ Goto(c, "failing")
        \/ Exists(c) /\ row' = [row EXCEPT ![c] = r] /\ Goto(c, "done")
    BY <1>11 DEF NetPublish, NetReady, Publish
  <2>2. CASE Exists(c) /\ row' = [row EXCEPT ![c] = r] /\ Goto(c, "done")
    <3>1. RowIs(c, "ready", "none", 0, ReviewAtReady(c), row[c].enriched, TRUE)
      BY <1>0, <2>2, PutReady DEF Errors
    <3>2. StageIs(c, "done")
      BY <1>0, <2>2, PutStage
    <3>3. Phase(c) = "processing" /\ Phase(c)' = "ready"
      BY <1>1, <1>2, <1>11, <2>2, <3>1, <3>2 DEF NetPublish, Phase, RowIs, StageIs, Transient
    <3>4. Promised
      BY <1>0, <3>1, <3>3, Completed DEF Promised, RowIs
    <3>5. Unopposed(c)'
      BY <3>2 DEF Unopposed, StageIs
    <3> QED
      BY <3>4, <3>5
  <2> HIDE DEF r
  <2> QED
    BY <1>3, <2>1, <2>2
<1>12. CASE WriteFailed(c)
  <2>0. Goto(c, "done")
    BY <1>12 DEF WriteFailed
  <2>1. StageIs(c, "done")
    BY <1>0, <2>0, PutStage
  <2>2. CASE Exists(c)
    <3>1. row' = [row EXCEPT ![c] = Update(row[c], "failed", "pipeline")]
      BY <1>12, <2>2 DEF WriteFailed, FailedRow
    <3>2. RowIs(c, "failed", "pipeline", 0, row[c].review, row[c].enriched, row[c].indexed)
      BY <1>0, <3>1, PutUpdate DEF Terminal, Errors
    <3>3. Phase(c)' = "failed"
      BY <2>1, <3>2 DEF Phase, RowIs, StageIs, Transient
    <3>4. ASSUME Phase(c) = "failed"
          PROVE  Promised
      BY <1>0, <3>2, <3>3, <3>4, Unmoved DEF RowIs
    <3>5. ASSUME Phase(c) = "processing"
          PROVE  Promised
      <4>1. \A d \in Docs : row'[d].indexed = row[d].indexed
        BY <3>2 DEF RowIs
      <4>2. \A d \in Docs \ {c} : Phase(d)' = Phase(d)
        BY <1>0, Elsewhere
      <4>3. Lifecycle!Next
        BY <3>3, <3>5, <4>1, <4>2, AllFailed, {c} \in SUBSET Docs
      <4> QED
        BY <4>3 DEF Promised
    <3>6. Unopposed(c)'
      BY <2>1 DEF Unopposed, StageIs
    <3> QED
      BY <1>1, <2>2, <3>4, <3>5, <3>6
  <2>3. CASE ~Exists(c)
    BY <1>0, <1>3, <1>12, <2>0, <2>3 DEF WriteFailed, TypeOK
  <2> QED
    BY <2>2, <2>3
<1>13. ~PyWorker(c)
  BY DEF PyWorker, PyLoad, PyExtracting, PyExtract, PyEnriching, PyEnrich, PyCaptions,
         PyEmbedding, PyPublish, PySetStatus, At
<1> QED
  BY <1>6, <1>7, <1>8, <1>9, <1>10, <1>11, <1>12, <1>13 DEF WorkerStep, NetWorker

LEMMA RequestPromised ==
  ASSUME FastApi = {}, ~DbFaults, IndInv, NEW c \in Docs, Unopposed(c),
         InsertRow(c) \/ InsertFails(c) \/ NetRejectFile(c) \/ \E p \in Procs : Request(p, c)
  PROVE  Promised /\ Unopposed(c)'
<1> USE DEF Stages, Working, Finished
<1>0. TypeOK /\ Safe(c) /\ Others(c)
  BY IndInvIsSafe, StepsMoveOne
<1>1. CASE InsertRow(c)
  <2>1. StageIs(c, "queued")
    BY <1>0, <1>1, PutStage DEF InsertRow
  <2>2. row'[c] = Queued /\ row[c] = Absent
    BY <1>0, <1>1 DEF InsertRow, TypeOK, Safe, DocumentInv
  <2>3. Phase(c) = "new" /\ Phase(c)' = "processing"
    <3>1. task[c].stage = "request" /\ task'[c].stage = "queued" /\ row'[c].status = "queued"
      BY <1>1, <2>1, <2>2, BlankRows DEF InsertRow, StageIs
    <3>2. Phase(c) = "new"
      BY <3>1, NewPhase
    <3>3. Phase(c)' = "processing"
      BY <3>1 DEF Phase, Transient
    <3> QED
      BY <3>2, <3>3
  <2>4. Promised
    BY <1>0, <2>2, <2>3, BlankRows, Accepted DEF Promised
  <2> QED
    BY <2>2, <2>4, BlankRows DEF Unopposed
<1>2. CASE NetRejectFile(c)
  <2>1. StageIs(c, "refused") /\ row' = row
    BY <1>0, <1>2, PutStage DEF NetRejectFile
  <2>2. Phase(c)' = Phase(c)
    BY <1>2, <2>1 DEF NetRejectFile, At, StageIs, Phase
  <2> QED
    BY <1>0, <2>1, <2>2, Unmoved DEF StageIs, Unopposed
<1>3. ASSUME NEW p \in Procs, NEW s \in {"personal", "library"}, SaveFile(p, c, s)
      PROVE  Promised /\ Unopposed(c)'
  <2>1. StageIs(c, "request") /\ row' = row
    BY <1>0, <1>3, PutStage DEF SaveFile
  <2>2. Phase(c)' = Phase(c)
    BY <1>0, <1>3, <2>1 DEF SaveFile, Safe, DocumentInv, StageIs, Phase
  <2> QED
    BY <1>0, <2>1, <2>2, Unmoved DEF StageIs, Unopposed
<1>4. ASSUME NEW p \in Procs, NetDeleteRow(p, c)
      PROVE  Promised /\ Unopposed(c)'
  <2>1. row'[c] = Absent /\ task' = task /\ Exists(c)
    BY <1>0, <1>4 DEF NetDeleteRow, DeleteRow, TypeOK
  <2>2. task[c].stage \notin {"none", "request", "refused"}
    BY <1>0, <2>1, BlankRows DEF Safe, DocumentInv, Exists
  <2>3. Phase(c) \in {"processing", "ready", "failed"} /\ Phase(c)' = "deleted"
    BY <1>0, <2>1, <2>2, BlankRows, DocumentTypes DEF Phase, Exists, Transient, Terminal
  <2>4. Promised
    BY <1>0, <2>1, <2>3, BlankRows, Deleted DEF Promised
  <2> QED
    BY <2>1, <2>4, BlankRows DEF Unopposed
<1>5. ASSUME NEW p \in Procs, NetDeleteFiles(p, c)
      PROVE  Promised /\ Unopposed(c)'
  <2>1. row' = row /\ task' = task
    BY <1>5 DEF NetDeleteFiles
  <2>2. Phase(c)' = Phase(c)
    BY <2>1 DEF Phase
  <2> QED
    BY <1>0, <2>1, <2>2, Unmoved DEF Unopposed
<1>6. ASSUME NEW p \in Procs
      PROVE  ~PyDeleteFiles(p, c) /\ ~PyDeleteRow(p, c) /\ ~InsertFails(c)
  BY DEF PyDeleteFiles, PyDeleteRow, InsertFails
<1>7. CASE \E p \in Procs : Request(p, c)
  <2>1. PICK p \in Procs : Request(p, c)
    BY <1>7
  <2> QED
    BY <1>3, <1>4, <1>5, <1>6, <2>1 DEF Request
<1> QED
  BY <1>1, <1>2, <1>6, <1>7 DEF InsertFails

-----------------------------------------------------------------------------
(* Steps that move many documents at once.                                 *)

LEMMA SweepPromised ==
  ASSUME FastApi = {}, ~DbFaults, IndInv, NotOvertaken, NEW p \in Procs, Start(p)
  PROVE  Promised /\ NotOvertaken'
<1>0. TypeOK /\ \A d \in Docs : Safe(d)
  BY IndInvIsSafe
<1> DEFINE S == {d \in Docs : Sweepable(row[d])}
<1>1. ASSUME NEW d \in S
      PROVE  /\ row'[d].status = "failed" /\ row'[d].error = "interrupted"
             /\ row'[d].indexed = row[d].indexed
             /\ Phase(d) = "processing" /\ Phase(d)' = "failed"
  <2>1. row[d] \in Rows /\ row[d].status \in Transient /\ Safe(d)
    BY <1>0, DocumentTypes DEF Sweepable
  <2>2. row'[d] = Update(row[d], "failed", "interrupted") /\ task' = task
    BY DEF Start, Swept, FailedRow
  <2>3. /\ row'[d].status = "failed" /\ row'[d].error = "interrupted"
        /\ row'[d].indexed = row[d].indexed
    <3>1. "failed" \in Transient \cup Terminal /\ "interrupted" \in Errors
      BY DEF Terminal, Errors
    <3> QED
      BY <2>1, <2>2, <3>1, UpdateRow
  <2>4. task[d].stage \notin {"none", "request", "refused"}
    BY <2>1, BlankRows DEF Safe, DocumentInv, Transient
  <2> QED
    BY <2>1, <2>2, <2>3, <2>4 DEF Phase, Transient
<1>2. ASSUME NEW d \in Docs \ S
      PROVE  row'[d] = row[d] /\ Phase(d)' = Phase(d)
  <2>1. row'[d] = row[d] /\ task' = task
    BY DEF Start, Swept
  <2> QED
    BY <2>1 DEF Phase
<1> HIDE DEF S
<1>3. S \in SUBSET Docs
  BY DEF S
<1>4. Lifecycle!Next
  BY <1>1, <1>2, <1>3, AllFailed
<1>5. NotOvertaken'
  <2> SUFFICES ASSUME NEW d \in Docs PROVE Unopposed(d)'
    BY DEF NotOvertaken, Unopposed
  <2> QED
    BY <1>1, <1>2 DEF NotOvertaken, Unopposed, Start
<1> QED
  BY <1>4, <1>5 DEF Promised

LEMMA CrashPromised ==
  ASSUME IndInv, NotOvertaken, NEW p \in Procs, Crash(p)
  PROVE  Promised /\ NotOvertaken'
<1> USE DEF Stages, Working, Finished
<1>1. ASSUME NEW d \in Docs
      PROVE  \/ task'[d].stage = task[d].stage
             \/ task[d].stage = "request" /\ task'[d].stage = "refused"
             \/ task[d].stage \in Working /\ task'[d].stage = "done"
  <2>1. task[d] \in Tasks
    BY DocumentTypes DEF IndInv
  <2>2. CASE home[d] # p
    BY <2>2 DEF Crash
  <2>3. CASE home[d] = p
    <3> DEFINE s == CASE task[d].stage = "request" -> "refused"
                      [] task[d].stage \in Working -> "done"
                      [] OTHER -> task[d].stage
    <3>1. task'[d] = [task[d] EXCEPT !.stage = s]
      BY <2>3 DEF Crash
    <3>2. \/ s = task[d].stage
          \/ task[d].stage = "request" /\ s = "refused"
          \/ task[d].stage \in Working /\ s = "done"
      OBVIOUS
    <3> HIDE DEF s
    <3>3. task'[d].stage = s
      BY <2>1, <3>1 DEF Tasks
    <3> QED
      BY <3>2, <3>3
  <2> QED
    BY <2>2, <2>3
<1>2. ASSUME NEW d \in Docs
      PROVE  Phase(d)' = Phase(d) /\ row'[d].indexed = row[d].indexed
  BY <1>1 DEF Crash, Phase
<1> QED
  BY <1>1, <1>2, Stays DEF Crash, NotOvertaken, Promised

LEMMA TickPromised ==
  ASSUME IndInv, NotOvertaken, Tick
  PROVE  Promised /\ NotOvertaken'
<1>1. ASSUME NEW d \in Docs
      PROVE  /\ row'[d].status = row[d].status /\ row'[d].error = row[d].error
             /\ row'[d].indexed = row[d].indexed
             /\ task'[d].stage = task[d].stage
  <2>1. row[d] \in Rows /\ task[d] \in Tasks
    BY DocumentTypes DEF IndInv
  <2>2. /\ row'[d] = [row[d] EXCEPT !.age = AgedBy1(d)]
        /\ task'[d] = [task[d] EXCEPT !.elapsed = ElapsedBy1(d)]
    BY DEF Tick
  <2> QED
    BY <2>1, <2>2 DEF Rows, Tasks
<1>2. ASSUME NEW d \in Docs
      PROVE  Phase(d)' = Phase(d) /\ row'[d].indexed = row[d].indexed
  BY <1>1 DEF Phase
<1> QED
  BY <1>1, <1>2, Stays DEF NotOvertaken, Promised

-----------------------------------------------------------------------------
LEMMA StepPromised ==
  ASSUME FastApi = {}, ~DbFaults, IndInv, NotOvertaken, [Next]_vars
  PROVE  Promised /\ NotOvertaken'
<1>1. ASSUME NEW c \in Docs, Others(c), Unopposed(c)'
      PROVE  NotOvertaken'
  BY <1>1 DEF NotOvertaken, Unopposed, Others
<1>2. ASSUME NEW c \in Docs,
             \/ InsertRow(c) \/ InsertFails(c) \/ NetRejectFile(c) \/ WorkerStep(c)
             \/ \E p \in Procs : Request(p, c)
      PROVE  Promised /\ NotOvertaken'
  <2>1. Unopposed(c) /\ Others(c)
    BY <1>2, StepsMoveOne DEF NotOvertaken, Unopposed
  <2>2. Promised /\ Unopposed(c)'
    BY <1>2, <2>1, WorkerPromised, RequestPromised
  <2> QED
    BY <1>1, <2>1, <2>2
<1>3. CASE UNCHANGED vars
  <2>1. \A d \in Docs : Phase(d)' = Phase(d) /\ row'[d].indexed = row[d].indexed
    BY <1>3 DEF vars, Phase
  <2> QED
    BY <1>3, <2>1, Stays DEF vars, NotOvertaken, Promised
<1>4. ASSUME NEW p \in Procs PROVE ~PyStartUnswept(p)
  BY DEF PyStartUnswept
<1> QED
  BY <1>2, <1>3, <1>4, CrashPromised, SweepPromised, TickPromised DEF Next

LEMMA InitPromised == Init => Lifecycle!Init /\ NotOvertaken
<1> SUFFICES ASSUME Init PROVE Lifecycle!Init /\ NotOvertaken
  OBVIOUS
<1>1. ASSUME NEW d \in Docs
      PROVE  Phase(d) = "new" /\ ~row[d].indexed /\ task[d].stage = "none"
  <2>1. row[d] = Absent /\ task[d] = [stage |-> "none", seen |-> "none", elapsed |-> 0]
    BY DEF Init
  <2>2. ~row[d].indexed /\ task[d].stage = "none"
    BY <2>1, BlankRows
  <2>3. Phase(d) = "new"
    BY <2>2, NewPhase
  <2> QED
    BY <2>2, <2>3
<1> QED
  BY <1>1 DEF Lifecycle!Init, NotOvertaken, Working

(* Any number of .NET processes, with their restarts, sweeps and deletions,*)
(* keep what the pipeline promises of a document: it is processed once,    *)
(* ends once, and is answerable from then until it is deleted.  A sweep in *)
(* one process never overtakes a worker of another, because the worker's   *)
(* timeout is no longer than the sweep's window.                           *)
THEOREM LifecycleKept == FastApi = {} /\ ~DbFaults => (Spec => KeepsLifecycle)
<1> SUFFICES ASSUME FastApi = {}, ~DbFaults PROVE Spec => KeepsLifecycle
  OBVIOUS
<1>1. IndInv /\ NotOvertaken /\ [Next]_vars => NotOvertaken'
  BY StepPromised
<1>2. IndInv /\ NotOvertaken /\ [Next]_vars => [Lifecycle!Next]_(Lifecycle!vars)
  BY StepPromised DEF Promised
<1> QED
  BY <1>1, <1>2, InitPromised, InductiveInvariant, PTL DEF Spec, KeepsLifecycle, Lifecycle!Spec

-----------------------------------------------------------------------------
(* The upload directory.                                                   *)

(* A document whose files a request is about to remove has no row, and     *)
(* will not have one again.                                                *)
Removable(d) == ~Exists(d) /\ home[d] # NoProc /\ task[d].stage # "request"

FilesInv ==
  /\ RowHasFile
  /\ \A d \in Docs : task[d].stage = "request" => file[d]
  /\ \A p \in Procs : \A d \in halfway[p] : Removable(d)

(* Steps after which no document has a row, or is about to, that had none. *)
NothingAppears ==
  \A d \in Docs :
    /\ Exists(d)' => Exists(d)
    /\ task'[d].stage = "request" => task[d].stage = "request"
    /\ home[d] # NoProc => home'[d] # NoProc

LEMMA FilesStay ==
  ASSUME TypeOK, FilesInv, NothingAppears, UNCHANGED file,
         \A p \in Procs : halfway'[p] \subseteq halfway[p]
  PROVE  FilesInv'
<1>1. RowHasFile' /\ \A d \in Docs : task'[d].stage = "request" => file'[d]
  BY DEF FilesInv, RowHasFile, NothingAppears
<1>2. ASSUME NEW p \in Procs, NEW d \in halfway'[p] PROVE Removable(d)'
  <2>1. d \in halfway[p] /\ d \in Docs
    BY <1>2 DEF TypeOK
  <2> QED
    BY <2>1 DEF FilesInv, Removable, NothingAppears
<1> QED
  BY <1>1, <1>2 DEF FilesInv

-----------------------------------------------------------------------------
(* A worker changes the row it finds, or none. *)
LEMMA WorkerAddsNoRow ==
  ASSUME FastApi = {}, TypeOK, NEW d \in Docs, WorkerStep(d)
  PROVE  /\ Worker(d)
         /\ \E s \in Stages \ {"request"} : StageIs(d, s)
         /\ \A c \in Docs : Exists(c) \/ row'[c] = row[c]
<1> USE DEF Stages, Working, Finished
<1>1. CASE WriteFailed(d)
  <2>1. StageIs(d, "done")
    BY <1>1, PutStage DEF WriteFailed
  <2>2. \A c \in Docs : Exists(c) \/ row'[c] = row[c]
    BY <1>1 DEF WriteFailed, TypeOK
  <2> QED
    BY <1>1, <2>1, <2>2 DEF WriteFailed
<1>2. CASE NetLoad(d)
  <2>1. StageIs(d, "loaded") \/ StageIs(d, "done")
    BY <1>2, PutStage DEF NetLoad
  <2> QED
    BY <1>2, <2>1 DEF NetLoad
<1>3. ASSUME NEW from, NEW s, NEW to \in {"extract", "enrich", "embed"}, NetSetStatus(d, from, s, to)
      PROVE  /\ Worker(d)
             /\ \E t \in Stages \ {"request"} : StageIs(d, t)
             /\ \A c \in Docs : Exists(c) \/ row'[c] = row[c]
  <2>1. StageIs(d, to)
    BY <1>3, PutStage DEF NetSetStatus
  <2>2. \A c \in Docs : Exists(c) \/ row'[c] = row[c]
    BY <1>3 DEF NetSetStatus, TypeOK
  <2> QED
    BY <1>3, <2>1, <2>2 DEF NetSetStatus
<1>4. CASE NetExtract(d) \/ NetFail(d)
  <2>1. StageIs(d, "extracted") \/ StageIs(d, "failing")
    BY <1>4, PutStage DEF NetExtract, NetFail
  <2> QED
    BY <1>4, <2>1 DEF NetExtract, NetFail
<1>5. CASE NetSummary(d) \/ NetRows(d)
  <2>1. StageIs(d, "rows") \/ StageIs(d, "index")
    BY <1>5, PutStage DEF NetSummary, NetRows
  <2>2. \A c \in Docs : Exists(c) \/ row'[c] = row[c]
    BY <1>5 DEF NetSummary, NetRows, TypeOK
  <2> QED
    BY <1>5, <2>1, <2>2 DEF NetSummary, NetRows
<1>6. CASE NetPublish(d)
  <2>1. StageIs(d, "done") \/ StageIs(d, "failing")
    BY <1>6, PutStage DEF NetPublish, Publish
  <2>2. \A c \in Docs : Exists(c) \/ row'[c] = row[c]
    BY <1>6 DEF NetPublish, Publish, TypeOK
  <2> QED
    BY <1>6, <2>1, <2>2 DEF NetPublish
<1>7. ~PyWorker(d)
  BY DEF PyWorker, PyLoad, PyExtracting, PyExtract, PyEnriching, PyEnrich, PyCaptions, PyEmbedding,
         PyPublish, PySetStatus, At
<1> QED
  BY <1>1, <1>2, <1>3, <1>4, <1>5, <1>6, <1>7
     DEF WorkerStep, NetWorker, NetExtracting, NetEnriching, NetEmbedding

LEMMA WorkerKeepsFiles ==
  ASSUME FastApi = {}, TypeOK, FilesInv, NEW d \in Docs, WorkerStep(d)
  PROVE  FilesInv'
<1>1. /\ Worker(d)
      /\ \A c \in Docs : Exists(c) \/ row'[c] = row[c]
  BY WorkerAddsNoRow
<1>2. PICK s \in Stages \ {"request"} : StageIs(d, s)
  BY WorkerAddsNoRow
<1>3. NothingAppears
  BY <1>1, <1>2 DEF NothingAppears, StageIs, Exists, Worker
<1> QED
  BY <1>1, <1>3, FilesStay DEF Worker

(* The upload handler: the file comes first, and a row is inserted only    *)
(* for a document that has never had one.                                  *)
LEMMA UploadKeepsFiles ==
  ASSUME TypeOK, FilesInv, NEW d \in Docs, DocumentInv(d),
         InsertRow(d) \/ InsertFails(d) \/ NetRejectFile(d)
  PROVE  FilesInv'
<1> USE DEF Stages, Working, Finished
<1>1. task[d].stage = "request" /\ file[d] /\ row[d] = Absent
      /\ \A p \in Procs : d \notin halfway[p]
  BY DEF InsertRow, InsertFails, NetRejectFile, At, FilesInv, Removable, DocumentInv
<1>2. CASE InsertRow(d)
  <2>1. StageIs(d, "queued") /\ \A c \in Docs \ {d} : row'[c] = row[c]
    BY <1>2, PutStage DEF InsertRow, TypeOK
  <2> QED
    BY <1>1, <1>2, <2>1 DEF FilesInv, RowHasFile, Removable, StageIs, Exists, InsertRow, TypeOK
<1>3. CASE InsertFails(d)
  <2>1. StageIs(d, "refused")
    BY <1>3, PutStage DEF InsertFails
  <2>2. NothingAppears
    BY <1>3, <2>1 DEF NothingAppears, StageIs, Exists, InsertFails
  <2> QED
    BY <1>3, <2>2, FilesStay DEF InsertFails
<1>4. CASE NetRejectFile(d)
  <2>1. StageIs(d, "refused") /\ \A c \in Docs \ {d} : file'[c] = file[c]
    BY <1>4, PutStage DEF NetRejectFile, TypeOK
  <2>2. ~Exists(d)
    BY <1>1 DEF Exists, Absent
  <2> QED
    BY <1>1, <1>4, <2>1, <2>2
       DEF FilesInv, RowHasFile, Removable, StageIs, Exists, NetRejectFile, TypeOK
<1> QED
  BY <1>2, <1>3, <1>4

LEMMA RequestKeepsFiles ==
  ASSUME FastApi = {}, TypeOK, FilesInv, NEW d \in Docs, DocumentInv(d), NEW p \in Procs,
         Request(p, d)
  PROVE  FilesInv'
<1>1. ASSUME NEW s, SaveFile(p, d, s) PROVE FilesInv'
  <2>1. StageIs(d, "request")
    BY <1>1, PutStage DEF SaveFile, Stages
  <2>2. /\ file'[d] /\ \A c \in Docs \ {d} : file'[c] = file[c] /\ home'[c] = home[c]
        /\ UNCHANGED <<row, halfway>>
    BY <1>1 DEF SaveFile, TypeOK
  <2>3. \A q \in Procs : d \notin halfway[q]
    BY <1>1 DEF SaveFile, FilesInv, Removable
  <2> QED
    BY <2>1, <2>2, <2>3 DEF FilesInv, RowHasFile, Removable, StageIs, Exists, TypeOK
<1>2. CASE NetDeleteRow(p, d)
  <2>1. /\ row'[d] = Absent /\ \A c \in Docs \ {d} : row'[c] = row[c]
        /\ halfway'[p] = halfway[p] \cup {d} /\ \A q \in Procs \ {p} : halfway'[q] = halfway[q]
        /\ UNCHANGED <<task, file, home>>
    BY <1>2 DEF NetDeleteRow, DeleteRow, TypeOK
  <2>2. ~Exists(d)' /\ home[d] # NoProc /\ task[d].stage # "request"
    BY <1>2, <2>1 DEF NetDeleteRow, DocumentInv, Exists, Absent
  <2>3. \A c \in Docs : Exists(c)' => Exists(c)
    BY <2>1, <2>2 DEF Exists
  <2>4. \A q \in Procs : halfway'[q] \subseteq halfway[q] \cup {d}
    BY <2>1
  <2>5. ASSUME NEW q \in Procs, NEW c \in halfway'[q] PROVE Removable(c)'
    <3>1. c = d \/ (c \in halfway[q] /\ c \in Docs)
      BY <2>4, <2>5 DEF TypeOK
    <3> QED
      BY <2>1, <2>2, <2>3, <3>1 DEF FilesInv, Removable
  <2> QED
    BY <2>1, <2>3, <2>5 DEF FilesInv, RowHasFile
<1>3. CASE NetDeleteFiles(p, d)
  <2>1. /\ \A c \in Docs \ {d} : file'[c] = file[c]
        /\ \A q \in Procs : halfway'[q] \subseteq halfway[q]
        /\ UNCHANGED <<row, task, home>>
    BY <1>3 DEF NetDeleteFiles, TypeOK
  <2>2. Removable(d)
    BY <1>3 DEF NetDeleteFiles, FilesInv
  <2> QED
    BY <2>1, <2>2 DEF FilesInv, RowHasFile, Removable, Exists, TypeOK
<1>4. ~PyDeleteFiles(p, d) /\ ~PyDeleteRow(p, d)
  BY DEF PyDeleteFiles, PyDeleteRow
<1> QED
  BY <1>1, <1>2, <1>3, <1>4 DEF Request

(* Crashes, sweeps and the clock touch no file and insert no row. *)
LEMMA OthersKeepFiles ==
  ASSUME TypeOK, FilesInv,
         Tick \/ \E p \in Procs : Crash(p) \/ Start(p) \/ PyStartUnswept(p)
  PROVE  FilesInv'
<1>1. CASE Tick
  <2>1. \A d \in Docs : row'[d].status = row[d].status /\ task'[d].stage = task[d].stage
    BY <1>1 DEF Tick, TypeOK, Rows, Tasks
  <2> QED
    BY <1>1, <2>1, FilesStay DEF Tick, NothingAppears, Exists
<1>2. ASSUME NEW p \in Procs, Crash(p) PROVE FilesInv'
  <2>1. \A d \in Docs : task'[d].stage = "request" => task[d].stage = "request"
    BY <1>2 DEF Crash, TypeOK, Tasks, Working
  <2>2. \A q \in Procs : halfway'[q] \subseteq halfway[q]
    BY <1>2 DEF Crash, TypeOK
  <2> QED
    BY <1>2, <2>1, <2>2, FilesStay DEF Crash, NothingAppears, Exists
<1>3. ASSUME NEW p \in Procs, Start(p) PROVE FilesInv'
  <2>1. \A d \in Docs : Exists(d)' => Exists(d)
    BY <1>3 DEF Start, Swept, Sweepable, Exists, Transient
  <2> QED
    BY <1>3, <2>1, FilesStay DEF Start, NothingAppears
<1>4. ASSUME NEW p \in Procs, PyStartUnswept(p) PROVE FilesInv'
  BY <1>4, FilesStay DEF PyStartUnswept, NothingAppears, Exists
<1> QED
  BY <1>1, <1>2, <1>3, <1>4

(* Where .NET alone serves, a row that exists has its file, whatever       *)
(* crashes, refused uploads and failing deletions come between: a reader   *)
(* or a retry never finds a document without its file.                     *)
THEOREM FilesOutliveRows == FastApi = {} => (Spec => []RowHasFile)
<1> SUFFICES ASSUME FastApi = {} PROVE Spec => []RowHasFile
  OBVIOUS
<1>1. Init => FilesInv
  BY DEF Init, FilesInv, RowHasFile, Exists, Absent
<1>2. IndInv /\ FilesInv /\ [Next]_vars => FilesInv'
  <2> SUFFICES ASSUME IndInv, FilesInv, [Next]_vars PROVE FilesInv'
    OBVIOUS
  <2>1. TypeOK /\ \A d \in Docs : DocumentInv(d)
    BY DEF IndInv
  <2>2. CASE UNCHANGED vars
    BY <2>1, <2>2, FilesStay DEF vars, NothingAppears, Exists
  <2>3. ASSUME NEW d \in Docs,
               InsertRow(d) \/ InsertFails(d) \/ NetRejectFile(d) \/ WorkerStep(d)
                 \/ \E p \in Procs : Request(p, d)
        PROVE  FilesInv'
    BY <2>1, <2>3, UploadKeepsFiles, WorkerKeepsFiles, RequestKeepsFiles
  <2> QED
    BY <2>1, <2>2, <2>3, OthersKeepFiles DEF Next
<1>3. FilesInv => RowHasFile
  BY DEF FilesInv
<1> QED
  BY <1>1, <1>2, <1>3, InductiveInvariant, PTL DEF Spec
=============================================================================
