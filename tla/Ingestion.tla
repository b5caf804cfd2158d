------------------------------ MODULE Ingestion ------------------------------
(***************************************************************************)
(* The life of an uploaded document across the two backends of DocSage,    *)
(* which share one Postgres database and one upload directory:             *)
(*   - the FastAPI process: upload and delete handlers (routers/           *)
(*     documents.py), the background task run_ingestion (services/         *)
(*     ingestion.py) and the startup sweep (services/recovery.py);         *)
(*   - the ASP.NET process: DocumentEndpoints.cs, IngestionPipeline.cs     *)
(*     and RecoveryService.cs.                                             *)
(* A step is one committed database statement, one change of the upload    *)
(* directory, or one move of a worker between them.  Processes crash and   *)
(* restart at any point; time passes in units of the sweep's window.       *)
(***************************************************************************)
EXTENDS Integers

CONSTANTS
  Docs,      \* document ids; each is given out once (uuid4 / Guid.NewGuid)
  FastApi,   \* processes running the Python backend
  DotNet,    \* processes running the .NET backend
  NoProc,    \* the home of a document that was never uploaded
  Stale,     \* STALE_TRANSIENT_AFTER, in clock units
  Timeout,   \* the .NET pipeline's CancellationTokenSource delay
  DbFaults   \* TRUE: a commit may fail, or succeed with its reply lost

Procs == FastApi \cup DotNet

ASSUME ProcsAssumption ==
  /\ FastApi \cap DotNet = {}
  /\ NoProc \notin Procs

(* 10 minutes against 15 in the code. *)
ASSUME TimeAssumption ==
  /\ Stale \in Nat
  /\ Timeout \in Nat
  /\ Timeout <= Stale

ASSUME FaultAssumption == DbFaults \in BOOLEAN

Transient == {"queued", "extracting", "enriching", "embedding"}
Terminal  == {"ready", "failed"}
Errors    == {"none", "interrupted", "pipeline"}

(* The stages of a worker; "request" is the upload handler between saving  *)
(* the file and inserting the row, "failing" the handler of an exception   *)
(* that has still to write status 'failed'.                                *)
Working  == {"queued", "loaded", "extract", "extracted", "enrich", "rows",
             "captions", "index", "embed", "failing"}
Finished == {"none", "refused", "done"}
Stages   == Working \cup Finished \cup {"request"}

VARIABLES
  row,      \* the documents table, with what hangs from each row
  task,     \* the worker of each document
  file,     \* is the document's upload directory there?
  home,     \* the process that took the upload
  scope,    \* 'personal' or 'library', fixed at upload
  up,       \* the processes that are running
  halfway   \* delete requests of each process between their two steps

vars == <<row, task, file, home, scope, up, halfway>>

(* A row carries status, status_error, review_status, the time since       *)
(* updated_at (capped one above Stale), how many of its enrichment kinds   *)
(* are stored (0 none, 1 the summary, 2 all) and whether its chunks are.   *)
Absent == [status |-> "absent", error |-> "none", review |-> "not_required",
           age |-> 0, enriched |-> 0, indexed |-> FALSE]
Queued == [Absent EXCEPT !.status = "queued"]

Exists(d) == row[d].status # "absent"

(* UPDATE documents SET status, status_error; updated_at moves along. *)
Update(r, s, e) == [r EXCEPT !.status = s, !.error = e, !.age = 0]

Enriched(r, n) == [r EXCEPT !.enriched = n]

Init ==
  /\ row     = [d \in Docs |-> Absent]
  /\ task    = [d \in Docs |-> [stage |-> "none", seen |-> "none", elapsed |-> 0]]
  /\ file    = [d \in Docs |-> FALSE]
  /\ home    = [d \in Docs |-> NoProc]
  /\ scope   = [d \in Docs |-> "personal"]
  /\ up      = {}
  /\ halfway = [p \in Procs |-> {}]

At(d, s, kind) == task[d].stage = s /\ home[d] \in kind
Goto(d, s)     == task' = [task EXCEPT ![d].stage = s]

-----------------------------------------------------------------------------
(* Upload: the file is on disk before the row is committed, and the worker *)
(* is only known to the memory of the process that took the upload.        *)

SaveFile(p, d, s) ==
  /\ p \in up
  /\ home[d] = NoProc
  /\ file'  = [file EXCEPT ![d] = TRUE]
  /\ home'  = [home EXCEPT ![d] = p]
  /\ scope' = [scope EXCEPT ![d] = s]
  /\ Goto(d, "request")
  /\ UNCHANGED <<row, up, halfway>>

InsertRow(d) ==
  /\ task[d].stage = "request"
  /\ row' = [row EXCEPT ![d] = Queued]
  /\ Goto(d, "queued")
  /\ UNCHANGED <<file, home, scope, up, halfway>>

(* The INSERT fails; nothing removes the file. *)
InsertFails(d) ==
  /\ DbFaults
  /\ task[d].stage = "request"
  /\ Goto(d, "refused")
  /\ UNCHANGED <<row, file, home, scope, up, halfway>>

(* .NET checks the magic bytes of the stored file and removes it again. *)
NetRejectFile(d) ==
  /\ At(d, "request", DotNet)
  /\ file' = [file EXCEPT ![d] = FALSE]
  /\ Goto(d, "refused")
  /\ UNCHANGED <<row, home, scope, up, halfway>>

-----------------------------------------------------------------------------
(* Delete.  FastAPI removes the directory and then the row, .NET the row   *)
(* and then the directory; the row's chunks and enrichments go with it     *)
(* (ON DELETE CASCADE).  Any process may serve the request.                *)

DeleteRow(d) == row' = [row EXCEPT ![d] = Absent]

PyDeleteFiles(p, d) ==
  /\ p \in up \cap FastApi
  /\ Exists(d)
  /\ file'    = [file EXCEPT ![d] = FALSE]
  /\ halfway' = [halfway EXCEPT ![p] = @ \cup {d}]
  /\ UNCHANGED <<row, task, home, scope, up>>

PyDeleteRow(p, d) ==
  /\ p \in FastApi /\ d \in halfway[p]
  /\ DeleteRow(d)
  /\ halfway' = [halfway EXCEPT ![p] = @ \ {d}]
  /\ UNCHANGED <<task, file, home, scope, up>>

(* Variant for a mutation run: .NET in FastAPI's order. *)
NetDeleteRow_FilesFirst(p, d) ==
  /\ p \in up \cap DotNet
  /\ Exists(d)
  /\ file'    = [file EXCEPT ![d] = FALSE]
  /\ halfway' = [halfway EXCEPT ![p] = @ \cup {d}]
  /\ UNCHANGED <<row, task, home, scope, up>>

NetDeleteRow(p, d) ==
  /\ p \in up \cap DotNet
  /\ Exists(d)
  /\ DeleteRow(d)
  /\ halfway' = [halfway EXCEPT ![p] = @ \cup {d}]
  /\ UNCHANGED <<task, file, home, scope, up>>

(* Best effort: an IOException is swallowed and the directory stays. *)
NetDeleteFiles(p, d) ==
  /\ p \in DotNet /\ d \in halfway[p]
  /\ file' \in {file, [file EXCEPT ![d] = FALSE]}
  /\ halfway' = [halfway EXCEPT ![p] = @ \ {d}]
  /\ UNCHANGED <<row, task, home, scope, up>>

-----------------------------------------------------------------------------
(* The FastAPI worker, run_ingestion.  Its ORM session keeps the document  *)
(* as it loaded it (expire_on_commit is off) and writes only attributes    *)
(* that differ from that copy; status always differs, status_error is in   *)
(* task.seen.  An UPDATE that matches no row raises StaleDataError.        *)

Worker(d) == UNCHANGED <<file, home, scope, up, halfway>>

PyStatus(d, s) == Update(row[d], s, IF task[d].seen = "none" THEN row[d].error ELSE "none")

(* db.get: None ends the task. *)
PyLoad(d) ==
  /\ At(d, "queued", FastApi)
  /\ task' = [task EXCEPT ![d].stage = IF Exists(d) THEN "loaded" ELSE "done",
                          ![d].seen  = row[d].error]
  /\ UNCHANGED row
  /\ Worker(d)

(* _set_status outside any try: an error escapes and ends the task. *)
PySetStatus(d, from, s, to) ==
  /\ At(d, from, FastApi)
  /\ \/ /\ Exists(d)
        /\ row'  = [row EXCEPT ![d] = PyStatus(d, s)]
        /\ task' = [task EXCEPT ![d].stage = to, ![d].seen = "none"]
     \/ /\ ~Exists(d) \/ DbFaults
        /\ UNCHANGED row
        /\ Goto(d, "done")
  /\ Worker(d)

PyExtracting(d) == PySetStatus(d, "loaded", "extracting", "extract")
PyEnriching(d)  == PySetStatus(d, "extracted", "enriching", "enrich")
PyEmbedding(d)  == PySetStatus(d, "index", "embedding", "embed")

(* extract() reads the stored file; anything wrong with it fails the task. *)
PyExtract(d) ==
  /\ At(d, "extract", FastApi)
  /\ \/ file[d] /\ Goto(d, "extracted")
     \/ Goto(d, "failing")
  /\ UNCHANGED row
  /\ Worker(d)

(* Variant: the except branch returns without recording the failure. *)
PyEnrich_Silent(d) ==
  /\ At(d, "enrich", FastApi)
  /\ \/ /\ Exists(d)
        /\ row' = [row EXCEPT ![d] = Enriched(@, 2)]
        /\ Goto(d, "captions")
     \/ /\ UNCHANGED row
        /\ Goto(d, "done")
  /\ Worker(d)

(* Summary, keywords and questions in one commit.  A missing document is   *)
(* a foreign key violation.                                                *)
PyEnrich(d) ==
  /\ At(d, "enrich", FastApi)
  /\ \/ /\ Exists(d)
        /\ row' = [row EXCEPT ![d] = Enriched(@, 2)]
        /\ Goto(d, "captions")
     \/ /\ UNCHANGED row
        /\ Goto(d, "failing")
  /\ Worker(d)

(* Caption rows, committed outside any try; most documents have none. *)
PyCaptions(d) ==
  /\ At(d, "captions", FastApi)
  /\ \/ Goto(d, "index")
     \/ (~Exists(d) \/ DbFaults) /\ Goto(d, "done")
  /\ UNCHANGED row
  /\ Worker(d)

(* Variant: the review gate is forgotten. *)
ReviewAtReady_Ungated(d) == row[d].review

ReviewAtReady(d) == IF scope[d] = "library" THEN "pending_sme" ELSE row[d].review

Ready(r, review) == [r EXCEPT !.indexed = TRUE, !.review = review]

PyReady(d) == Ready(PyStatus(d, "ready"), ReviewAtReady(d))

(* Variant: chunks are inserted outside the transaction. *)
Publish_NoTransaction(d, published) ==
  \/ /\ Exists(d)
     /\ row' = [row EXCEPT ![d] = published]
     /\ Goto(d, "done")
  \/ /\ row' = [row EXCEPT ![d].indexed = Exists(d)]
     /\ Goto(d, "failing")

(* Chunks, counts, review status and 'ready' in one commit.  A provider    *)
(* error, a missing document or a failed commit rolls all of it back; a    *)
(* lost reply keeps it, and the worker believes it was rolled back.        *)
Publish(d, published) ==
  \/ /\ Exists(d)
     /\ row' = [row EXCEPT ![d] = published]
     /\ \/ Goto(d, "done")
        \/ DbFaults /\ Goto(d, "failing")
  \/ /\ UNCHANGED row
     /\ Goto(d, "failing")

PyPublish(d) ==
  /\ At(d, "embed", FastApi)
  /\ Publish(d, PyReady(d))
  /\ Worker(d)

FailedRow(r, e) == Update(r, "failed", e)

(* Both backends: the exception handler writes 'failed' and the reason,    *)
(* whatever the row says by now, and the worker ends.                      *)
WriteFailed(d) ==
  /\ task[d].stage = "failing"
  /\ \/ /\ row' = [row EXCEPT ![d] = IF Exists(d) THEN FailedRow(@, "pipeline") ELSE @]
        /\ Goto(d, "done")
     \/ /\ DbFaults
        /\ UNCHANGED row
        /\ Goto(d, "done")
  /\ Worker(d)

-----------------------------------------------------------------------------
(* The .NET worker, RunAsync.  Statements given the cancellation token     *)
(* throw once the timeout has passed; the enrichment INSERTs are not given *)
(* it.  An UPDATE of a missing row is no error here.  The clock of the     *)
(* token source is taken to start with the row: Task.Run is dispatched at  *)
(* once.                                                                   *)

InTime(d) == task[d].elapsed < Timeout

NetLoad(d) ==
  /\ At(d, "queued", DotNet)
  /\ InTime(d)
  /\ Goto(d, IF Exists(d) THEN "loaded" ELSE "done")
  /\ UNCHANGED row
  /\ Worker(d)

(* Variant: the status UPDATE is not given the token. *)
NetSetStatus_NoToken(d, from, s, to) ==
  /\ At(d, from, DotNet)
  /\ row' = [row EXCEPT ![d] = IF Exists(d) THEN Update(@, s, @.error) ELSE @]
  /\ Goto(d, to)
  /\ Worker(d)

NetSetStatus(d, from, s, to) ==
  /\ At(d, from, DotNet)
  /\ InTime(d)
  /\ row' = [row EXCEPT ![d] = IF Exists(d) THEN Update(@, s, @.error) ELSE @]
  /\ Goto(d, to)
  /\ Worker(d)

NetExtracting(d) == NetSetStatus(d, "loaded", "extracting", "extract")
NetEnriching(d)  == NetSetStatus(d, "extracted", "enriching", "enrich")
NetEmbedding(d)  == NetSetStatus(d, "index", "embedding", "embed")

NetExtract(d) ==
  /\ At(d, "extract", DotNet)
  /\ file[d]
  /\ Goto(d, "extracted")
  /\ UNCHANGED row
  /\ Worker(d)

(* Each INSERT commits by itself: first the summary, then the others. *)
NetSummary(d) ==
  /\ At(d, "enrich", DotNet)
  /\ Exists(d)
  /\ row' = [row EXCEPT ![d] = Enriched(@, 1)]
  /\ Goto(d, "rows")
  /\ Worker(d)

(* Variant: keywords and questions are skipped. *)
NetRows_SummaryOnly(d) ==
  /\ At(d, "rows", DotNet)
  /\ Goto(d, "index")
  /\ UNCHANGED row
  /\ Worker(d)

NetRows(d) ==
  /\ At(d, "rows", DotNet)
  /\ Exists(d)
  /\ row' = [row EXCEPT ![d] = Enriched(@, 2)]
  /\ Goto(d, "index")
  /\ Worker(d)

NetReady(d) == Ready(Update(row[d], "ready", "none"), ReviewAtReady(d))

NetPublish(d) ==
  /\ At(d, "embed", DotNet)
  /\ InTime(d)
  /\ Publish(d, NetReady(d))
  /\ Worker(d)

(* Variant: the catch block leaves out OperationCanceledException. *)
NetFail_NotCancelled(d) ==
  /\ home[d] \in DotNet
  /\ task[d].stage \in Working \ {"failing"}
  /\ InTime(d)
  /\ Goto(d, "failing")
  /\ UNCHANGED row
  /\ Worker(d)

(* Any exception, the expired token's included, leads to the catch block. *)
NetFail(d) ==
  /\ home[d] \in DotNet
  /\ task[d].stage \in Working \ {"failing"}
  /\ Goto(d, "failing")
  /\ UNCHANGED row
  /\ Worker(d)

-----------------------------------------------------------------------------
(* Processes, the startup sweep, and time.                                 *)

(* Variants of the sweep's WHERE clause. *)
Sweepable_TooSoon(r)   == r.status \in Transient /\ r.age > 0
Sweepable_AnyStatus(r) == r.status # "absent" /\ r.age > Stale
Sweepable_NotQueued(r) == r.status \in Transient \ {"queued"} /\ r.age > Stale

Sweepable(r) == r.status \in Transient /\ r.age > Stale

Swept == [d \in Docs |-> IF Sweepable(row[d]) THEN FailedRow(row[d], "interrupted") ELSE row[d]]

(* The handlers and workers of a process live in its memory only. *)
Crash(p) ==
  /\ p \in up
  /\ up' = up \ {p}
  /\ halfway' = [halfway EXCEPT ![p] = {}]
  /\ task' = [d \in Docs |->
                IF home[d] # p THEN task[d]
                ELSE [task[d] EXCEPT !.stage = CASE @ = "request"  -> "refused"
                                                 [] @ \in Working  -> "done"
                                                 [] OTHER          -> @]]
  /\ UNCHANGED <<row, file, home, scope>>

(* The sweep commits before the process serves its first request. *)
Start(p) ==
  /\ p \in Procs \ up
  /\ up' = up \cup {p}
  /\ row' = Swept
  /\ UNCHANGED <<task, file, home, scope, halfway>>

(* FastAPI swallows an OperationalError of the sweep and serves anyway. *)
PyStartUnswept(p) ==
  /\ DbFaults
  /\ p \in FastApi \ up
  /\ up' = up \cup {p}
  /\ UNCHANGED <<row, task, file, home, scope, halfway>>

MaxAge == Stale + 1

AgedBy1(d)   == IF Exists(d) /\ row[d].age < MaxAge THEN row[d].age + 1 ELSE row[d].age
ElapsedBy1(d) ==
  IF home[d] \in DotNet /\ task[d].stage \in Working /\ InTime(d)
  THEN task[d].elapsed + 1 ELSE task[d].elapsed

Tick ==
  /\ row'  = [d \in Docs |-> [row[d] EXCEPT !.age = AgedBy1(d)]]
  /\ task' = [d \in Docs |-> [task[d] EXCEPT !.elapsed = ElapsedBy1(d)]]
  /\ UNCHANGED <<file, home, scope, up, halfway>>

-----------------------------------------------------------------------------
PyWorker(d) ==
  \/ PyLoad(d) \/ PyExtracting(d) \/ PyExtract(d) \/ PyEnriching(d) \/ PyEnrich(d)
  \/ PyCaptions(d) \/ PyEmbedding(d) \/ PyPublish(d)

NetWorker(d) ==
  \/ NetLoad(d) \/ NetExtracting(d) \/ NetExtract(d) \/ NetEnriching(d) \/ NetSummary(d)
  \/ NetRows(d) \/ NetEmbedding(d) \/ NetPublish(d) \/ NetFail(d)

WorkerStep(d) == PyWorker(d) \/ NetWorker(d) \/ WriteFailed(d)

Request(p, d) ==
  \/ \E s \in {"personal", "library"} : SaveFile(p, d, s)
  \/ PyDeleteFiles(p, d) \/ PyDeleteRow(p, d)
  \/ NetDeleteRow(p, d) \/ NetDeleteFiles(p, d)

Next ==
  \/ \E d \in Docs : \/ InsertRow(d) \/ InsertFails(d) \/ NetRejectFile(d)
                     \/ WorkerStep(d)
                     \/ \E p \in Procs : Request(p, d)
  \/ \E p \in Procs : Crash(p) \/ Start(p) \/ PyStartUnswept(p)
  \/ Tick

Spec == Init /\ [][Next]_vars

(* A worker that can move does: every provider call, extraction and        *)
(* database call in it ends or times out.  The handlers' second steps are  *)
(* part of the same request.  Nothing obliges a process to crash.          *)
WorkerFairness == \A d \in Docs : WF_vars(WorkerStep(d)) /\ WF_vars(InsertRow(d))

FairSpec == Spec /\ WorkerFairness

(* A supervisor that restarts a stopped process, and a clock that goes on. *)
SupervisedSpec == FairSpec /\ WF_vars(Tick) /\ \A p \in Procs : WF_vars(Start(p))

(* Processes that are stopped and started again without end. *)
RestartingSpec == SupervisedSpec /\ \A p \in Procs : WF_vars(Crash(p))

-----------------------------------------------------------------------------
(* Properties.                                                             *)

Rows ==
  [status : Transient \cup Terminal \cup {"absent"}, error : Errors,
   review : {"not_required", "pending_sme"}, age : 0..MaxAge,
   enriched : 0..2, indexed : BOOLEAN]
Tasks == [stage : Stages, seen : Errors, elapsed : 0..Timeout]

TypeOK ==
  /\ row \in [Docs -> Rows]
  /\ task \in [Docs -> Tasks]
  /\ file \in [Docs -> BOOLEAN]
  /\ home \in [Docs -> Procs \cup {NoProc}]
  /\ scope \in [Docs -> {"personal", "library"}]
  /\ up \in SUBSET Procs
  /\ halfway \in [Procs -> SUBSET Docs]

(* A document is retrievable by its chunks exactly when it is ready: the   *)
(* final commit of either pipeline is all or nothing, a failure, a sweep   *)
(* or a crash leaves no chunks behind and deletion takes them along.  Only *)
(* a commit whose reply is lost can leave chunks under a failed document   *)
(* (ingestion.py:168-181, IngestionPipeline.cs:86-137).                    *)
IndexedExactlyWhenReady ==
  \A d \in Docs :
    /\ row[d].status = "ready" => row[d].indexed
    /\ row[d].indexed =>
         \/ row[d].status = "ready"
         \/ DbFaults /\ row[d].status = "failed" /\ row[d].error = "pipeline"

(* A library document is never answerable without having entered review,   *)
(* and review concerns no other document: retrieval and the review queue   *)
(* trust review_status alone (ingestion.py:171-172).                       *)
ReviewFollowsIndex ==
  \A d \in Docs :
    row[d].review = IF row[d].indexed /\ scope[d] = "library" THEN "pending_sme" ELSE "not_required"

(* A ready document has all its enrichment rows, although they are stored  *)
(* in earlier commits, one by one in .NET.                                 *)
ReadyIsEnriched == \A d \in Docs : row[d].status = "ready" => row[d].enriched = 2

(* A .NET worker that may still write was never swept: its timeout ends    *)
(* before the sweep's window does, whichever process sweeps.               *)
NetWorkerNotSwept ==
  \A d \in Docs :
    home[d] \in DotNet /\ task[d].stage \in Working /\ InTime(d) => row[d].error # "interrupted"

(* The inductive invariant behind the four properties above.  It adds that *)
(* a missing row is blank, that only an inserted document has a row, that  *)
(* chunks wait for the last stage and enrichments precede it, and that the *)
(* row of a .NET worker in time is no older than the worker.               *)
DocumentInv(d) ==
  /\ home[d] = NoProc => task[d].stage = "none"
  /\ task[d].stage \in {"none", "request", "refused"} => row[d] = Absent
  /\ row[d].status = "absent" => row[d] = Absent
  /\ task[d].stage \in Working \ {"failing"} => ~row[d].indexed
  /\ task[d].stage = "failing" /\ row[d].indexed => DbFaults
  /\ task[d].stage \in {"captions", "index", "embed"} /\ Exists(d) => row[d].enriched = 2
  /\ home[d] \in DotNet /\ task[d].stage \in Working /\ InTime(d) => row[d].age <= task[d].elapsed

IndInv ==
  /\ TypeOK
  /\ \A d \in Docs : DocumentInv(d)
  /\ IndexedExactlyWhenReady
  /\ ReviewFollowsIndex
  /\ ReadyIsEnriched
  /\ NetWorkerNotSwept

(* While .NET alone serves deletions, a row always has its file: only the  *)
(* FastAPI delete removes the file first.                                  *)
RowHasFile == \A d \in Docs : Exists(d) => file[d]

(* Ready is final: no sweep, late worker or failure takes it back; only    *)
(* deletion ends it (test_recovery.py:72, "terminal states are never       *)
(* touched"), and a worker whose last commit was made but not acknowledged *)
(* (ingestion.py:178-181).                                                 *)
ReadyIsFinal ==
  [][\A d \in Docs : row[d].status = "ready" =>
       \/ row'[d].status \in {"ready", "absent"}
       \/ DbFaults /\ task[d].stage = "failing" /\ row'[d].error = "pipeline"]_row

(* Where a failing commit ends a worker with nothing written: the commits  *)
(* of the FastAPI worker outside any try, and that of the failure itself.  *)
Unguarded(d) ==
  \/ task[d].stage = "failing"
  \/ home[d] \in FastApi /\ task[d].stage \in {"loaded", "extracted", "captions", "index"}

(* A worker that ends without its process ending has left its document in  *)
(* a terminal state, or the document is gone; a failing commit can end it  *)
(* in silence at the unguarded places only (ingestion.py:102-129).         *)
NoSilentExit ==
  [][\A d \in Docs :
       task[d].stage \in Working /\ task'[d].stage \notin Working /\ home[d] \in up'
         => \/ row'[d].status \in Terminal \cup {"absent"}
            \/ DbFaults /\ Unguarded(d)]_vars

(* Every worker comes to its end. *)
WorkerEnds == \A d \in Docs : task[d].stage \in Working ~> task[d].stage = "done"

(* A document whose worker died with its process is failed by a sweep, or  *)
(* deleted, in the end.                                                    *)
Stranded(d) == row[d].status \in Transient /\ task[d].stage = "done"
StrandedIsSwept == \A d \in Docs : Stranded(d) ~> row[d].status \notin Transient

(* The promise of DocumentLifecycle, kept where no worker of another       *)
(* process can be alive during a sweep.                                    *)
Phase(d) ==
  IF task[d].stage \in {"none", "request", "refused"} THEN "new"
  ELSE CASE row[d].status = "absent"    -> "deleted"
         [] row[d].status \in Transient -> "processing"
         [] OTHER                       -> row[d].status

Lifecycle == INSTANCE DocumentLifecycle
               WITH phase      <- [d \in Docs |-> Phase(d)],
                    answerable <- {d \in Docs : row[d].indexed}

KeepsLifecycle == Lifecycle!Spec
=============================================================================
