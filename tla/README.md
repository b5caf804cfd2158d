# DocSage, specified and checked

DocSage answers questions from uploaded documents. Two backends, a FastAPI
reference (`backend/src/docsage_api`) and an ASP.NET parity implementation
(`dotnet/Docsage.Api`), serve one contract (`docs/CONTRACT.md`) over **one**
Postgres database and **one** upload directory; a Next.js client
(`frontend/src`) talks to either. This directory holds TLA+ models of that
code, the TLC configurations that check them and the proofs TLAPS checks.

## 1. The system

### The backends

| Component | State | Operations | What is hard |
|---|---|---|---|
| Ingestion, FastAPI (`services/ingestion.py`) | `documents` row, `chunks`, `enrichments`, an in-process background task | extract, enrich, caption, embed, publish; each status is a commit | stale ORM copy of the row, deletes and sweeps under a running worker, commits outside any `try`, lost replies |
| Ingestion, .NET (`IngestionPipeline.cs`) | the same tables, a `Task.Run` | the same stages, one statement per autocommit, one transaction at the end | a 10-minute token that not every statement is given, one catch block for everything |
| Startup recovery (`recovery.py`, `RecoveryService.cs`) | the same rows, `sessions` | sweep of stale transient rows, purge of expired sessions | cannot tell a dead worker from a slow one; runs at startup only |
| Documents API (`routers/documents.py`, `DocumentEndpoints.cs`) | rows and upload directory | upload, list, detail, delete | file and row are written and removed in two steps, in different orders |
| Review (`routers/reviews.py`, `ReviewEndpoints.cs`) | `approvals`, `documents.review_status` | queue, decide | checks and writes without a lock; two autocommits in .NET |
| Topics and SMEs (`routers/topics.py`, `TopicEndpoints.cs`) | `topics`, `sme_designations` | create, designate, remove | designations that change under a decision |
| Retrieval (`retrieval.py`, `RetrievalService.cs`) | reads only | per-provider top-k, merge | visibility evaluated in several statements; provider list cut to two |
| Embedding providers | none | gemini, openai, demo; .NET falls back to demo | a query must stay in the space of the document's vectors |
| Chat (`routers/chat.py`, `answer.py`, `ChatService.cs`) | `chat_sessions`, `chat_messages`, a stream | post, stream, persist | client disconnects, errors in mid-stream; the backends persist at different points |
| Auth and sessions (`routers/auth.py`, `dependencies.py`, `SessionService.cs`) | `users`, `sessions`, a cookie | register, login, logout, resolve, purge | two backends and one cookie; expiry |
| Rate limiter, retry, chunking, extraction, enrichment, overview, seed | see *Not modelled* | | |

The backends meet in the database. An upload handler writes the file, commits
the row and hands the id to a worker that only its own process knows. The
worker moves the row from status to status; deletes, sweeps and review
decisions of either backend change the same row between any two of its commits.
Retrieval trusts `review_status` and the stored chunks alone, not `status`, so
what the last commit of a pipeline makes visible *is* what users are answered
from.

### The client

| Component | State | Operations | What is hard |
|---|---|---|---|
| Chat page (`chat/page.tsx`, `chat-sidebar.tsx`, `composer.tsx`) | conversations, the selected one, its messages, a stream | ask, stop, select, new, retry | list, transcript, creation and stream answer in any order, each for a selection that may be over |
| Stream reader (`streamChatMessage`, `lib/api.ts`) | a buffer | parse events | chunks cut anywhere, CR LF, a last line without an end, an error in the middle |
| Documents page and dialog (`documents/page.tsx`, `document-detail-dialog.tsx`) | tab, list, selected document, its detail, a confirmation | tabs, open, retry, delete | two copies of a document's status, a dialog that keeps the detail it had, deletions that outlive their dialog |
| Upload page (`upload/page.tsx`) | files and their settings, accepted documents | add, edit, remove, upload, dismiss | the upload loop works on a snapshot and survives the page |
| Document polling (`use-document-polling.ts`) | a tracked set, a timer, a round | tick, pass on, swallow | replies after cancellation; a loop that must not die |
| Session and shell (`auth-provider.tsx`, `layout.tsx`, `login/page.tsx`, `app-shell.tsx`) | the user, a probe, the submissions of the login form, a count of pending reviews | probe, login, logout, navigate | every request carries the cookie of when it was sent |
| Review queue page (`reviews/page.tsx`) | the queue, two dialogs | decide, delete, retry | the queue is changed before the decision is answered |
| Topics page (`admin/topics/page.tsx`) | topics, two dialogs | create, designate, remove, reload | overlapping changes and reloads |
| Admin page (`admin/page.tsx`) | an overview and a list | read | see *Not modelled* |

All of them share one hazard: an `await` returns into a component whose state
has moved on, and the code decides with an `AbortController`, a `cancelled`
flag, an effect's cleanup, a `disabled` button or nothing at all whether the
result still counts.

### What must hold

* **Ingestion**: chunks, `ready` and entry into review appear together or not
  at all; `ready` is final; a worker ends and leaves a terminal status; a
  document that lost its worker is failed in the end; nobody fails a document
  whose worker is alive.
* **Storage**: a row that exists has its file.
* **Review**: a document is decided by somebody with authority over its topic
  and never by its uploader; a decision that stands is on record, and records
  stay.
* **Retrieval and access**: a user is answered from their own documents and
  approved library documents only, from all of them, and compares vectors of
  one space; what they are answered from they can open.
* **Chat page**: what is shown belongs to the selected conversation, a question
  is not lost, what streams can be stopped, the composer comes back.
* **Documents and upload pages**: cards are of the tab and of documents that
  exist, a dialog is about the document it was opened for, everything shown as
  running is followed, a file becomes one document and is sent as it is shown.
* **Console**: the client shows the user whose session it has; a failed
  decision loses nothing; a page shows its own changes; an answer closes the
  dialog it was asked in.

## 2. Modules

| Module | Models | Uses |
|---|---|---|
| `Ingestion` | upload, delete, both workers, sweep, crash, restart, time | `DocumentLifecycle` (refinement) |
| `DocumentLifecycle` | the abstract promise of a document's life | |
| `IngestionProofs` | theorems about `Ingestion`, its implementation of `DocumentLifecycle` and the upload directory | `Ingestion`, TLAPS |
| `Reviews` | decisions of both backends, SME changes, deletion | |
| `Access` | lists, detail, queue and chat candidates of both backends | `Reviews` |
| `ReviewsProofs` | theorems about `Reviews`, `Access` and `Retrieval` | `Access`, `Retrieval`, TLAPS |
| `Retrieval` | searches, with uploads, publication, sweeps and restarts around them | `Reviews` |
| `ChatStream` | the reader of a streamed answer, and its reference | `Ordering` |
| `ChatPage` | the chat page and the conversations it is served | `ChatStream` |
| `ChatStreamProofs` | the reader, for every text and every way of cutting it | `ChatStream`, `OrderingProofs` |
| `ChatPageProofs` | theorems about `ChatPage`: what is shown | `ChatPage`, `ChatStreamProofs` |
| `ChatTurnsProofs` | theorems about `ChatPage`: each question and its answer | `ChatPageProofs` |
| `Ordering` | the lists that the client keeps sorted: sorting, listing a set, dropping a member | |
| `OrderingProofs` | what these do to every list | `Ordering`, TLAPS |
| `DocumentPolling` | documents as the client sees them; the polling loop | `Ordering` |
| `DocumentsPage` | the documents page and its detail dialog | `DocumentPolling` |
| `UploadPage` | the upload page and its upload loops | `DocumentPolling` |
| `Files` | both pages over the same documents, one mounted at a time | `UploadPage`, `DocumentsPage` |
| `FilesProofs` | theorems about `Files` | `Files`, `OrderingProofs` |
| `Agency` | review status, topics and SMEs as the console pages see them | `Ordering` |
| `Session` | probe, login, logout, guard, shell | `Agency` |
| `ReviewsPage`, `TopicsPage` | the two console pages | `Session` |
| `Console` | the session with both pages, mounted and left | `ReviewsPage`, `TopicsPage` |
| `ConsoleProofs` | theorems about `Console` | `Console`, `OrderingProofs` |
| `MC_Ingestion`, `MC_Access`, `MC_Retrieval`, `MC_ChatPage`, `MC_Files`, `MC_Console` | the instances TLC checks | |

A definition named `X_Suffix` under the comment *Variant* is `X` with a
plausible mistake: it is what a property has been seen to rule out, and no
specification uses it.

### Ingestion

One record per document row (`status`, `error` for `status_error`, `review`,
`age` since `updated_at`, `enriched`, `indexed`), one `task` per document (the
stage its worker or upload handler is in, the `status_error` the Python worker
loaded, the time its .NET token has run), the upload directory (`file`), the
process that took the upload (`home`) and the running processes (`up`).

* One action is one committed statement, one change on disk or one step of a
  worker between two of them. A worker's guard is its `stage`; its `home`
  decides which backend's code it runs.
* The Python worker writes what differs from the copy it loaded:
  `PyStatus` writes `status_error` only if it loaded one (`task.seen`). An
  `UPDATE` of a deleted row is an error in Python (`StaleDataError`) and
  nothing in .NET.
* `Publish` is the last transaction of both pipelines; with `DbFaults` it can
  also succeed with its reply lost. `WriteFailed` is the except branch and the
  catch block.
* `NetSetStatus`, `NetLoad` and `NetPublish` require `InTime`, the statements
  that are given the token; the enrichment `INSERT`s do not.
* `Start` is the sweep and the start of a process, `PyStartUnswept` the FastAPI
  start whose sweep failed, `Crash` the end of a process with all that was in
  its memory.
* `Tick` moves the clock of all rows and tokens. Ages stop one above `Stale`,
  token times at `Timeout`: beyond these values nothing in the code
  distinguishes them.

Left out: the content of documents, the wording of errors, title, checksum and
counts (nothing decides on them), the validation of an upload before its file
is written (it changes no state), `get_provider` failing at the start of
`run_ingestion` (the upload handler has just called it with the same settings
in the same process), review decisions (they belong to the review component
and start from `ready`).

The abstract `DocumentLifecycle` knows *new, processing, ready, failed,
deleted* and the set of answerable documents. `KeepsLifecycle` maps a row to
its phase and `indexed` to *answerable*; with .NET processes only, every step is
a step of it or a stutter.

### Reviews

`review` is `review_status` (`"gone"` once the row is deleted), `audit` the
approvals rows of a document, `smes` the designations, `designated` their
history, `inflight` the decision requests that are between two statements.

* FastAPI: `PyLoad` is `db.get` and every check on the loaded row,
  `PyAuthorize` the query of the reviewer's topics, `PyCommit` the one commit.
  Its `UPDATE` names only the id, so a document decided meanwhile is decided
  again; a deleted one makes the flush fail.
* .NET: `NetCheck` is the one `SELECT` all checks read, `NetInsert` and
  `NetUpdate` are two autocommits. The `INSERT` needs the document (foreign
  key), the `UPDATE` does not notice that it is gone.
* `Abort` ends a request between any two of these: an error, or the end of its
  process. A request refused by a check changes nothing and is not kept.
* `EnterReview` is the part of `Ingestion!Publish` that concerns review.

Who uploaded what, and under which topic, never changes and is constant.
Notes and times of approvals are left out; so are two equal records of one
person, which only a repeated decision could add.

### Access

No state of its own: `PySees`, `NetLibraryList` and the others are the
predicates of the two backends, each from its own place in the code, over the
states of `Reviews`.

### Retrieval

`phase` is what retrieval can tell of a row's status, `home` the backend whose
worker has it, `space` the vector space of its stored chunks, `keys` the real
providers a backend is configured for, `searches` the searches in progress.

* `StartSearch` is the statement that lists the providers of the candidates,
  cut to two; `AskProvider` embeds the question for the next of them and ranks
  its documents; `EndSearch` is the answer or any failure.
* `ranked` keeps every document compared and the space it was compared in.
  Similarity, the 0.15 floor and the top 6 select from it, so whatever is cited
  is in it; that the approximate index finds all of it is assumed.
* `known` and `listed` are histories: the documents that each statement so far
  has found to be indexed candidates, which is what `SearchMissesNothing` owes
  the user, and the providers of all candidates before the cut to two, which is
  its one excuse.
* `Upload`, `Publish`, `Fail`, `Sweep` and `Resume` are `Ingestion` seen from
  here: chunks and `ready` appear together (proved there, but for a lost
  reply), a FastAPI worker goes on after a sweep, a .NET worker is not swept
  (proved there).
* `Restart` ends the searches and workers of a backend and may give it other
  keys; settings are read once per process.

### How the client is modelled

* **A step** is one task of the browser: a click or a reply, the code up to the
  next `await` that has to wait, and the render and the effects that follow.
  JavaScript runs such a task without interruption.
* **A request** is *sent*, then *served* (the server has acted and its answer is
  on the way), then answered or failed. A failure stands for a refusal, an
  error and a lost answer: it may come after the server has acted.
* **A cancelled request** (aborted, or under a `cancelled` flag) is dropped from
  the state, since its answer changes nothing. A request nobody cancels stays,
  whatever is shown by then.
* **A click** needs what renders it: `Cards`, `FormOffered`, `ComposerOffers`
  and the like say what is on the page. Dialogs are modal.
* **Leaving a page** resets its state and cancels what its effects await. What
  the code does not cancel goes on: upload loops (`batches` of earlier
  visits) and requests of a topics page (`orphans`).
* **History variables** name the cases in which a property is known not to hold,
  so that it can be checked in all others: `overlapped`, `lateList`, `gone`,
  `askedOn`, `lateEdits`, `slip` (with `late` of the probe and of the
  submissions), `loaded`, `decided`, `behind`. Nothing reads
  them but properties.

**ChatPage.** The server is `stored` (transcripts) and `scopeOf`; `listing`,
`transcript` and `creates` are its three kinds of requests; `sends` is the calls
of `send`, numbered by their questions, with the body a server answers with, how
much of it has been read and the reader (`ChatStream`). `SendNow` aborts the
transcript request, `AbortInto` aborts the stream and keeps its text, `Close` is
the `finally`. A complete answer may be stored at any later time or never
(`SaveAnswer`): FastAPI and .NET persist at different points, and the client
cannot tell.

**DocumentPolling, DocumentsPage, UploadPage, Files.** A document is *running*
or *ended* to the client, so those are the statuses. A loop is the set it tracks
and the round it awaits; `Tracking` is the effect that cancels and restarts it
when the set changes. The dialog's request is kept with the document it is for, and a retry
outdates the request that is there; `confirming` and `deleting` keep their
names. `Advance` is one turn of the upload loop, for
the visit of the page that started it; its items are changed only if that page
is still there. The list follows the .NET backend.

**Session, ReviewsPage, TopicsPage, Console.** `Commit` is a change of the user
with everything it causes: the redirects of layout and login page, and the
shell's count, cancelled and sent again. A submission of the login form goes on
when the page is left, and the form of the next visit is a new one: `forms` holds
them all, and `own` says which belongs to the form that is shown. `slip` says why
user and cookie may differ: the client *forgot* its user (a lost answer, a
refusal that came too late), the session *expired*, or an answer was *late*, about
a cookie that had been replaced; an answer about the present one clears it.
`ReviewsPage` and `TopicsPage` are
records that exist as long as the page does (`PagesFollow` mounts them). On the
server (`Agency`) each request is one step; races there are the subject of
`Reviews`. The browser's logout is taken together with its answer: until then
only a busy menu entry tells of it.

## 3. Runs

`access`, `chat`, `console`, `files` and `retrieval_fastapi` take two to three
minutes, the others one or less. `Stale` and `Timeout` are in ticks; what matters is their order and that
a worker can be younger than, as old as and older than each, so 3/2 and 2/1
suffice.

| Run | Instance | Shows |
|---|---|---|
| `mixed` | 1 document, 1 FastAPI + 1 .NET process, failing and unacknowledged commits | `IndInv` and the four safety properties it carries; `ReadyIsFinal`, `NoSilentExit` |
| `dotnet` | 1 document, 2 .NET processes that are restarted for ever | `RowHasFile`; the refinement of `DocumentLifecycle` across processes: the token beats the sweep; `StrandedIsSwept` |
| `workers` | the same with fair workers | `WorkerEnds` |
| `stranded` | 1 FastAPI process that is restarted whenever it stops | violated: without another restart nothing fails a stranded document |
| `access` | 2 topics, a library and a personal document, 3 users, 2 requests, both backends | `IndInv`, `DecidedOnRecord`, `DecidersHadAuthority`, `AppendOnly`, `CitationsOpen`, `QueueServesReview` |
| `retrieval_both` | 2 documents of one provider, both backends, any keys | `AnsweredFromVisible`, `QueryMatchesSpace` |
| `retrieval_fastapi` | 3 documents of three providers, 2 requests, FastAPI only | `RecordedIsDecided`, `SearchMissesNothing` |
| `chat` | 2 conversations, 2 questions, 1 selection, an answer and an error cut anywhere | `EventsAsSent`, `ShownBelongs`, `BusyIsBusy`, `ShownOnce`, `QuestionKept`, `StreamingEnds` |
| `chat_first` | 1 question, no selection | violated: the first question of a page without conversations is wiped |
| `files` | 2 files, 2 documents, 2 visits, 1 edit | `CardsAreTrue`, `DialogIsOfSelected`, `NothingAbandoned`, `OneDocumentPerFile`, `SentAsShown`, `PollKeepsEnd` |
| `files_named` | the same without edits, for a member | violated: the dialog names one document and deletes another |
| `console` | an admin and a member, 2 documents, 2 topics, 2 changes on the server, 2 submissions of the login form | `SameUser`, `QueueKeepsLoaded`, `OwnChangesShown`, `AnswersMeetTheirDialog` |

**Why the instances are large enough.** One document is enough for ingestion:
every action but the sweep, a crash and the clock touches one document, and a
document has one worker in its life, so two processes show all interferences,
the worker's own and another that deletes or sweeps. The proof covers many.

`Reviews` needs two requests to interfere with each other and with a change of
SMEs; one library document, since requests for different documents share nothing
but the designations; a personal one for the predicates of `Access`. Three users
are an uploading admin, another admin and a user who may be an SME: everybody
the checks tell apart. A second topic is there for authority over the wrong one.
Searches do not touch each other, so one at a time is enough; two documents of
one provider let one statement meet a document the provider list was not built
for, and three of three providers let the cut leave one out, also for a document
that has no vectors yet. `retrieval_both` lets FastAPI alone decide, which bounds it; .NET's
decisions go through the same two variables and are in `access` and in the
proof.

On the chat page two conversations are a selection and another one, two
questions one stream and one that overlaps it. A selection of the conversation
that is selected already is possible, too. The two bodies have the cases the
reader tells apart: a delta that can be cut in two, LF and CR LF, a last line
without an end, an error with more behind it. Two documents let a reply for one
meet a page, tab or dialog of the other; two files are one that is sent and one
that waits; two visits are a page and the loop of the one before. Two changes on
the server (`MaxChanges`) let a designation and a decision, or two changes of
the topics page, meet; one orphan, a change of the topics page or a submission
of the login form that outlives its page, is enough for an answer nobody waits
for. An orphan that will never be served is dropped when its page is left, so
each one kept has a change reserved for it. Two submissions (`MaxLogins`) are the
one of the form that is shown and one of a form that was left.
`Bodies`, `MaxConvs`, `MaxTurns`, `MaxSelects`, `MaxDocs`,
`MaxVisits`, `MaxFiles`, `MaxEdits`, `MaxChanges`, `MaxOrphans`, `MaxLogins`,
`MaxInFlight` and `MaxSearches` bound the model, not the code.

Where a run has `CHECK_DEADLOCK FALSE`, the client really may stop: everything
is answered, the bounds are reached, or the user is signed out.

**Fairness.** `WorkerFairness`: a worker step or the `INSERT` of an upload that
is enabled is taken in the end; provider calls, extraction and database calls
return or time out, and the request handler does not stop by itself.
`SupervisedSpec` adds a supervisor that starts a stopped process again and a
clock that goes on. `RestartingSpec` adds that processes are stopped again and
again, which the code does not provide: it is there to show that restarts are
what `StrandedIsSwept` needs, and `stranded` that supervision alone is not
enough. `NetworkFairness` is for the chat page: a question that was sent is
served, and what has arrived is read; no click and no failure is owed.
`StreamingEnds` needs no more, since the reader takes at least one symbol at a
time and bodies are finite.

### Findings

1. `StrandedIsSwept` under `SupervisedSpec`: the sweep runs at startup and
   skips what is younger than the window, so a quick restart leaves a document
   stranded for as long as the process stays up.
2. `FirstMessageKept`: `send` aborts the transcript request before it shows a
   question, but the request for a conversation that `ensureSession` has just
   created is sent by the effect that runs after `send`; its answer replaces the
   question.
3. `DeletesNamed`: while the detail of another document loads, the dialog still
   names the one before, and deletes the other.

### Known differences without a run

Found while modelling, plain from the code, and excluded from the properties by
name where one would meet them.

Backends:

* A FastAPI worker whose document was swept under it goes on, and the sweep's
  `status_error` stays on a document that is not failed: the ORM writes only
  attributes that changed in its own copy.
* `recovery.py` takes age for death: a second process that starts while a
  FastAPI worker has been in one stage for 15 minutes fails a document that is
  being worked on. `KeepsLifecycle` is therefore checked with .NET processes.
* Two reviewers who both load the pending document both decide it; the later
  commit wins and may contradict the earlier record.
* The cut to two providers counts providers of documents without chunks, and
  the contract's "max two" and its "searchable agency-wide" cannot both hold
  with three. `SearchMissesNothing` says that the cut is all that leaves a
  document out.
* `PyLibraryList` has no scope condition for admins, so the library list of an
  admin holds everybody's personal documents (`documents.py:192`, against
  `CONTRACT.md:15`); `PyPersonalList` has none at all: a user's own
  library documents are among their personal ones.
* `NetLibraryList` opens every unapproved document to an SME of any topic
  (`DocumentsService.cs:68`, against `GLOSSARY.md:14`), and lists documents
  that `NetSees` then refuses to open.
* `NetSees` hides a topic's documents from its SMEs unless they are pending,
  `PySees` does not (`DocumentsService.cs:87`, against `CONTRACT.md:152`).
* `Reviewer`, the flag `pending_reviewer`, is set for the uploading admin,
  whom `decide` refuses (`documents.py:46`).
* The .NET resolver falls back to demo vectors (`EmbeddingProviderResolver.cs:20`,
  against `CONTRACT.md:188`), for questions and for stored vectors, and FastAPI
  answers from the latter: `QueryMatchesSpace` allows these two cases.
* FastAPI's logout names its cookie parameter differently from the session
  cookie (`auth.py:129`).

Client:

* A list of conversations that arrives when one is selected already shows it as
  loading with no request to end it (`chat/page.tsx:78`; `lateList`).
* *New* does not stop a stream; its answer is appended to the new conversation
  (`ShownBelongs` allows answers elsewhere). While a question waits for its
  conversation another one can be asked, and two streams overlap (`overlapped`).
* A conversation created while the list is on its way may be in the sidebar
  twice.
* A deletion that ends closes whatever dialog is open by then.
* Settings changed while a file waits for its turn are shown, not sent
  (`lateEdits`).
* The review queue does not ask its detail dialog to tell it of a deletion
  (`reviews/page.tsx:267-278`); the document stays in the queue.
* After a login a lost `refresh` sends a user with a session back to the login
  page, `signOut` forgets the user when the request failed; the first probe, or
  the `refresh` of a form that was left, answered late, overwrites the user
  (`slip`).
* The login page honours a `next` parameter that no link or redirect sets.

## 4. Proofs

`IngestionProofs` proves, for every set of documents and processes, every
window and timeout with `Timeout <= Stale`, and with or without database
faults:

| Theorem | States |
|---|---|
| `InductiveInvariant` | `Spec => []IndInv` |
| `TypeCorrect` | `Spec => []TypeOK` |
| `IndexAtomicity` | `Spec => []IndexedExactlyWhenReady` |
| `ReviewGate` | `Spec => []ReviewFollowsIndex` |
| `ReadyEnrichment` | `Spec => []ReadyIsEnriched` |
| `TimeoutBeatsSweep` | `Spec => []NetWorkerNotSwept` |
| `ReadyStays` | `Spec => ReadyIsFinal` |
| `NoWorkerVanishes` | `Spec => NoSilentExit` |

None of the properties is inductive by itself. `DocumentInv` adds what ties a
worker's stage to its row: chunks do not exist before the last stage, the late
stages have all enrichments, a missing row is blank, and the row of a .NET
worker in time is no older than the worker's token. The last one is why a
sweep, which needs an age above `Stale`, cannot meet such a worker.

The proof has three parts. The first says field by field what the model's
record updates do (`UpdateRow`, `ReadyRow`, ...). The second proves for each
action that moves one document that this document stays `Safe` and the others
are untouched (`Good`); `OthersStaySafe` lifts it to all. The third treats the
steps that move many documents, the crash, the sweep and the clock.

`ReadyStays` and `NoWorkerVanishes` follow step by step: a ready document is
indexed, and no worker with work left has an indexed one; the last step of a
worker is its last commit, its failure or the discovery that its row is gone.
Where commits fail or are not acknowledged each has the one exception it names:
after a lost reply the worker writes `failed` over its own `ready`
(`FailingWrites`: it is the only writer that does), and a commit of the FastAPI
worker that fails outside any `try` ends it without a word (`Unguarded`), as does
the failing write of a failure in both backends.

Its second part proves the refinement for any number of documents and .NET
processes (`LifecycleKept == FastApi = {} /\ ~DbFaults => (Spec =>
KeepsLifecycle)`). It adds one invariant, `NotOvertaken`: a worker with work left
finds its row failed only if a sweep did it, which by `TimeoutBeatsSweep` happens
only after its token has expired, when every way it has left leads to `failed`
again. With FastAPI processes the refinement does not hold across processes (see
*Known differences*).

Its last part proves `FilesOutliveRows == FastApi = {} => (Spec =>
[]RowHasFile)`. `FilesInv` says why the order of the steps is enough: a file is
written before its row, and a request that is about to remove files remembers a
document whose row is gone and, since ids are given out once, will not be back.
FastAPI's delete removes the files first, hence the hypothesis.

Assumptions: the two backends' process sets are disjoint (`ProcsAssumption`),
`Timeout <= Stale` (`TimeAssumption`, 10 against 15 minutes in the code) and
`DbFaults \in BOOLEAN`. TLC evaluates them in every run.

`ReviewsProofs` proves for every set of users, topics and documents, every
number of requests and either set of backends:

| Theorem | States |
|---|---|
| `Invariance` | `Spec => []IndInv` |
| `DecisionOnRecord` | `Spec => []DecidedOnRecord` |
| `ScopedAuthority` | `Spec => []DecidersHadAuthority` |
| `AuditOnlyGrows` | `Spec => AppendOnly` |
| `RecordTakesEffect` | `~DotNet => (Spec => []RecordedIsDecided)` |

The invariant says what a request carries from its checks to its writes
(`RequestInv`): its author had authority over the topic and did not upload the
document; the document is a library document that entered review; and once .NET
has inserted the record, the record is there unless the document is gone. None
of this can be lost by what happens in between (`RequestsKept`), which is why
checks without locks are enough for these properties, and only for these: that
a decision is never reversed would need the status to stay what it was.

Its part about `Access` takes the same `IndInv` and proves `CitationsCanBeOpened`
(`Spec => []CitationsOpen`) and `ReviewIsServed` (`Spec => []QueueServesReview`):
only library documents are in review, and the approved ones are open to
everybody in both backends.

Assumptions: only admins upload to the library, under a topic
(`DocsAssumption`, checked by the upload handlers), and the sets the constants
range over.

Its last part shows that every step of the composition with `Retrieval` is a step of
`Reviews` or leaves its variables alone (`ReviewsImplemented`), takes `IndInv`
from there, and proves `AnswersAreAuthorised`: a document that a search ranks
is the user's own or approved, approved means approved on record by somebody
with authority (`ApprovedHasAuthority`), and no step takes that back but the
deletion of the document (`ApprovalStays`, from `PastIsKept`). It proves two
more of a search: `OneSpace`, since FastAPI refuses a provider it has no key for,
.NET takes the demo space instead and no other, and a restart with other keys
ends the searches and workers that had the old ones (`SpacesInv`); and
`NothingMissed`: a candidate that stays one through every statement has its
provider asked or still to be asked, unless two others of the candidates came
before it (`NoneOrTwoBefore`, `CompleteInv`).

`ChatPageProofs` proves, for any number of conversations, questions and
selections, and whatever bodies a server answers with:

| Theorem | States |
|---|---|
| `Invariance` | `Spec => []IndInv` |
| `SelectionShown` | `Spec => []ShownBelongs` |
| `NothingStaysBusy` | `Spec => []BusyIsBusy` |
| `QuestionsStayShown` | `Spec => QuestionKept` |

The invariant has three layers. `ViewInv` is about what is shown and holds
whatever the streams do, since all that a stream adds is an answer. `StreamInv`
is about the calls of `send`: a call that waits for its conversation is the only
one its creation belongs to, and it begins as the stream the stop button points
at. `QuestionInv` ties the two: while a transcript is on its way, the only
questions on the page are those that created their conversation, which is the
one case in which the code loses them (finding 2). Assumed is `ChatAssumption`:
there is at least one conversation and one question, and bodies are sequences.

`ChatTurnsProofs` goes on from there to the questions and answers themselves:

| Theorem | States |
|---|---|
| `TypeCorrect` | `Spec => []TypeOK` |
| `EventsCorrect` | `Spec => []EventsAsSent` |
| `TurnsShownOnce` | `Spec => []ShownOnce` |

`EventsCorrect` rests on `ChatStreamProofs`. There `ReaderOf(r, text)` says what
a reader has made of the text it has received: it has passed on the events that
are due, it is terminal if one of them was an error, and otherwise its buffer
is what follows the last line feed. One symbol more keeps that
(`ReadsSymbol`, one case for a line feed and one for the rest), hence any
chunk does (`ConsumesChunk`, by least counterexample over its length), and
`FlushesLine` says that the end of the body is a line end. The reference
`EventsDue` has no reader in it: of all line ends of the text it lists those
whose line is a payload and that no error precedes. `DataInv` carries `ReaderOf`
for every call that reads, with the part of the body read so far, and the types
of everything else.

`ShownOnce` needs to know where the copies of a message are: in the transcripts
of the server, in one of these on its way, on the page, and with a stream that
will add an answer to the page. `OnceInv` says that a transcript, stored or
fetched, has a message once and only of questions sent to its conversation
(`Transcribed`), that nothing still waiting is shown (`ShownBegun`), and that
while an answer is streamed it is not shown and nothing on its way can show it
(`AnswersAway`): a transcript is requested when a conversation is selected, by
which the stream is aborted, and asking aborts the transcript; after *New*, which
does not stop the stream, only another conversation can be created
(`OneNew`). A call whose conversation was created for it is excused, because of
the request that the effect sends after `send` (finding 2), and so is everything
once two streams overlap.

`FilesProofs` proves, for any number of documents, files, visits and changes,
with or without a key for a provider, for admins and members:

| Theorem | States |
|---|---|
| `Invariance` | `Spec => []IInv` |
| `TypeCorrect` | `Spec => []TypeOK` |
| `CardsTrue` | `Spec => []CardsAreTrue` |
| `DialogOfSelected` | `Spec => []DialogIsOfSelected` |
| `NothingIsAbandoned` | `Spec => []NothingAbandoned` |
| `FileOnce` | `Spec => []OneDocumentPerFile` |
| `SentIsShown` | `Spec => []SentAsShown` |
| `PollsKeepEnds` | `Spec => PollKeepsEnd` |

The invariant says what the three kinds of concurrent work may assume of each
other. A polling loop awaits replies only for what it tracks, and it tracks what
its owner shows as running (`LoopInv`). The files an upload loop has still to
send are different, none of them is a document, and the one it is sending is
none either until the server has answered (`BatchInv`): without that a lost
answer could be followed by a second document. An item is busy exactly while the
loop of its own visit sends it, and shows what the loop holds unless it was
changed meanwhile (`ItemsInv`). A list on its way is for the tab that is shown
and has nothing the page knows to be deleted (`ListsInv`); a request of the
dialog is for the document it is open for (`RequestsInv`). The server's rows
only grow (`Grown`), which is why loops of earlier visits cannot be surprised.
TLC checked `IInv` on the instance of `files` before it was proved. Assumed is
`UploadAssumption`, that the bounds are numbers and the only provider that needs
a key is Gemini, and `PollingAssumption`.

`ConsoleProofs` proves, for any sets of users, documents and topics:

| Theorem | States |
|---|---|
| `Invariance` | `Spec => []IInv` |
| `TypeCorrect` | `Spec => []TypeOK` |
| `ClientIsCookie` | `Spec => []SameUser` |
| `QueueIsKept` | `Spec => []QueueKeepsLoaded` |
| `DialogsAreMet` | `Spec => []AnswersMeetTheirDialog` |
| `ChangesAreShown` | `Spec => []OwnChangesShown` |

The cookie, the user the client believes in and the one each answer on its way
was given for change at different moments; `SessionInv` says for each of these
moments which of them agree (`ProbeInv`, `AgreeInv`, `CountInv`). `QueueInv`
counts: a loaded document is in the queue once, or never while its decision is
on its way or taken. `ListInv` is about lists that are *not behind*: what the
page shows, or what is on its way to it, is the server's list as soon as every
change has been answered. Assumed are `AgencyAssumption`, finite sets of documents
and topics, numbered in the order they are sorted by, and `SessionAssumption`,
that the bound on submissions is a positive number.

`OrderingProofs` is what all three pages rest on. `Sorted` and `Listed` choose a
permutation; that there is one for every list (`SortExists`) is an induction over
its length. The induction theorems of the library take an operator and cannot be
used here, so the induction is by least counterexample: a set of numbers that is
not empty has a least member (`NatMin`, from the well-foundedness of `<`).
`SortedKeeps`, `ListedIs` and `DroppedIs` say how often a member occurs in the
result, `ListedAppend` what one more and larger member adds to a listed set.

What is left to TLC is what needs fairness, and with it ENABLED, which is beyond
the prover: `StreamingEnds`, `WorkerEnds` and `StrandedIsSwept`. Every other
property of the passing runs is a theorem; `LifecycleKept`, `FilesOutliveRows` and
`RecordTakesEffect` need the hypotheses given above (no FastAPI process, no
failing commits, no .NET decisions), which are those of the runs that check them.

## 5. Not modelled

* **Rate limiter** (`rate_limit.py`, `RateLimiter.cs`): a queue of times per
  key that nothing else reads. To every request of the models it is one more
  reason to be refused. The .NET limiter can lose a hit while a bucket is
  removed; the repository promises no exact count.
* **Retry** (`retry.py`): three attempts of one call with no state that outlives
  it; its callers see a call that succeeds or fails.
* **Chunking** (`Chunker.cs`, `_chunk_text`): a pure function of a text and two
  numbers with unit tests of its own; nothing in the models depends on where a
  chunk ends.
* **Extraction, enrichment, prompting, citations' wording, titles**: parsing and
  text; a call that succeeds, fails or falls back, which `Ingestion` has.
* **Admin page, overview and health endpoints**: counts that are read once and
  shown. The admin page deletes through the same detail dialog.
* **Registration and password hashing**: the same steps as a login, and a
  library call.
* **The purge of expired sessions**: it deletes rows that authenticate nobody.
* **Seed data, migrations, configuration, logging, layout components**: run once
  by an operator, or without state.
