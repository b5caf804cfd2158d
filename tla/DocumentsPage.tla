---------------------------- MODULE DocumentsPage ----------------------------
(***************************************************************************)
(* The documents page (app/(app)/documents/page.tsx) and its detail dialog *)
(* (components/documents/document-detail-dialog.tsx).  A list request, the *)
(* dialog's request, a delete request and two polling loops overlap; the   *)
(* page and the dialog each keep a copy of the documents.                  *)
(***************************************************************************)
EXTENDS DocumentPolling

CONSTANT Deletable   \* documents of the user, or all of them for an admin

Scopes == {"personal", "library"}

VARIABLES
  scope, documents, loading, error,       \* the page; documents maps those shown to statuses
  listReq,                                \* the list request that is not cancelled
  pageLoop,
  selected, detailOpen,
  fetchState, confirming, deleting,
  detailReq,                              \* the dialog's request that is not cancelled
  dialogLoop,
  deleteReq,                              \* the delete request
  gone,     \* history: deleted documents the page was told of, but see DeleteReply
  askedOn   \* history: the document the dialog was opened for when Delete was clicked

pageVars   == <<scope, documents, loading, error, listReq, pageLoop>>
dialogVars == <<selected, detailOpen, fetchState, detailReq, dialogLoop>>
deleteVars == <<confirming, deleting, deleteReq, gone, askedOn>>
documentsVars == <<pageVars, dialogVars, deleteVars>>

NoList   == [scope |-> "personal", stage |-> "none", items |-> <<>>]
NoDetail == [key |-> NoDoc, id |-> NoDoc, status |-> "none", error |-> FALSE]
NoFetch  == [key |-> NoDoc, stage |-> "none", status |-> "none"]
NoDelete == [id |-> NoDoc, stage |-> "none"]

ListFor(s) == [scope |-> s, stage |-> "sent", items |-> <<>>]

(* The page as it is mounted. *)
DocumentsInit ==
  /\ scope = "personal" /\ documents = <<>> /\ loading = TRUE /\ error = FALSE
  /\ listReq = ListFor("personal") /\ pageLoop = NewLoop({})
  /\ selected = NoDoc /\ detailOpen = FALSE
  /\ fetchState = NoDetail
  /\ detailReq = NoFetch /\ dialogLoop = NewLoop({})
  /\ confirming = FALSE /\ deleting = FALSE /\ deleteReq = NoDelete
  /\ gone = {} /\ askedOn = NoDoc

-----------------------------------------------------------------------------
(* What is shown, and so can be clicked; the dialog is modal.              *)

PageShows ==
  CASE loading          -> "skeletons"
    [] ~loading /\ error -> "error"
    [] OTHER            -> "cards"

(* The documents that have a card to click. *)
Cards == IF ~detailOpen /\ PageShows = "cards" THEN DOMAIN documents ELSE {}

(* The dialog waits for the fetch of its document.  A retry, counted in    *)
(* the key by a token (reloadToken), outdates the fetch that is there.     *)
DialogLoading == detailOpen /\ fetchState.key # selected

(* The header and the footer show the detail that is there. *)
doc == IF fetchState.id # NoDoc THEN fetchState.id ELSE selected

canDelete == doc \in Deletable

DialogShows ==
  CASE DialogLoading                      -> "skeletons"
    [] ~DialogLoading /\ fetchState.error -> "error"
    [] OTHER                              -> "detail"

-----------------------------------------------------------------------------
(* The list.                                                               *)

Show(shown) == documents' = shown /\ pageLoop' = Tracking(pageLoop, RunningIn(shown))

(* Variant: the request for the other scope is left alone. *)
Tab_KeepsRequest(s) ==
  /\ ~detailOpen /\ s # scope
  /\ scope' = s /\ loading' = TRUE /\ error' = FALSE
  /\ listReq' = IF listReq = NoList THEN ListFor(s) ELSE listReq
  /\ UNCHANGED <<stored, documents, pageLoop, dialogVars, deleteVars>>

Tab(s) ==
  /\ ~detailOpen /\ s # scope
  /\ scope' = s /\ loading' = TRUE /\ error' = FALSE
  /\ listReq' = ListFor(s)
  /\ UNCHANGED <<stored, documents, pageLoop, dialogVars, deleteVars>>

TryAgain ==
  /\ ~detailOpen /\ PageShows = "error"
  /\ loading' = TRUE /\ error' = FALSE
  /\ listReq' = ListFor(scope)
  /\ UNCHANGED <<stored, scope, documents, pageLoop, dialogVars, deleteVars>>

(* As the .NET backend does; FastAPI lists all the documents of the user   *)
(* as personal ones, and to an admin all there are as the library.         *)
ServeList ==
  /\ listReq.stage = "sent"
  /\ LET items == {d \in Known : stored[d].scope = listReq.scope}
     IN  listReq' = [listReq EXCEPT !.stage = "served",
                                    !.items = [d \in items |-> stored[d].status]]
  /\ UNCHANGED <<stored, scope, documents, loading, error, pageLoop, dialogVars, deleteVars>>

ListReply ==
  /\ listReq.stage = "served"
  /\ Show(listReq.items)
  /\ loading' = FALSE
  /\ listReq' = NoList
  /\ UNCHANGED <<stored, scope, error, dialogVars, deleteVars>>

ListFails ==
  /\ listReq.stage = "sent"
  /\ error' = TRUE /\ loading' = FALSE
  /\ listReq' = NoList
  /\ UNCHANGED <<stored, scope, documents, pageLoop, dialogVars, deleteVars>>

-----------------------------------------------------------------------------
(* The dialog.                                                             *)

Request(key) == detailReq' = [key |-> key, stage |-> "sent", status |-> "none"]

DialogTracks(open, detail) == IF open /\ detail.status = "running" THEN {detail.id} ELSE {}

Open(d) ==
  /\ d \in Cards
  /\ selected' = d /\ detailOpen' = TRUE
  /\ Request(d)
  /\ dialogLoop' = Tracking(dialogLoop, DialogTracks(TRUE, fetchState))
  /\ UNCHANGED <<stored, pageVars, fetchState, deleteVars>>

(* The effects of a closed dialog. *)
Closed ==
  /\ detailOpen' = FALSE
  /\ detailReq' = NoFetch
  /\ dialogLoop' = Tracking(dialogLoop, {})

(* Variant: what was asked is kept for the next document. *)
Close_KeepsConfirming ==
  /\ detailOpen
  /\ Closed
  /\ UNCHANGED <<stored, pageVars, selected, fetchState, deleteVars>>

Close ==
  /\ detailOpen
  /\ Closed
  /\ confirming' = FALSE /\ askedOn' = NoDoc
  /\ UNCHANGED <<stored, pageVars, selected, fetchState, deleting, deleteReq, gone>>

ServeDetail ==
  /\ detailReq.stage = "sent" /\ detailReq.key \in Known
  /\ detailReq' = [detailReq EXCEPT !.stage = "served", !.status = stored[detailReq.key].status]
  /\ UNCHANGED <<stored, pageVars, selected, detailOpen, fetchState, dialogLoop, deleteVars>>

Landed(detail) ==
  /\ fetchState' = detail
  /\ detailReq' = NoFetch
  /\ dialogLoop' = Tracking(dialogLoop, DialogTracks(detailOpen, detail))

DetailReply ==
  /\ detailReq.stage = "served"
  /\ Landed([key |-> detailReq.key, id |-> detailReq.key, status |-> detailReq.status,
             error |-> FALSE])
  /\ UNCHANGED <<stored, pageVars, selected, detailOpen, deleteVars>>

DetailFails ==
  /\ detailReq.stage = "sent"
  /\ Landed([NoDetail EXCEPT !.key = detailReq.key, !.error = TRUE])
  /\ UNCHANGED <<stored, pageVars, selected, detailOpen, deleteVars>>

DetailRetry ==
  /\ detailOpen /\ DialogShows = "error"
  /\ fetchState' = [fetchState EXCEPT !.key = NoDoc]
  /\ Request(selected)
  /\ UNCHANGED <<stored, pageVars, selected, detailOpen, dialogLoop, deleteVars>>

-----------------------------------------------------------------------------
(* Deleting from the dialog.                                               *)

AskDelete ==
  /\ detailOpen /\ canDelete /\ ~confirming
  /\ confirming' = TRUE /\ askedOn' = selected
  /\ UNCHANGED <<stored, pageVars, dialogVars, deleting, deleteReq, gone>>

CancelDelete ==
  /\ detailOpen /\ canDelete /\ confirming /\ ~deleting
  /\ confirming' = FALSE /\ askedOn' = NoDoc
  /\ UNCHANGED <<stored, pageVars, dialogVars, deleting, deleteReq, gone>>

Delete ==
  /\ detailOpen /\ canDelete /\ confirming /\ ~deleting
  /\ deleting' = TRUE
  /\ deleteReq' = [id |-> selected, stage |-> "sent"]
  /\ UNCHANGED <<stored, pageVars, dialogVars, confirming, gone, askedOn>>

ServeDelete ==
  /\ deleteReq.stage = "sent" /\ deleteReq.id \in Known \cap Deletable
  /\ stored' = [stored EXCEPT ![deleteReq.id].status = "deleted"]
  /\ deleteReq' = [deleteReq EXCEPT !.stage = "served"]
  /\ UNCHANGED <<pageVars, dialogVars, confirming, deleting, gone, askedOn>>

Deleted(d) == Show(Restrict(documents, DOMAIN documents \ {d}))

(* Whatever dialog is open by then is closed.  A list that was answered    *)
(* before the deletion and arrives after it brings the document back.      *)
DeleteReply ==
  /\ deleteReq.stage = "served"
  /\ confirming' = FALSE /\ askedOn' = NoDoc
  /\ Closed
  /\ Deleted(deleteReq.id)
  /\ deleting' = FALSE /\ deleteReq' = NoDelete
  /\ gone' = gone \cup ({deleteReq.id} \ DOMAIN listReq.items)
  /\ UNCHANGED <<stored, scope, loading, error, listReq, selected, fetchState>>

DeleteFails ==
  /\ deleteReq.stage # "none"
  /\ deleting' = FALSE /\ deleteReq' = NoDelete
  /\ UNCHANGED <<stored, pageVars, dialogVars, confirming, gone, askedOn>>

-----------------------------------------------------------------------------
(* The two polling loops.                                                  *)

PageTick ==
  /\ CanTick(pageLoop)
  /\ pageLoop' = Tick(pageLoop)
  /\ UNCHANGED <<stored, scope, documents, loading, error, listReq, dialogVars, deleteVars>>

(* Variant: a document that is gone is answered for. *)
PagePollServed_Gone(d) ==
  /\ Awaits(pageLoop, d, {"sent"})
  /\ pageLoop' = Serve(pageLoop, d)
  /\ UNCHANGED <<stored, scope, documents, loading, error, listReq, dialogVars, deleteVars>>

PagePollServed(d) ==
  /\ Awaits(pageLoop, d, {"sent"}) /\ d \in Known
  /\ pageLoop' = Serve(pageLoop, d)
  /\ UNCHANGED <<stored, scope, documents, loading, error, listReq, dialogVars, deleteVars>>

PagePollReply(d) ==
  /\ Awaits(pageLoop, d, Statuses)
  /\ documents' = Updated(documents, d, pageLoop.round[d])
  /\ pageLoop' = Tracking(Settle(pageLoop, d), RunningIn(documents'))
  /\ UNCHANGED <<stored, scope, loading, error, listReq, dialogVars, deleteVars>>

PagePollFails(d) ==
  /\ Awaits(pageLoop, d, {"sent"})
  /\ pageLoop' = Settle(pageLoop, d)
  /\ UNCHANGED <<stored, scope, documents, loading, error, listReq, dialogVars, deleteVars>>

DialogTick ==
  /\ CanTick(dialogLoop)
  /\ dialogLoop' = Tick(dialogLoop)
  /\ UNCHANGED <<stored, pageVars, selected, detailOpen, fetchState, detailReq, deleteVars>>

DialogPollServed(d) ==
  /\ Awaits(dialogLoop, d, {"sent"}) /\ d \in Known
  /\ dialogLoop' = Serve(dialogLoop, d)
  /\ UNCHANGED <<stored, pageVars, selected, detailOpen, fetchState, detailReq, deleteVars>>

(* handlePolled: the dialog's copy, then the page's. *)
DialogPollReply(d) ==
  /\ Awaits(dialogLoop, d, Statuses)
  /\ fetchState' = IF fetchState.id = d
                   THEN [fetchState EXCEPT !.status = dialogLoop.round[d]] ELSE fetchState
  /\ dialogLoop' = Tracking(Settle(dialogLoop, d), DialogTracks(detailOpen, fetchState'))
  /\ Show(Updated(documents, d, dialogLoop.round[d]))
  /\ UNCHANGED <<stored, scope, loading, error, listReq, selected, detailOpen,
                 detailReq, deleteVars>>

DialogPollFails(d) ==
  /\ Awaits(dialogLoop, d, {"sent"})
  /\ dialogLoop' = Settle(dialogLoop, d)
  /\ UNCHANGED <<stored, pageVars, selected, detailOpen, fetchState, detailReq, deleteVars>>

-----------------------------------------------------------------------------
DocumentsNext ==
  \/ \E s \in Scopes : Tab(s)
  \/ \E d \in Docs : Open(d)
  \/ TryAgain \/ Close \/ DetailRetry \/ AskDelete \/ CancelDelete \/ Delete
  \/ ServeList \/ ListReply \/ ListFails
  \/ ServeDetail \/ DetailReply \/ DetailFails
  \/ ServeDelete \/ DeleteReply \/ DeleteFails
  \/ PageTick \/ DialogTick
  \/ \E d \in Docs : \/ PagePollServed(d) \/ PagePollReply(d) \/ PagePollFails(d)
                     \/ DialogPollServed(d) \/ DialogPollReply(d) \/ DialogPollFails(d)

-----------------------------------------------------------------------------
(* Properties.                                                             *)

DocumentsTypeOK ==
  /\ scope \in Scopes
  /\ DOMAIN documents \subseteq Docs /\ Range(documents) \subseteq Statuses
  /\ listReq.scope \in Scopes /\ listReq.stage \in {"none", "sent", "served"}
  /\ DOMAIN listReq.items \subseteq Docs /\ Range(listReq.items) \subseteq Statuses
  /\ {pageLoop, dialogLoop} \subseteq Loops
  /\ selected \in Docs \cup {NoDoc}
  /\ fetchState \in [key : Docs \cup {NoDoc}, id : Docs \cup {NoDoc},
                     status : Statuses \cup {"none"}, error : BOOLEAN]
  /\ detailReq \in [key : Docs \cup {NoDoc},
                    stage : {"none", "sent", "served"}, status : Statuses \cup {"none"}]
  /\ deleteReq \in [id : Docs \cup {NoDoc}, stage : {"none", "sent", "served"}]
  /\ {loading, error, detailOpen, confirming, deleting} \subseteq BOOLEAN
  /\ gone \subseteq Docs /\ askedOn \in Docs \cup {NoDoc}

(* Cards belong to the selected tab, whatever list was on its way when it  *)
(* was selected.                                                           *)
ShownInScope ==
  PageShows = "cards" => \A d \in DOMAIN documents : stored[d].scope = scope

(* Every skeleton and every busy button has a request behind it that will  *)
(* end it: no reply that is dropped, and no failure, leaves one behind.    *)
BusyIsBusy ==
  /\ loading => listReq.stage # "none" /\ listReq.scope = scope
  /\ DialogLoading => detailReq.stage # "none" /\ detailReq.key = selected
  /\ deleting <=> deleteReq.stage # "none"

(* What the dialog shows once its skeletons are gone is what was opened,   *)
(* though requests for others may have been on their way.                  *)
DetailBelongs == detailOpen /\ DialogShows = "detail" => fetchState.id = selected

(* A confirmation does not outlive the dialog it was asked in: the next    *)
(* document that is opened is not one click from its deletion.             *)
AskedHere == confirming => detailOpen /\ askedOn = selected

(* A document whose deletion the page was told of is not shown again.      *)
DeletedStaysGone == gone \cap DOMAIN documents = {}

(* Cards are of the selected tab, and of documents that are not known to   *)
(* be deleted, in whatever order lists, polls and deletions are answered.  *)
CardsAreTrue == ShownInScope /\ DeletedStaysGone

(* What the dialog shows and asks is about the document it was opened for. *)
DialogIsOfSelected == DetailBelongs /\ AskedHere

(* A page does not take a status back by its own polls: a reply that was   *)
(* on its way when something newer was shown is dropped.  A list asked for *)
(* earlier, or a poll of the dialog, may take it back for a round.         *)
PollKeepsEnd ==
  [][\A d \in DOMAIN documents \cap DOMAIN documents' :
       documents[d] = "ended" /\ documents'[d] = "running"
         => listReq' # listReq \/ dialogLoop' # dialogLoop]_<<stored, documentsVars>>

(* document-detail-dialog.tsx:371: "Delete “{doc.title}”?".                *)
DeletesNamed ==
  [][deleteReq.stage = "none" /\ deleteReq'.stage = "sent" => deleteReq'.id = doc]_<<stored, documentsVars>>
=============================================================================
