-------------------------------- MODULE Files --------------------------------
(***************************************************************************)
(* The upload page and the documents page over the same documents.  One of *)
(* them is mounted at a time; leaving a page drops its state and cancels   *)
(* what its effects await, but not an upload loop that has been started.   *)
(***************************************************************************)
EXTENDS UploadPage, DocumentsPage

VARIABLE page   \* the route

filesVars == <<stored, page, uploadVars, documentsVars>>

Init ==
  /\ stored = <<>>
  /\ page = "upload"
  /\ UploadInit /\ DocumentsInit

(* The link to the other page.  Both pages start from their first state.   *)
Visit ==
  \/ /\ page = "upload" /\ page' = "documents"
     /\ UploadLeft
     /\ UNCHANGED documentsVars
  \/ /\ page = "documents" /\ page' = "upload"
     /\ scope' = "personal" /\ documents' = <<>> /\ loading' = TRUE /\ error' = FALSE
     /\ listReq' = ListFor("personal") /\ pageLoop' = NewLoop({})
     /\ selected' = NoDoc /\ detailOpen' = FALSE
     /\ fetchState' = NoDetail
     /\ detailReq' = NoFetch /\ dialogLoop' = NewLoop({})
     /\ confirming' = FALSE /\ deleting' = FALSE /\ deleteReq' = NoDelete
     /\ gone' = {} /\ askedOn' = NoDoc
     /\ UNCHANGED <<stored, uploadVars>>

Next ==
  \/ Visit
  \/ /\ UNCHANGED page
     /\ \/ page = "upload" /\ UploadNext /\ UNCHANGED documentsVars
        \/ page = "documents" /\ DocumentsNext /\ UNCHANGED uploadVars
        \/ UploadLoop /\ UNCHANGED documentsVars
        \/ \E d \in Docs : Ingest(d) /\ UNCHANGED <<uploadVars, documentsVars>>

Spec == Init /\ [][Next]_filesVars

-----------------------------------------------------------------------------
TypeOK ==
  /\ page \in {"upload", "documents"}
  /\ UploadTypeOK /\ DocumentsTypeOK

(* Whatever is shown as running, on either page or in the dialog, is       *)
(* followed: a loop that tracks it waits for the next round or for its     *)
(* replies, however many polls have failed and whatever was added to or    *)
(* taken from what is shown meanwhile.                                     *)
PollsWhatRuns ==
  /\ uploadLoop.tracked = RunningIn(pipeline)
  /\ pageLoop.tracked = RunningIn(documents)
  /\ dialogLoop.tracked = DialogTracks(detailOpen, fetchState)

(* Nothing is abandoned: what is shown as loading, busy or running has a   *)
(* request or a loop behind it, whatever failed or was cancelled.          *)
NothingAbandoned == BusyIsBusy /\ PollsWhatRuns
=============================================================================
