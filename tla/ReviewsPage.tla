----------------------------- MODULE ReviewsPage -----------------------------
(***************************************************************************)
(* The review queue (app/(app)/reviews/page.tsx): a list, the detail       *)
(* dialog, and the decision dialog.  A document is taken from the queue    *)
(* when its decision is sent and put back when that fails.                 *)
(***************************************************************************)
EXTENDS Session

VARIABLE reviews   \* the page, as long as it is mounted

NoRequest == [op |-> "decide", doc |-> NoDoc, decision |-> "approved", noted |-> FALSE]

(* "target" is decisionTarget; "noted" whether the note has text; the      *)
(* request that is sent is in "submitted" and its stage in "submit".       *)
ReviewsOff ==
  [queue |-> <<>>, loading |-> FALSE, forbidden |-> FALSE, error |-> FALSE,
   stage |-> "none", items |-> <<>>, detail |-> NoDoc, deleting |-> NoDoc,
   target |-> NoDoc, decision |-> "approved", noted |-> FALSE,
   submit |-> "none", submitted |-> NoRequest,
   loaded |-> {}, decided |-> {}]    \* history: in the last list; decided since

ReviewsMount == [ReviewsOff EXCEPT !.loading = TRUE, !.stage = "sent"]

OnReviews  == InApp /\ route = "reviews"
submitting == reviews.submit # "none"

(* Nothing else can be clicked under a dialog. *)
Dialogs   == reviews.detail # NoDoc \/ reviews.target # NoDoc
ShowsCard(d) ==
  /\ ~reviews.loading /\ ~reviews.forbidden /\ ~reviews.error
  /\ d \in Range(reviews.queue) /\ ~Dialogs

noteRequired == reviews.decision = "rejected" /\ ~reviews.noted

Unchanged == UNCHANGED <<agency, sessionVars>>

-----------------------------------------------------------------------------
(* The list. *)

ServeQueue ==
  /\ OnReviews /\ reviews.stage = "sent" /\ cookie # NoUser
  /\ reviews' = [reviews EXCEPT !.stage = "served",
                                !.items = Listed(PendingFor(cookie))]
  /\ Unchanged

QueueReply ==
  /\ reviews.stage = "served"
  /\ reviews' = [reviews EXCEPT !.stage = "none", !.items = <<>>, !.loading = FALSE,
                   !.queue = reviews.items, !.loaded = Range(reviews.items), !.decided = {}]
  /\ Unchanged

QueueFails ==
  /\ OnReviews /\ reviews.stage = "sent"
  /\ \/ /\ cookie # NoUser /\ MayBeRefused(cookie)
        /\ reviews' = [reviews EXCEPT !.stage = "none", !.loading = FALSE, !.forbidden = TRUE]
     \/ reviews' = [reviews EXCEPT !.stage = "none", !.loading = FALSE, !.error = TRUE]
  /\ Unchanged

TryAgain ==
  /\ OnReviews /\ ~reviews.loading /\ ~reviews.forbidden /\ reviews.error
  /\ reviews' = [reviews EXCEPT !.error = FALSE, !.loading = TRUE, !.stage = "sent"]
  /\ Unchanged

-----------------------------------------------------------------------------
(* The dialogs. *)

OpenDetail(d) ==
  /\ OnReviews /\ ShowsCard(d)
  /\ reviews' = [reviews EXCEPT !.detail = d]
  /\ Unchanged

CloseDetail ==
  /\ reviews.detail # NoDoc
  /\ reviews' = [reviews EXCEPT !.detail = NoDoc]
  /\ Unchanged

Delete(d) ==
  /\ reviews.detail = d /\ d # NoDoc /\ MayDelete(user, d) /\ reviews.deleting = NoDoc
  /\ reviews' = [reviews EXCEPT !.deleting = d]
  /\ Unchanged

(* Whatever detail is shown by then is closed.  The page does not ask to   *)
(* be told (onDeleted): the document stays in the queue.                   *)
DeleteReply ==
  LET r == [op |-> "delete", doc |-> reviews.deleting]
  IN  /\ reviews.deleting # NoDoc
      /\ Accepted(r, cookie) /\ Apply(r)
      /\ reviews' = [reviews EXCEPT !.detail = NoDoc, !.deleting = NoDoc]
      /\ UNCHANGED <<orphans, sessionVars>>

DeleteFails ==
  /\ reviews.deleting # NoDoc
  /\ reviews' = [reviews EXCEPT !.deleting = NoDoc]
  /\ Unchanged

OpenDecision(d, planned) ==
  /\ OnReviews /\ ShowsCard(d)
  /\ reviews' = [reviews EXCEPT !.target = d, !.decision = planned, !.noted = FALSE]
  /\ Unchanged

(* The note stays editable, sent or not; that of an approval is optional   *)
(* and left out.                                                           *)
EditNote ==
  /\ reviews.target # NoDoc /\ reviews.decision = "rejected"
  /\ reviews' = [reviews EXCEPT !.noted = ~reviews.noted]
  /\ Unchanged

(* Variant: the dialog can be closed under its own request. *)
CloseDecision_Always ==
  /\ reviews.target # NoDoc
  /\ reviews' = [reviews EXCEPT !.target = NoDoc]
  /\ Unchanged

CloseDecision ==
  /\ reviews.target # NoDoc /\ ~submitting
  /\ reviews' = [reviews EXCEPT !.target = NoDoc]
  /\ Unchanged

-----------------------------------------------------------------------------
(* submitDecision. *)

Submitted ==
  [NoRequest EXCEPT !.doc = reviews.target, !.decision = reviews.decision, !.noted = reviews.noted]

SubmitDecision ==
  /\ reviews.target # NoDoc /\ ~submitting /\ ~noteRequired
  /\ reviews' = [reviews EXCEPT !.submit = "sent", !.submitted = Submitted,
                   !.queue = Dropped(@, reviews.target)]
  /\ Unchanged

ServeDecision ==
  /\ reviews.submit = "sent" /\ Accepted(reviews.submitted, cookie)
  /\ Apply(reviews.submitted)
  /\ reviews' = [reviews EXCEPT !.submit = "recorded"]
  /\ UNCHANGED <<orphans, sessionVars>>

DecisionReply ==
  /\ reviews.submit = "recorded"
  /\ reviews' = [reviews EXCEPT !.submit = "none", !.submitted = NoRequest, !.target = NoDoc,
                   !.detail  = IF @ = reviews.submitted.doc THEN NoDoc ELSE @,
                   !.decided = @ \cup {reviews.submitted.doc}]
  /\ Unchanged

(* Variant: what was taken from the queue is not put back. *)
Restored_Not(queue, d) == queue

(* Newest first. *)
Restored(queue, d) == Sorted(<<d>> \o queue)

(* Refused, or the answer is lost. *)
DecisionFails ==
  /\ submitting
  /\ reviews' = [reviews EXCEPT !.submit = "none", !.submitted = NoRequest,
                   !.queue = Restored(@, reviews.submitted.doc)]
  /\ Unchanged

ReviewsNext ==
  \/ ServeQueue \/ QueueReply \/ QueueFails \/ TryAgain
  \/ \E d \in Docs : OpenDetail(d) \/ Delete(d) \/ \E x \in Decisions : OpenDecision(d, x)
  \/ CloseDetail \/ DeleteReply \/ DeleteFails
  \/ EditNote \/ CloseDecision
  \/ SubmitDecision \/ ServeDecision \/ DecisionReply \/ DecisionFails

-----------------------------------------------------------------------------
ReviewsTypeOK ==
  /\ Range(reviews.queue) \cup Range(reviews.items) \subseteq Docs
  /\ {reviews.loading, reviews.forbidden, reviews.error, reviews.noted} \subseteq BOOLEAN
  /\ reviews.stage \in {"none", "sent", "served"}
  /\ reviews.submit \in {"none", "sent", "recorded"}
  /\ {reviews.detail, reviews.deleting, reviews.target, reviews.submitted.doc} \subseteq Docs \cup {NoDoc}
  /\ {reviews.decision, reviews.submitted.decision} \subseteq Decisions

(* Of the documents the list had, each is in the queue once, but the one   *)
(* whose decision is on its way and those decided since: a failed decision *)
(* neither loses a document nor doubles it.                                *)
QueueKeepsLoaded ==
  \A d \in reviews.loaded :
    Cardinality({i \in DOMAIN reviews.queue : reviews.queue[i] = d})
      = IF d \in reviews.decided \/ (submitting /\ d = reviews.submitted.doc) THEN 0 ELSE 1

(* The decision that is on its way is that of the dialog that is open, so  *)
(* its answer closes that dialog and no other; and no rejection is sent    *)
(* without a note, though the note can be edited all the time.             *)
DecidedAsShown ==
  submitting =>
    /\ reviews.submitted.doc = reviews.target /\ reviews.submitted.decision = reviews.decision
    /\ reviews.submitted.decision = "rejected" => reviews.submitted.noted
=============================================================================
