----------------------------- MODULE UploadPage -----------------------------
(***************************************************************************)
(* The upload page (app/(app)/upload/page.tsx).  Files are configured and  *)
(* then uploaded one after the other, from a snapshot taken at the click;  *)
(* the loop that does so is not part of the page's state and goes on when  *)
(* the page is left.  Accepted documents are followed until they are       *)
(* dismissed.                                                              *)
(***************************************************************************)
EXTENDS DocumentPolling

CONSTANTS
  MaxVisits,   \* bound on the times the page is mounted
  MaxFiles,    \* bound on the files added in a visit, counted by keyCounter
  MaxEdits,    \* bound on the changes made to their settings
  IsAdmin,     \* whether the user may upload to the library
  Keyed        \* the providers, other than demo, that the server has a key for

ASSUME UploadAssumption ==
  /\ MaxVisits \in Nat \ {0} /\ MaxFiles \in Nat /\ MaxEdits \in Nat
  /\ IsAdmin \in BOOLEAN /\ Keyed \subseteq {"gemini"}

Visits    == 1..MaxVisits
Keys      == 1..MaxFiles
Providers == {"gemini", "demo"}
NoTopic   == "no_topic"
Topics    == {"a_topic"}

VARIABLES
  health,        \* HealthProvider: "pending", for ever if it fails, or "known"
  visit,         \* the mount of the page that is or was last shown
  items,         \* the files to upload, by their keys
  keyCounter, edits,
  pipeline,      \* the accepted documents (documents, in the code), with their statuses
  uploading,
  topicsStatus, topicsReq,
  uploadLoop,    \* the polling loop of the page
  batches,       \* the upload loops, one per visit
  lateEdits      \* history: files changed or removed while they waited in the loop

formVars    == <<items, keyCounter, edits, lateEdits>>
topicsVars  == <<topicsStatus, topicsReq>>
followVars  == <<pipeline, uploadLoop>>
batchVars   == <<uploading, batches>>
uploadVars  == <<health, visit, formVars, topicsVars, followVars, batchVars>>

NoBatch == [queue |-> <<>>, sending |-> <<>>, stage |-> "none", doc |-> NoDoc]

(* A page that has just been mounted. *)
Fresh ==
  [items |-> <<>>, pipeline |-> <<>>, loop |-> NewLoop({}),
   topicsReq |-> IF IsAdmin THEN "sent" ELSE "none"]

UploadInit ==
  /\ health = "pending"
  /\ visit = 1
  /\ items = Fresh.items /\ keyCounter = 0 /\ edits = 0 /\ lateEdits = {}
  /\ pipeline = Fresh.pipeline /\ uploadLoop = Fresh.loop
  /\ uploading = FALSE /\ batches = [v \in Visits |-> NoBatch]
  /\ topicsStatus = "loading" /\ topicsReq = Fresh.topicsReq

-----------------------------------------------------------------------------
(* Health and topics, each asked for by an effect.                         *)

Available(p) == p = "demo" \/ (health = "known" /\ p \in Keyed)

defaultProvider == IF Available("gemini") THEN "gemini" ELSE "demo"

HealthReply ==
  /\ health = "pending"
  /\ health' = "known"
  /\ UNCHANGED <<stored, visit, formVars, topicsVars, followVars, batchVars>>

TopicsReply ==
  /\ topicsReq = "sent" /\ topicsReq' = "none"
  /\ topicsStatus' \in {"ready", "error"}
  /\ UNCHANGED <<stored, health, visit, formVars, followVars, batchVars>>

TopicsRetry ==
  /\ topicsStatus = "error" /\ topicsReq' = "sent"
  /\ \E k \in DOMAIN items : items[k].scope = "library"
  /\ UNCHANGED <<stored, health, visit, formVars, topicsStatus, followVars, batchVars>>

-----------------------------------------------------------------------------
(* The files.                                                              *)

Item(valid) ==
  [scope |-> "personal", topicId |-> NoTopic, provider |-> defaultProvider,
   error |-> ~valid, uploading |-> FALSE]

AddFile(valid) ==
  /\ keyCounter < MaxFiles
  /\ keyCounter' = keyCounter + 1
  /\ items' = Plus(items, keyCounter', Item(valid))
  /\ UNCHANGED <<stored, health, visit, edits, lateEdits, topicsVars, followVars, batchVars>>

Waiting(k) == \E i \in DOMAIN batches[visit].queue : batches[visit].queue[i].key = k

(* The scopes and providers that can be chosen for a file. *)
Settings(item) ==
  {[item EXCEPT !.provider = p] : p \in {p \in Providers : Available(p)}}
    \cup {[item EXCEPT !.scope = s] : s \in {"personal"} \cup (IF IsAdmin THEN {"library"} ELSE {})}

(* Variant: a file that is being sent can be changed. *)
Editable_Always(k) == k \in DOMAIN items

Editable(k) == k \in DOMAIN items /\ ~items[k].uploading

(* A change made while the file waits is late. *)
Changed(k, now) ==
  /\ items' = now
  /\ lateEdits' = IF Waiting(k) THEN lateEdits \cup {k} ELSE lateEdits
  /\ UNCHANGED <<stored, health, visit, keyCounter, topicsVars, followVars, batchVars>>

Edit(k) ==
  /\ Editable(k) /\ edits < MaxEdits /\ edits' = edits + 1
  /\ \E choice \in Settings(items[k]) \ {items[k]} : Changed(k, [items EXCEPT ![k] = choice])

ChooseTopic(k) ==
  /\ Editable(k) /\ items[k].scope = "library" /\ topicsStatus = "ready"
  /\ \E t \in Topics \ {items[k].topicId} : Changed(k, [items EXCEPT ![k].topicId = t])
  /\ UNCHANGED edits

Without(k) == Restrict(items, DOMAIN items \ {k})

RemoveItem(k) ==
  /\ Editable(k)
  /\ Changed(k, Without(k))
  /\ UNCHANGED edits

ClearAll ==
  /\ items # <<>> /\ ~uploading
  /\ items' = <<>>
  /\ UNCHANGED <<stored, health, visit, keyCounter, edits, lateEdits, topicsVars, followVars,
                 batchVars>>

-----------------------------------------------------------------------------
(* The upload loop.                                                        *)

Effective(item) ==
  IF health = "known" /\ ~Available(item.provider) THEN [item EXCEPT !.provider = "demo"] ELSE item

(* What is sent of a file. *)
Snapshot(k, item) ==
  [key |-> k, scope |-> item.scope, provider |-> item.provider,
   topicId |-> IF item.scope = "library" THEN item.topicId ELSE NoTopic]

validItems == {k \in DOMAIN items : ~items[k].error}

(* The next file of the loop of visit v is sent, with the items as they    *)
(* are by then, or the loop ends.  Only the page that started the loop     *)
(* has its items and its button changed by it.                             *)
Advance(v, queue, now) ==
  LET here == v = visit
  IN  IF queue = <<>>
      THEN /\ batches' = [batches EXCEPT ![v] = NoBatch]
           /\ uploading' = (uploading /\ ~here)
           /\ items' = now
      ELSE /\ batches' = [batches EXCEPT
                 ![v] = [queue |-> Tail(queue), sending |-> Head(queue), stage |-> "sent", doc |-> NoDoc]]
           /\ uploading' = (uploading \/ here)
           /\ items' = IF here /\ Head(queue).key \in DOMAIN now
                       THEN [now EXCEPT ![Head(queue).key].uploading = TRUE] ELSE now

Upload ==
  /\ ~uploading /\ validItems # {}
  /\ LET order == Listed(validItems)
     IN  Advance(visit, [i \in DOMAIN order |-> Snapshot(order[i], Effective(items[order[i]]))], items)
  /\ UNCHANGED <<stored, health, visit, keyCounter, edits, lateEdits, topicsVars, followVars>>

(* The server stores the document before it answers; one for the library   *)
(* needs a topic.                                                          *)
ServeUpload(v) ==
  /\ batches[v].stage = "sent" /\ Len(stored) < MaxDocs
  /\ batches[v].sending.scope = "library" => batches[v].sending.topicId # NoTopic
  /\ stored' = Append(stored, [scope  |-> batches[v].sending.scope, status |-> "running",
                               file |-> <<v, batches[v].sending.key>>])
  /\ batches' = [batches EXCEPT ![v].stage = "accepted", ![v].doc = Len(stored')]
  /\ UNCHANGED <<health, visit, formVars, topicsVars, followVars, uploading>>

Follow(shown) == pipeline' = shown /\ uploadLoop' = Tracking(uploadLoop, RunningIn(shown))

UploadReply(v) ==
  /\ batches[v].stage = "accepted"
  /\ IF v = visit
     THEN /\ Follow(Plus(pipeline, batches[v].doc, "running"))
          /\ Advance(v, batches[v].queue, Without(batches[v].sending.key))
     ELSE /\ Advance(v, batches[v].queue, items)
          /\ UNCHANGED followVars
  /\ UNCHANGED <<stored, health, visit, keyCounter, edits, lateEdits, topicsVars>>

(* Variant: a file that failed can be sent again. *)
Refused_Retriable(k) ==
  [e \in DOMAIN items |-> IF e = k THEN [items[e] EXCEPT !.uploading = FALSE] ELSE items[e]]

Refused(k) ==
  [e \in DOMAIN items |->
     IF e = k THEN [items[e] EXCEPT !.uploading = FALSE, !.error = TRUE] ELSE items[e]]

(* The upload is refused, or its answer is lost. *)
UploadFails(v) ==
  /\ batches[v].stage # "none"
  /\ Advance(v, batches[v].queue, IF v = visit THEN Refused(batches[v].sending.key) ELSE items)
  /\ UNCHANGED <<stored, health, visit, keyCounter, edits, lateEdits, topicsVars, followVars>>

-----------------------------------------------------------------------------
(* The accepted documents.                                                 *)

PipelineCards == DOMAIN pipeline

Dismiss(d) ==
  /\ d \in PipelineCards
  /\ Follow(Restrict(pipeline, DOMAIN pipeline \ {d}))
  /\ UNCHANGED <<stored, health, visit, formVars, topicsVars, batchVars>>

UploadTick ==
  /\ CanTick(uploadLoop)
  /\ uploadLoop' = Tick(uploadLoop)
  /\ UNCHANGED <<stored, health, visit, formVars, topicsVars, pipeline, batchVars>>

UploadPollServed(d) ==
  /\ Awaits(uploadLoop, d, {"sent"}) /\ d \in Known
  /\ uploadLoop' = Serve(uploadLoop, d)
  /\ UNCHANGED <<stored, health, visit, formVars, topicsVars, pipeline, batchVars>>

UploadPollReply(d) ==
  /\ Awaits(uploadLoop, d, Statuses)
  /\ pipeline' = Updated(pipeline, d, uploadLoop.round[d])
  /\ uploadLoop' = Tracking(Settle(uploadLoop, d), RunningIn(pipeline'))
  /\ UNCHANGED <<stored, health, visit, formVars, topicsVars, batchVars>>

UploadPollFails(d) ==
  /\ Awaits(uploadLoop, d, {"sent"})
  /\ uploadLoop' = Settle(uploadLoop, d)
  /\ UNCHANGED <<stored, health, visit, formVars, topicsVars, pipeline, batchVars>>

-----------------------------------------------------------------------------
UploadNext ==
  \/ TopicsReply \/ TopicsRetry
  \/ \E valid \in BOOLEAN : AddFile(valid)
  \/ \E k \in Keys : Edit(k) \/ ChooseTopic(k) \/ RemoveItem(k)
  \/ ClearAll \/ Upload
  \/ UploadTick
  \/ \E d \in Docs : Dismiss(d) \/ UploadPollServed(d) \/ UploadPollReply(d) \/ UploadPollFails(d)

(* What goes on whatever page is shown. *)
UploadLoop ==
  \/ HealthReply
  \/ \E v \in Visits : ServeUpload(v) \/ UploadReply(v) \/ UploadFails(v)

(* The page is left: its state is lost, what it awaits is cancelled, and   *)
(* its upload loop is on its own.  The state is that of the next mount.    *)
UploadLeft ==
  /\ visit < MaxVisits /\ visit' = visit + 1
  /\ items' = Fresh.items /\ keyCounter' = 0 /\ edits' = 0 /\ lateEdits' = {}
  /\ pipeline' = Fresh.pipeline /\ uploadLoop' = Fresh.loop
  /\ uploading' = FALSE
  /\ topicsStatus' = "loading" /\ topicsReq' = Fresh.topicsReq
  /\ UNCHANGED <<stored, health, batches>>

-----------------------------------------------------------------------------
(* Properties.                                                             *)

Items == [scope : {"personal", "library"}, topicId : Topics \cup {NoTopic}, provider : Providers,
          error : BOOLEAN, uploading : BOOLEAN]

UploadTypeOK ==
  /\ health \in {"pending", "known"} /\ visit \in Visits
  /\ DOMAIN items \subseteq Keys /\ Range(items) \subseteq Items
  /\ keyCounter \in 0..MaxFiles /\ edits \in 0..MaxEdits /\ lateEdits \subseteq Keys
  /\ DOMAIN pipeline \subseteq Docs /\ Range(pipeline) \subseteq Statuses
  /\ uploadLoop \in Loops /\ uploading \in BOOLEAN
  /\ topicsStatus \in {"loading", "ready", "error"} /\ topicsReq \in {"none", "sent"}
  /\ \A v \in Visits : batches[v].stage \in {"none", "sent", "accepted"}

(* No file becomes two documents, though an upload whose answer was lost   *)
(* looks like one that was refused, and though its item stays in the list. *)
OneDocumentPerFile ==
  \A d, e \in Created : stored[d].file = stored[e].file => d = e

(* Nothing is embedded by a provider that the server has not said it has a *)
(* key for, whenever its answer arrives.                                   *)
ProviderHasKey ==
  \A v \in Visits :
    batches[v].stage # "none" => batches[v].sending.provider \in {"demo"} \cup (IF health = "known" THEN Keyed ELSE {})

(* The file that is being sent is the one marked so, the button is busy as *)
(* long as the loop of this page runs, and what is sent is what its item   *)
(* shows: only a change made while the file waited in the loop is not sent *)
(* (page.tsx:151 takes the items as they were at the click).               *)
SentAsShown ==
  LET b == batches[visit]
  IN  /\ uploading <=> b.stage # "none"
      /\ \A k \in DOMAIN items : items[k].uploading =>
           /\ b.stage # "none" /\ b.sending.key = k
           /\ b.sending = Snapshot(k, Effective(items[k])) \/ k \in lateEdits
      /\ b.stage # "none" => b.sending.key \in DOMAIN items \cup lateEdits
      /\ ProviderHasKey
=============================================================================
