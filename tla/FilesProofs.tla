----------------------------- MODULE FilesProofs -----------------------------
(***************************************************************************)
(* What the upload page and the documents page keep true, for any number   *)
(* of documents, visits, files and changes.                                *)
(***************************************************************************)
EXTENDS Files, OrderingProofs

(* A function of some of the members of S to members of T. *)
Partial(f, S, T) == DOMAIN f \subseteq S /\ f \in [DOMAIN f -> T]

(* A document that was created keeps its scope and its file, and once it   *)
(* is deleted it stays so.                                                 *)
Rows == [scope : Scopes, status : Statuses \cup {"deleted"}, file : Visits \X Keys]

StoredInv == stored \in Seq(Rows) /\ Len(stored) <= MaxDocs

(* A loop awaits replies for documents that it tracks.                     *)
LoopInv(loop, ids) ==
  loop \in Loops /\ loop.tracked = ids /\ Awaiting(loop) \subseteq ids

-----------------------------------------------------------------------------
(* The upload page.                                                        *)

Snapshots ==
  [key : Keys, scope : Scopes, provider : Providers, topicId : Topics \cup {NoTopic}]

Batches ==
  [queue : Seq(Snapshots), sending : Snapshots \cup {<<>>}, stage : {"none", "sent", "accepted"},
   doc : Docs \cup {NoDoc}]

UploadShape ==
  /\ health \in {"pending", "known"} /\ visit \in Visits
  /\ keyCounter \in 0..MaxFiles /\ edits \in 0..MaxEdits /\ lateEdits \subseteq Keys
  /\ Partial(items, 1..keyCounter, Items)
  /\ uploading \in BOOLEAN
  /\ topicsStatus \in {"loading", "ready", "error"} /\ topicsReq \in {"none", "sent"}
  /\ batches \in [Visits -> Batches]

FollowInv ==
  Partial(pipeline, Docs, Statuses) /\ LoopInv(uploadLoop, RunningIn(pipeline))

Queued(v) == {batches[v].queue[i].key : i \in DOMAIN batches[v].queue}

(* The file that a loop sends and those it will send are different, and    *)
(* none of them is a document yet but the one that is being answered for.  *)
BatchInv(v) ==
  LET b == batches[v]
  IN  /\ b.stage = "none" => b = NoBatch
      /\ b.stage # "none" => b.sending \in Snapshots /\ b.sending.key \notin Queued(v)
      /\ b.stage = "accepted" => b.doc \in Docs
      /\ \A i, j \in DOMAIN b.queue : b.queue[i].key = b.queue[j].key => i = j
      /\ b.stage # "none" => Available(b.sending.provider)
      /\ \A i \in DOMAIN b.queue : Available(b.queue[i].provider)
      /\ \A d \in Created : stored[d].file[1] = v =>
           /\ stored[d].file[2] \notin Queued(v)
           /\ b.stage = "sent" => stored[d].file[2] # b.sending.key

(* The loops of the visits to come have not started.                       *)
LaterInv ==
  /\ \A v \in Visits : v > visit => batches[v] = NoBatch
  /\ \A d \in Created : stored[d].file[1] <= visit

(* The items, against the loop of their visit.                             *)
ItemsInv ==
  LET b == batches[visit]
  IN  /\ uploading <=> b.stage # "none"
      /\ \A k \in DOMAIN items : Available(items[k].provider)
      /\ \A k \in DOMAIN items : items[k].uploading => b.stage # "none" /\ b.sending.key = k
      /\ b.stage # "none" /\ b.sending.key \in DOMAIN items => items[b.sending.key].uploading
      /\ b.stage # "none" => b.sending.key \in DOMAIN items \cup lateEdits
      /\ b.stage # "none" /\ b.sending.key \in DOMAIN items \ lateEdits
           => b.sending = Snapshot(b.sending.key, items[b.sending.key])
      /\ \A i \in DOMAIN b.queue :
           /\ b.queue[i].key \in 1..keyCounter
           /\ b.queue[i].key \in DOMAIN items \cup lateEdits
           /\ b.queue[i].key \in DOMAIN items \ lateEdits
                => b.queue[i] = Snapshot(b.queue[i].key, items[b.queue[i].key])
      /\ b.stage # "none" => b.sending.key \in 1..keyCounter
      /\ \A d \in Created : stored[d].file[1] = visit =>
           /\ stored[d].file[2] \in 1..keyCounter
           /\ stored[d].file[2] \in DOMAIN items =>
                \/ items[stored[d].file[2]].error
                \/ b.stage = "accepted" /\ b.sending.key = stored[d].file[2]

UploadInv ==
  /\ UploadShape /\ FollowInv
  /\ \A v \in Visits : BatchInv(v)
  /\ LaterInv
  /\ ItemsInv
  /\ OneDocumentPerFile

-----------------------------------------------------------------------------
(* The documents page.                                                     *)

Details ==
  [key : Docs \cup {NoDoc}, id : Docs \cup {NoDoc}, status : Statuses \cup {"none"}, error : BOOLEAN]

PageShape ==
  /\ scope \in Scopes
  /\ Partial(documents, Created, Statuses)
  /\ listReq \in [scope : Scopes, stage : {"none", "sent", "served"}, items : {listReq.items}]
  /\ Partial(listReq.items, Created, Statuses)
  /\ LoopInv(pageLoop, RunningIn(documents))
  /\ loading \in BOOLEAN /\ error \in BOOLEAN
  /\ gone \subseteq Created

DialogShape ==
  /\ LoopInv(dialogLoop, DialogTracks(detailOpen, fetchState))
  /\ selected \in Docs \cup {NoDoc}
  /\ fetchState \in Details
  /\ detailReq \in [key : Docs \cup {NoDoc}, stage : {"none", "sent", "served"},
                    status : Statuses \cup {"none"}]
  /\ deleteReq \in [id : Docs \cup {NoDoc}, stage : {"none", "sent", "served"}]
  /\ detailOpen \in BOOLEAN /\ confirming \in BOOLEAN /\ deleting \in BOOLEAN
  /\ askedOn \in Docs \cup {NoDoc}

(* A list on its way is for the tab that is shown, and has none of the     *)
(* documents that the page knows to be deleted.                            *)
ListsInv ==
  /\ loading => listReq.stage # "none"
  /\ listReq.stage = "none" => listReq = NoList
  /\ listReq.stage # "none" => listReq.scope = scope
  /\ \A d \in DOMAIN listReq.items : stored[d].scope = listReq.scope
  /\ ~loading /\ ~error => \A d \in DOMAIN documents : stored[d].scope = scope
  /\ \A d \in gone : stored[d].status = "deleted"
  /\ gone \cap (DOMAIN documents \cup DOMAIN listReq.items) = {}
  /\ deleteReq.stage = "served" => deleteReq.id \in Created /\ stored[deleteReq.id].status = "deleted"

(* A request of the dialog is for the document it is open for.             *)
RequestsInv ==
  /\ detailOpen => selected # NoDoc
  /\ detailReq.stage # "none" => detailOpen /\ detailReq.key = selected
  /\ detailReq.stage = "served" => detailReq.status \in Statuses
  /\ DialogLoading => detailReq.stage # "none"
  /\ fetchState.key # NoDoc /\ ~fetchState.error => fetchState.id = fetchState.key
  /\ fetchState.status # "none" => fetchState.id # NoDoc
  /\ confirming => detailOpen /\ askedOn = selected
  /\ deleting <=> deleteReq.stage # "none"

PageInv == PageShape /\ ListsInv

DialogInv == DialogShape /\ RequestsInv

DocumentsInv == PageInv /\ DialogInv

IInv == StoredInv /\ page \in {"upload", "documents"} /\ UploadInv /\ DocumentsInv

-----------------------------------------------------------------------------
(* Partial functions and polling loops.                                    *)

LEMMA NothingPartial == ASSUME NEW S, NEW T PROVE Partial(<<>>, S, T) /\ DOMAIN <<>> = {}
BY DEF Partial

LEMMA RestrictPartial ==
  ASSUME NEW S, NEW T, NEW f, Partial(f, S, T), NEW R, R \subseteq DOMAIN f
  PROVE  /\ Partial(Restrict(f, R), S, T) /\ DOMAIN Restrict(f, R) = R
         /\ \A x \in R : Restrict(f, R)[x] = f[x]
BY DEF Partial, Restrict

LEMMA PlusPartial ==
  ASSUME NEW S, NEW T, NEW f, Partial(f, S, T), NEW x \in S, NEW v \in T
  PROVE  /\ Partial(Plus(f, x, v), S, T) /\ DOMAIN Plus(f, x, v) = DOMAIN f \cup {x}
         /\ \A y \in DOMAIN f : Plus(f, x, v)[y] = f[y]
         /\ x \notin DOMAIN f => Plus(f, x, v)[x] = v
BY DEF Partial, Plus

LEMMA UpdatedPartial ==
  ASSUME NEW S, NEW T, NEW f, Partial(f, S, T), NEW d, NEW v \in T
  PROVE  /\ Partial(Updated(f, d, v), S, T) /\ DOMAIN Updated(f, d, v) = DOMAIN f
         /\ \A x \in DOMAIN f : Updated(f, d, v)[x] = IF x = d THEN v ELSE f[x]
BY DEF Partial, Updated

LEMMA LoopsAre ==
  ASSUME NEW ids, ids \subseteq Docs, NEW r, DOMAIN r \subseteq ids,
         r \in [DOMAIN r -> Statuses \cup {"sent"}]
  PROVE  LoopInv([tracked |-> ids, round |-> r], ids)
<1>1. DOMAIN r \in SUBSET Docs
  OBVIOUS
<1>2. r \in UNION {[S -> Statuses \cup {"sent"}] : S \in SUBSET Docs}
  BY <1>1
<1> QED BY <1>2 DEF LoopInv, Loops, Awaiting

LEMMA LoopIs ==
  ASSUME NEW loop, NEW ids, LoopInv(loop, ids)
  PROVE  /\ ids \subseteq Docs /\ loop = [tracked |-> ids, round |-> loop.round]
         /\ DOMAIN loop.round \subseteq ids
         /\ loop.round \in [DOMAIN loop.round -> Statuses \cup {"sent"}]
BY DEF LoopInv, Loops, Awaiting

LEMMA NewLoopIs == ASSUME NEW ids, ids \subseteq Docs PROVE LoopInv(NewLoop(ids), ids)
<1>1. Partial(<<>>, ids, Statuses \cup {"sent"})
  BY NothingPartial
<1> QED BY <1>1, LoopsAre DEF NewLoop, Partial

LEMMA TrackingIs ==
  ASSUME NEW loop, NEW old, LoopInv(loop, old), NEW ids, ids \subseteq Docs
  PROVE  LoopInv(Tracking(loop, ids), ids)
BY NewLoopIs DEF Tracking, LoopInv

LEMMA TickIs ==
  ASSUME NEW loop, NEW ids, LoopInv(loop, ids)
  PROVE  LoopInv(Tick(loop), ids)
<1> DEFINE r == [d \in ids |-> "sent"]
<1>1. Tick(loop) = [tracked |-> ids, round |-> r]
  BY LoopIs DEF Tick
<1>2. ids \subseteq Docs /\ DOMAIN r \subseteq ids /\ r \in [DOMAIN r -> Statuses \cup {"sent"}]
  BY LoopIs
<1> HIDE DEF r
<1> QED BY <1>1, <1>2, LoopsAre

LEMMA ServeIs ==
  ASSUME NEW loop, NEW ids, LoopInv(loop, ids), NEW d, stored[d].status \in Statuses
  PROVE  LoopInv(Serve(loop, d), ids)
<1> DEFINE r == [loop.round EXCEPT ![d] = stored[d].status]
<1>1. Serve(loop, d) = [tracked |-> ids, round |-> r]
  BY LoopIs DEF Serve
<1>2. ids \subseteq Docs /\ DOMAIN r \subseteq ids /\ r \in [DOMAIN r -> Statuses \cup {"sent"}]
  BY LoopIs
<1> HIDE DEF r
<1> QED BY <1>1, <1>2, LoopsAre

LEMMA SettleIs ==
  ASSUME NEW loop, NEW ids, LoopInv(loop, ids), NEW d
  PROVE  LoopInv(Settle(loop, d), ids) /\ (d \in Awaiting(loop) => Settle(loop, d) # loop)
<1> DEFINE r == Restrict(loop.round, Awaiting(loop) \ {d})
<1>1. Settle(loop, d) = [tracked |-> ids, round |-> r]
  BY LoopIs DEF Settle
<1>2. ids \subseteq Docs /\ DOMAIN r \subseteq ids /\ r \in [DOMAIN r -> Statuses \cup {"sent"}]
  BY LoopIs DEF Restrict, Awaiting
<1>3. d \notin DOMAIN r
  BY DEF Restrict
<1> HIDE DEF r
<1> QED BY <1>1, <1>2, <1>3, LoopsAre DEF Awaiting

LEMMA ReplyIs ==
  ASSUME NEW loop, NEW ids, LoopInv(loop, ids), NEW d, Awaits(loop, d, Statuses)
  PROVE  d \in ids /\ loop.round[d] \in Statuses
BY LoopIs DEF Awaits, Awaiting

-----------------------------------------------------------------------------
(* The server.                                                             *)

(* Documents are only added, and nothing of one is forgotten.              *)
Grown ==
  /\ Created \subseteq Created'
  /\ \A d \in Created : stored'[d].scope = stored[d].scope /\ stored'[d].file = stored[d].file
                       /\ (stored[d].status = "deleted" => stored'[d].status = "deleted")

SameFiles ==
  /\ Created' = Created
  /\ \A d \in Created : stored'[d].file = stored[d].file

LEMMA CreatedAre == PollingAssumption /\ StoredInv => Created \subseteq Docs /\ \A d \in Created : stored[d] \in Rows
BY DEF PollingAssumption, StoredInv, Created, Docs

LEMMA StatusStep ==
  ASSUME StoredInv, NEW d \in Created, NEW s \in Statuses \cup {"deleted"},
         stored' = [stored EXCEPT ![d].status = s],
         s = "deleted" \/ stored[d].status # "deleted"
  PROVE  StoredInv' /\ Grown /\ SameFiles /\ stored'[d].status = s
<1>1. d \in 1..Len(stored) /\ stored \in Seq(Rows)
  BY DEF StoredInv, Created
<1>2. \A e \in Created : stored[e] \in Rows
  BY DEF StoredInv, Created
<1>3. [stored[d] EXCEPT !.status = s] \in Rows
  BY <1>2 DEF Rows
<1>4. stored' \in Seq(Rows) /\ Len(stored') = Len(stored) /\ DOMAIN stored' = DOMAIN stored
  BY <1>1, <1>2, <1>3
<1>5. \A e \in Created : stored'[e] = IF e = d THEN [stored[d] EXCEPT !.status = s] ELSE stored[e]
  BY <1>1 DEF Created
<1>6. StoredInv' /\ Created' = Created
  BY <1>4 DEF StoredInv, Created
<1>7. \A e \in Created : /\ stored'[e].scope = stored[e].scope /\ stored'[e].file = stored[e].file
                         /\ stored[e].status = "deleted" => stored'[e].status = "deleted"
  BY <1>2, <1>3, <1>5 DEF Rows
<1>8. stored'[d].status = s
  BY <1>2, <1>5 DEF Rows
<1> QED BY <1>6, <1>7, <1>8 DEF Grown, SameFiles

LEMMA IngestStep ==
  ASSUME StoredInv, NEW d \in Docs, Ingest(d)
  PROVE  StoredInv' /\ Grown /\ SameFiles
BY StatusStep DEF Ingest, Statuses

LEMMA AppendStep ==
  ASSUME PollingAssumption, StoredInv, NEW row \in Rows, stored' = Append(stored, row), Len(stored) < MaxDocs
  PROVE  /\ StoredInv' /\ Grown /\ Len(stored') \in Docs
         /\ Created' = Created \cup {Len(stored')} /\ Len(stored') \notin Created
         /\ stored'[Len(stored')] = row
         /\ \A d \in Created : stored'[d] = stored[d]
<1>1. stored \in Seq(Rows) /\ Len(stored) \in Nat /\ Len(stored') = Len(stored) + 1
  BY DEF StoredInv
<1>2. StoredInv' /\ Len(stored') \in Docs
  BY <1>1 DEF StoredInv, PollingAssumption, Docs
<1>3. /\ Created' = Created \cup {Len(stored')} /\ Len(stored') \notin Created
      /\ stored'[Len(stored')] = row /\ \A d \in Created : stored'[d] = stored[d]
  BY <1>1 DEF Created
<1> QED BY <1>2, <1>3 DEF Grown

-----------------------------------------------------------------------------
(* What a step leaves alone.                                               *)

LEMMA PageKept ==
  ASSUME PageInv, Grown, UNCHANGED <<pageVars, gone>>,
         \/ deleteReq' = deleteReq \/ deleteReq'.stage # "served"
         \/ deleteReq'.id \in Created' /\ stored'[deleteReq'.id].status = "deleted"
  PROVE  PageInv'
<1> USE DEF pageVars
<1>1. /\ DOMAIN documents \subseteq Created /\ DOMAIN listReq.items \subseteq Created
      /\ gone \subseteq Created /\ Created \subseteq Created'
  BY DEF PageInv, PageShape, Partial, Grown
<1>2. PageShape'
  <2>1. Partial(documents, Created', Statuses) /\ Partial(listReq.items, Created', Statuses)
    BY <1>1 DEF PageInv, PageShape, Partial
  <2> QED BY <1>1, <2>1 DEF PageInv, PageShape, LoopInv, RunningIn, Awaiting, Partial
<1>3. ListsInv'
  BY <1>1 DEF PageInv, ListsInv, Grown
<1> QED BY <1>2, <1>3 DEF PageInv

LEMMA DialogKept ==
  ASSUME DialogInv, UNCHANGED <<dialogVars, confirming, askedOn, deleting, deleteReq>>
  PROVE  DialogInv'
BY DEF DialogInv, DialogShape, RequestsInv, dialogVars, DialogLoading, LoopInv, DialogTracks, Awaiting

LEMMA DocumentsKept ==
  ASSUME DocumentsInv, Grown, UNCHANGED documentsVars
  PROVE  DocumentsInv'
BY PageKept, DialogKept DEF DocumentsInv, documentsVars, deleteVars

LEMMA StoredSame == stored' = stored => Grown /\ SameFiles /\ Created' = Created
BY DEF Grown, SameFiles, Created

LEMMA UploadKept ==
  ASSUME UploadInv, SameFiles, UNCHANGED uploadVars
  PROVE  UploadInv'
<1> USE DEF uploadVars, formVars, topicsVars, followVars, batchVars
<1>1. UploadShape' /\ FollowInv'
  BY DEF UploadInv, UploadShape, FollowInv, LoopInv, Awaiting, RunningIn, Partial
<1>2. \A v \in Visits : BatchInv(v)'
  BY DEF UploadInv, BatchInv, SameFiles, Queued, Available
<1>3. LaterInv'
  BY DEF UploadInv, LaterInv, SameFiles
<1>4. ItemsInv'
  BY DEF UploadInv, ItemsInv, SameFiles, Available, Snapshot
<1>5. OneDocumentPerFile'
  BY DEF UploadInv, OneDocumentPerFile, SameFiles
<1> QED BY <1>1, <1>2, <1>3, <1>4, <1>5 DEF UploadInv

-----------------------------------------------------------------------------
(* The items of the upload page.                                           *)

LEMMA OthersKept ==
  ASSUME UploadInv, UNCHANGED <<stored, health, visit, batches, followVars>>
  PROVE  /\ FollowInv' /\ LaterInv' /\ OneDocumentPerFile'
         /\ \A v \in Visits : BatchInv(v)'
<1> USE DEF followVars
<1>1. FollowInv'
  BY DEF UploadInv, FollowInv, LoopInv, Awaiting, RunningIn, Partial
<1>2. \A v \in Visits : BatchInv(v)'
  BY DEF UploadInv, BatchInv, Created, Queued, Available
<1>3. LaterInv' /\ OneDocumentPerFile'
  BY DEF UploadInv, LaterInv, OneDocumentPerFile, Created
<1> QED BY <1>1, <1>2, <1>3

LEMMA ItemIs ==
  ASSUME UploadAssumption, UploadInv, NEW valid \in BOOLEAN
  PROVE  Item(valid) \in Items /\ Available(Item(valid).provider) /\ ~Item(valid).uploading
BY DEF Item, Items, Available, defaultProvider, Providers

LEMMA AddFileStep ==
  ASSUME UploadAssumption, UploadInv, NEW valid \in BOOLEAN, AddFile(valid)
  PROVE  UploadInv'
<1> DEFINE k == keyCounter + 1
<1>1. UploadShape /\ ItemsInv
  BY DEF UploadInv
<1>2. /\ keyCounter' = k /\ k \in 1..MaxFiles /\ k \notin DOMAIN items /\ keyCounter \in Nat
      /\ items' = Plus(items, k, Item(valid))
      /\ UNCHANGED <<stored, health, visit, edits, lateEdits, topicsVars, followVars, batchVars>>
  BY <1>1 DEF AddFile, UploadShape, UploadAssumption, Partial
<1>3. Partial(items, 1..k, Items) /\ k \in 1..k
  BY <1>1, <1>2 DEF UploadShape, Partial
<1>4. /\ Partial(items', 1..k, Items) /\ DOMAIN items' = DOMAIN items \cup {k}
      /\ \A j \in DOMAIN items : items'[j] = items[j]
      /\ items'[k] = Item(valid)
  <2> HIDE DEF k
  <2>1. Item(valid) \in Items
    BY ItemIs
  <2> DEFINE now == Plus(items, k, Item(valid))
  <2>2. /\ Partial(now, 1..k, Items) /\ DOMAIN now = DOMAIN items \cup {k}
        /\ \A y \in DOMAIN items : now[y] = items[y]
        /\ k \notin DOMAIN items => now[k] = Item(valid)
    <3> DEFINE S == 1..k
            i == Item(valid)
    <3>1. Partial(items, S, Items) /\ k \in S /\ i \in Items
      BY <1>3, <2>1
    <3> HIDE DEF S, i
    <3>2. /\ Partial(Plus(items, k, i), S, Items) /\ DOMAIN Plus(items, k, i) = DOMAIN items \cup {k}
          /\ \A y \in DOMAIN items : Plus(items, k, i)[y] = items[y]
          /\ k \notin DOMAIN items => Plus(items, k, i)[k] = i
      BY <3>1, PlusPartial
    <3> QED BY <3>2 DEF S, i
  <2> HIDE DEF now
  <2>3. items' = now
    BY <1>2 DEF now
  <2> QED BY <1>2, <2>2, <2>3
<1> HIDE DEF k
<1>5. UploadShape'
  BY <1>1, <1>2, <1>4 DEF UploadShape, topicsVars, batchVars
<1>6. ItemsInv'
  <2>1. keyCounter' = keyCounter + 1 /\ 1..keyCounter \subseteq 1..(keyCounter')
    BY <1>1, <1>2 DEF k
  <2>2. Available(items'[k].provider) /\ ~items'[k].uploading
    BY <1>4, ItemIs
  <2>3. k \notin 1..keyCounter
    BY <1>2 DEF k
  <2> DEFINE b == batches[visit]
  <2>4. \A j \in DOMAIN items' : Available(items'[j].provider)
    BY <1>1, <1>4, <2>2 DEF ItemsInv
  <2>5. \A j \in DOMAIN items' : items'[j].uploading => b.stage # "none" /\ b.sending.key = j
    BY <1>1, <1>4, <2>2 DEF ItemsInv
  <2>6. b.stage # "none" => /\ b.sending.key \in 1..keyCounter /\ b.sending.key # k
                            /\ b.sending.key \in DOMAIN items' \cup lateEdits
    BY <1>1, <1>4, <2>3 DEF ItemsInv
  <2>7. /\ b.stage # "none" /\ b.sending.key \in DOMAIN items' => items'[b.sending.key].uploading
        /\ b.stage # "none" /\ b.sending.key \in DOMAIN items' \ lateEdits
             => b.sending = Snapshot(b.sending.key, items'[b.sending.key])
    BY <1>1, <1>4, <2>6 DEF ItemsInv
  <2>8. \A i \in DOMAIN b.queue :
           /\ b.queue[i].key \in 1..keyCounter'
           /\ b.queue[i].key \in DOMAIN items' \cup lateEdits
           /\ b.queue[i].key \in DOMAIN items' \ lateEdits
                => b.queue[i] = Snapshot(b.queue[i].key, items'[b.queue[i].key])
    BY <1>1, <1>4, <2>1, <2>3 DEF ItemsInv
  <2>9. \A d \in Created : stored[d].file[1] = visit =>
           /\ stored[d].file[2] \in 1..keyCounter'
           /\ stored[d].file[2] \in DOMAIN items' =>
                \/ items'[stored[d].file[2]].error
                \/ b.stage = "accepted" /\ b.sending.key = stored[d].file[2]
    BY <1>1, <1>4, <2>1, <2>3 DEF ItemsInv
  <2>10. uploading <=> b.stage # "none"
    BY <1>1 DEF ItemsInv
  <2> HIDE DEF b
  <2>11. /\ stored' = stored /\ visit' = visit /\ uploading' = uploading /\ lateEdits' = lateEdits
         /\ Created' = Created /\ batches'[visit'] = b /\ health' = health
    BY <1>2 DEF batchVars, b, Created
  <2> QED BY <2>1, <2>4, <2>5, <2>6, <2>7, <2>8, <2>9, <2>10, <2>11 DEF ItemsInv, Available, Snapshot
<1> QED BY <1>2, <1>5, <1>6, OthersKept DEF UploadInv, batchVars

(* A change of a file that is not being sent.                              *)
LEMMA ChangedStep ==
  ASSUME UploadAssumption, UploadInv, NEW k, Editable(k), NEW now, Changed(k, now), edits' \in 0..MaxEdits,
         \/ now = Without(k)
         \/ \E choice \in Items :
              /\ now = [items EXCEPT ![k] = choice] /\ Available(choice.provider)
              /\ choice.error = items[k].error /\ ~choice.uploading
  PROVE  UploadInv'
<1>1. UploadShape /\ ItemsInv
  BY DEF UploadInv
<1>2. /\ k \in DOMAIN items /\ ~items[k].uploading /\ items' = now
      /\ lateEdits' = IF Waiting(k) THEN lateEdits \cup {k} ELSE lateEdits
      /\ UNCHANGED <<stored, health, visit, keyCounter, topicsVars, followVars, batchVars>>
  BY DEF Editable, Changed
<1>3. k \in Keys
  BY <1>1, <1>2 DEF UploadShape, Partial, Keys, UploadAssumption
<1>4. /\ Partial(items', 1..keyCounter, Items)
      /\ DOMAIN items' \subseteq DOMAIN items /\ DOMAIN items \subseteq DOMAIN items' \cup {k}
      /\ \A j \in DOMAIN items' \ {k} : items'[j] = items[j]
      /\ k \in DOMAIN items' => /\ Available(items'[k].provider) /\ ~items'[k].uploading
                                /\ items'[k].error = items[k].error
  <2>0. Partial(items, 1..keyCounter, Items)
    BY <1>1 DEF UploadShape
  <2>1. CASE now = Without(k)
    BY <2>0, <2>1, <1>2, RestrictPartial DEF Without
  <2>2. CASE \E choice \in Items :
              /\ now = [items EXCEPT ![k] = choice] /\ Available(choice.provider)
              /\ choice.error = items[k].error /\ ~choice.uploading
    BY <2>0, <2>2, <1>2 DEF Partial
  <2> QED BY <2>1, <2>2
<1>5. UploadShape'
  BY <1>1, <1>2, <1>3, <1>4 DEF UploadShape, topicsVars, batchVars
<1>6. ItemsInv'
  <2> DEFINE b == batches[visit]
  <2>1. b.stage # "none" => b.sending.key # k
    BY <1>1, <1>2 DEF ItemsInv
  <2>2. \A i \in DOMAIN b.queue : b.queue[i].key = k => k \in lateEdits'
    BY <1>2 DEF Waiting
  <2>3. b' = b /\ lateEdits \subseteq lateEdits' /\ lateEdits' \subseteq lateEdits \cup {k}
    BY <1>2 DEF batchVars
  <2>4. \A j \in DOMAIN items' : Available(items'[j].provider)
    BY <1>1, <1>4 DEF ItemsInv
  <2>5. \A j \in DOMAIN items' : items'[j].uploading => j # k /\ items[j].uploading
    BY <1>4
  <2>6. /\ uploading <=> b.stage # "none"
        /\ \A j \in DOMAIN items' : items'[j].uploading => b.stage # "none" /\ b.sending.key = j
        /\ b.stage # "none" /\ b.sending.key \in DOMAIN items' => items'[b.sending.key].uploading
        /\ b.stage # "none" => b.sending.key \in DOMAIN items' \cup lateEdits'
        /\ b.stage # "none" /\ b.sending.key \in DOMAIN items' \ lateEdits'
             => b.sending = Snapshot(b.sending.key, items'[b.sending.key])
        /\ b.stage # "none" => b.sending.key \in 1..keyCounter
    <3> HIDE DEF b
    <3>1. /\ uploading <=> b.stage # "none"
          /\ \A j \in DOMAIN items : items[j].uploading => b.stage # "none" /\ b.sending.key = j
          /\ b.stage # "none" /\ b.sending.key \in DOMAIN items => items[b.sending.key].uploading
          /\ b.stage # "none" => b.sending.key \in DOMAIN items \cup lateEdits
          /\ b.stage # "none" /\ b.sending.key \in DOMAIN items \ lateEdits
               => b.sending = Snapshot(b.sending.key, items[b.sending.key])
          /\ b.stage # "none" => b.sending.key \in 1..keyCounter
      BY <1>1 DEF ItemsInv, b
    <3> QED BY <3>1, <1>4, <2>1, <2>3, <2>5
  <2>7. \A i \in DOMAIN b.queue :
           /\ b.queue[i].key \in 1..keyCounter
           /\ b.queue[i].key \in DOMAIN items' \cup lateEdits'
           /\ b.queue[i].key \in DOMAIN items' \ lateEdits'
                => b.queue[i] = Snapshot(b.queue[i].key, items'[b.queue[i].key])
    BY <1>1, <1>4, <2>2, <2>3 DEF ItemsInv
  <2>8. \A d \in Created : stored[d].file[1] = visit =>
           /\ stored[d].file[2] \in 1..keyCounter
           /\ stored[d].file[2] \in DOMAIN items' =>
                \/ items'[stored[d].file[2]].error
                \/ b.stage = "accepted" /\ b.sending.key = stored[d].file[2]
    BY <1>1, <1>4 DEF ItemsInv
  <2> HIDE DEF b
  <2>9. stored' = stored /\ visit' = visit /\ uploading' = uploading /\ keyCounter' = keyCounter
        /\ Created' = Created /\ batches'[visit'] = b /\ health' = health
    BY <1>2 DEF batchVars, b, Created
  <2> QED BY <2>9, <2>4, <2>6, <2>7, <2>8 DEF ItemsInv, Available, Snapshot
<1> QED BY <1>2, <1>5, <1>6, OthersKept DEF UploadInv, batchVars

LEMMA EditStep ==
  ASSUME UploadAssumption, UploadInv, NEW k, Edit(k) \/ ChooseTopic(k) \/ RemoveItem(k)
  PROVE  UploadInv'
<1>1. UploadShape /\ ItemsInv
  BY DEF UploadInv
<1>2. Editable(k) => items[k] \in Items /\ ~items[k].uploading /\ Available(items[k].provider)
  BY <1>1 DEF Editable, UploadShape, Partial, ItemsInv
<1>3. CASE Edit(k)
  <2>1. PICK choice \in Settings(items[k]) \ {items[k]} : Changed(k, [items EXCEPT ![k] = choice])
    BY <1>3 DEF Edit
  <2>2. Editable(k) /\ edits < MaxEdits /\ edits' = edits + 1
    BY <1>3 DEF Edit
  <2>3. edits' \in 0..MaxEdits
    BY <1>1, <2>2 DEF UploadShape, UploadAssumption
  <2>4. \/ \E p \in Providers : Available(p) /\ choice = [items[k] EXCEPT !.provider = p]
        \/ \E s \in {"personal", "library"} : choice = [items[k] EXCEPT !.scope = s]
    BY <2>1 DEF Settings
  <2>5. choice \in Items /\ Available(choice.provider) /\ choice.error = items[k].error /\ ~choice.uploading
    BY <1>2, <2>2, <2>4 DEF Items
  <2> QED BY <2>1, <2>2, <2>3, <2>5, ChangedStep
<1>4. CASE ChooseTopic(k)
  <2>1. PICK t \in Topics : Changed(k, [items EXCEPT ![k].topicId = t])
    BY <1>4 DEF ChooseTopic
  <2> DEFINE choice == [items[k] EXCEPT !.topicId = t]
  <2>2. Editable(k) /\ edits' = edits /\ edits' \in 0..MaxEdits
    BY <1>1, <1>4 DEF ChooseTopic, UploadShape
  <2>3. choice \in Items /\ Available(choice.provider) /\ choice.error = items[k].error /\ ~choice.uploading
    BY <1>2, <2>2 DEF Items
  <2>4. Changed(k, [items EXCEPT ![k] = choice])
    BY <2>1
  <2> HIDE DEF choice
  <2> QED BY <2>2, <2>3, <2>4, ChangedStep
<1>5. CASE RemoveItem(k)
  <2>1. Editable(k) /\ Changed(k, Without(k)) /\ edits' \in 0..MaxEdits
    BY <1>1, <1>5 DEF RemoveItem, UploadShape
  <2> QED BY <2>1, ChangedStep
<1> QED BY <1>3, <1>4, <1>5

LEMMA ClearAllStep ==
  ASSUME UploadInv, ClearAll
  PROVE  UploadInv'
<1>1. UploadShape /\ ItemsInv /\ \A v \in Visits : BatchInv(v)
  BY DEF UploadInv
<1>2. /\ ~uploading /\ items' = <<>> /\ DOMAIN items' = {}
      /\ UNCHANGED <<stored, health, visit, keyCounter, edits, lateEdits, topicsVars, followVars, batchVars>>
  BY NothingPartial DEF ClearAll
<1>3. batches[visit] = NoBatch /\ DOMAIN batches[visit].queue = {}
  <2>1. batches[visit] = NoBatch
    BY <1>1, <1>2 DEF ItemsInv, BatchInv, UploadShape
  <2> QED BY <2>1 DEF NoBatch
<1>4. UploadShape'
  BY <1>1, <1>2, NothingPartial DEF UploadShape, topicsVars, batchVars
<1>5. ItemsInv'
  BY <1>1, <1>2, <1>3 DEF ItemsInv, batchVars, Created
<1> QED BY <1>2, <1>4, <1>5, OthersKept DEF UploadInv, batchVars

(* What is followed is apart from the files.                               *)
LEMMA FollowStep ==
  ASSUME UploadInv, FollowInv', UNCHANGED <<stored, health, visit, formVars, batchVars>>,
         topicsStatus' \in {"loading", "ready", "error"}, topicsReq' \in {"none", "sent"}
  PROVE  UploadInv'
<1> USE DEF formVars, batchVars
<1>1. UploadShape'
  BY DEF UploadInv, UploadShape, Partial
<1>2. \A v \in Visits : BatchInv(v)'
  BY DEF UploadInv, BatchInv, Created, Queued, Available
<1>3. LaterInv' /\ OneDocumentPerFile'
  BY DEF UploadInv, LaterInv, OneDocumentPerFile, Created
<1>4. ItemsInv'
  BY DEF UploadInv, ItemsInv, Created, Available, Snapshot
<1> QED BY <1>1, <1>2, <1>3, <1>4 DEF UploadInv

LEMMA TopicsStep ==
  ASSUME UploadInv, TopicsReply \/ TopicsRetry
  PROVE  UploadInv'
<1>1. FollowInv' /\ UNCHANGED <<stored, health, visit, formVars, batchVars>>
  BY DEF UploadInv, FollowInv, TopicsReply, TopicsRetry, followVars, LoopInv, Awaiting, RunningIn, Partial
<1>2. topicsStatus' \in {"loading", "ready", "error"} /\ topicsReq' \in {"none", "sent"}
  BY DEF UploadInv, UploadShape, TopicsReply, TopicsRetry
<1> QED BY <1>1, <1>2, FollowStep

LEMMA RunningIsIn == ASSUME NEW f, NEW S, NEW T, Partial(f, S, T) PROVE RunningIn(f) \subseteq S
BY DEF RunningIn, Partial

LEMMA PipelineStep ==
  ASSUME PollingAssumption, StoredInv, UploadInv, NEW d \in Docs,
         Dismiss(d) \/ UploadTick \/ UploadPollServed(d) \/ UploadPollReply(d) \/ UploadPollFails(d)
  PROVE  UploadInv'
<1>1. Partial(pipeline, Docs, Statuses) /\ LoopInv(uploadLoop, RunningIn(pipeline))
  BY DEF UploadInv, FollowInv
<1>2. UNCHANGED <<stored, health, visit, formVars, topicsVars, batchVars>>
  BY DEF Dismiss, UploadTick, UploadPollServed, UploadPollReply, UploadPollFails
<1>3. FollowInv'
  <2>1. CASE Dismiss(d)
    <3>1. pipeline' = Restrict(pipeline, DOMAIN pipeline \ {d})
          /\ uploadLoop' = Tracking(uploadLoop, RunningIn(pipeline'))
      BY <2>1 DEF Dismiss, Follow
    <3>2. Partial(pipeline', Docs, Statuses)
      BY <1>1, <3>1, RestrictPartial
    <3> QED BY <1>1, <3>1, <3>2, TrackingIs, RunningIsIn DEF FollowInv
  <2>2. CASE UploadTick
    BY <1>1, <2>2, TickIs DEF UploadTick, FollowInv
  <2>3. CASE UploadPollServed(d)
    <3>1. stored[d].status \in Statuses
      BY <2>3, CreatedAre DEF UploadPollServed, Known, Rows
    <3> QED BY <1>1, <2>3, <3>1, ServeIs DEF UploadPollServed, FollowInv
  <2>4. CASE UploadPollReply(d)
    <3>1. pipeline' = Updated(pipeline, d, uploadLoop.round[d])
          /\ uploadLoop' = Tracking(Settle(uploadLoop, d), RunningIn(pipeline'))
          /\ uploadLoop.round[d] \in Statuses
      BY <1>1, <2>4, ReplyIs DEF UploadPollReply
    <3>2. Partial(pipeline', Docs, Statuses)
      BY <1>1, <3>1, UpdatedPartial
    <3>3. LoopInv(Settle(uploadLoop, d), RunningIn(pipeline))
      BY <1>1, SettleIs
    <3> QED BY <3>1, <3>2, <3>3, TrackingIs, RunningIsIn DEF FollowInv
  <2>5. CASE UploadPollFails(d)
    BY <1>1, <2>5, SettleIs DEF UploadPollFails, FollowInv
  <2> QED BY <2>1, <2>2, <2>3, <2>4, <2>5
         DEF Dismiss, UploadTick, UploadPollServed, UploadPollReply, UploadPollFails
<1>4. topicsStatus' \in {"loading", "ready", "error"} /\ topicsReq' \in {"none", "sent"}
  BY <1>2 DEF UploadInv, UploadShape, topicsVars
<1> QED BY <1>2, <1>3, <1>4, FollowStep

LEMMA HealthStep ==
  ASSUME UploadInv, HealthReply
  PROVE  UploadInv'
<1>1. health' = "known" /\ UNCHANGED <<stored, visit, formVars, topicsVars, followVars, batchVars>>
  BY DEF HealthReply
<1> USE DEF formVars, topicsVars, followVars, batchVars
<1>2. \A p : Available(p) => Available(p)'
  BY <1>1 DEF Available
<1>3. UploadShape' /\ FollowInv'
  BY <1>1 DEF UploadInv, UploadShape, FollowInv, LoopInv, Awaiting, RunningIn, Partial
<1>4. \A v \in Visits : BatchInv(v)'
  BY <1>1, <1>2 DEF UploadInv, BatchInv, Created, Queued, Available
<1>5. LaterInv' /\ OneDocumentPerFile'
  BY <1>1 DEF UploadInv, LaterInv, OneDocumentPerFile, Created
<1>6. ItemsInv'
  BY <1>1, <1>2 DEF UploadInv, ItemsInv, Created, Available, Snapshot
<1> QED BY <1>3, <1>4, <1>5, <1>6 DEF UploadInv

-----------------------------------------------------------------------------
(* The upload loop.                                                        *)

(* Files that the loop of visit v may still send.                          *)
Ready(v, queue) ==
  /\ \A i, j \in DOMAIN queue : queue[i].key = queue[j].key => i = j
  /\ \A i \in DOMAIN queue : Available(queue[i].provider)
  /\ \A d \in Created : stored[d].file[1] = v => \A i \in DOMAIN queue : queue[i].key # stored[d].file[2]

(* Items of the page none of which is being sent, against its queue.       *)
Settled(queue, now) ==
  /\ Partial(now, 1..keyCounter, Items)
  /\ \A k \in DOMAIN now : Available(now[k].provider) /\ ~now[k].uploading
  /\ \A i \in DOMAIN queue :
       /\ queue[i].key \in 1..keyCounter
       /\ queue[i].key \in DOMAIN now \cup lateEdits
       /\ queue[i].key \in DOMAIN now \ lateEdits => queue[i] = Snapshot(queue[i].key, now[queue[i].key])
  /\ \A d \in Created : stored[d].file[1] = visit =>
       /\ stored[d].file[2] \in 1..keyCounter
       /\ stored[d].file[2] \in DOMAIN now => now[stored[d].file[2]].error

LEMMA NoBatchIs == NoBatch \in Batches /\ DOMAIN NoBatch.queue = {}
BY NothingPartial DEF NoBatch, Batches

LEMMA TailIs ==
  ASSUME NEW S, NEW q \in Seq(S), q # <<>>
  PROVE  /\ Tail(q) \in Seq(S) /\ Head(q) = q[1] /\ Head(q) \in S /\ 1 \in DOMAIN q
         /\ \A i \in DOMAIN Tail(q) : i + 1 \in DOMAIN q /\ i + 1 # 1 /\ Tail(q)[i] = q[i + 1]
  OBVIOUS

(* What the next step of a loop leaves. *)
LEMMA AdvanceIs ==
  ASSUME UploadShape, NEW v \in Visits, NEW queue \in Seq(Snapshots), NEW now, Advance(v, queue, now)
  PROVE  /\ batches' \in [Visits -> Batches]
         /\ \A w \in Visits \ {v} : batches'[w] = batches[w]
         /\ queue = <<>> => /\ batches'[v] = NoBatch /\ items' = now
                           /\ uploading' = IF v = visit THEN FALSE ELSE uploading
         /\ queue # <<>> =>
              /\ batches'[v].queue = Tail(queue) /\ batches'[v].sending = queue[1]
              /\ batches'[v].stage = "sent"
              /\ uploading' = IF v = visit THEN TRUE ELSE uploading
              /\ items' = IF v = visit /\ queue[1].key \in DOMAIN now
                          THEN [now EXCEPT ![queue[1].key].uploading = TRUE] ELSE now
<1>0. batches \in [Visits -> Batches] /\ uploading \in BOOLEAN
  BY DEF UploadShape
<1>1. CASE queue = <<>>
  <2>1. batches' = [batches EXCEPT ![v] = NoBatch] /\ items' = now /\ uploading' = (uploading /\ ~(v = visit))
    BY <1>1 DEF Advance
  <2>2. uploading' = IF v = visit THEN FALSE ELSE uploading
    BY <1>0, <2>1
  <2> QED BY <1>0, <1>1, <2>1, <2>2, NoBatchIs
<1>2. CASE queue # <<>>
  <2> DEFINE b == [queue |-> Tail(queue), sending |-> Head(queue), stage |-> "sent", doc |-> NoDoc]
  <2>1. /\ batches' = [batches EXCEPT ![v] = b] /\ uploading' = (uploading \/ v = visit)
        /\ items' = IF v = visit /\ Head(queue).key \in DOMAIN now
                    THEN [now EXCEPT ![Head(queue).key].uploading = TRUE] ELSE now
    BY <1>2 DEF Advance
  <2>2. b \in Batches /\ b.queue = Tail(queue) /\ b.sending = queue[1] /\ b.stage = "sent" /\ Head(queue) = queue[1]
    BY <1>2, TailIs DEF Batches
  <2>3. uploading' = IF v = visit THEN TRUE ELSE uploading
    BY <1>0, <2>1
  <2> HIDE DEF b
  <2>4. /\ batches' \in [Visits -> Batches] /\ batches'[v] = b
        /\ \A w \in Visits \ {v} : batches'[w] = batches[w]
    BY <1>0, <2>1, <2>2
  <2> QED BY <1>2, <2>1, <2>2, <2>3, <2>4
<1> QED BY <1>1, <1>2

LEMMA AdvanceStep ==
  ASSUME UploadAssumption, UploadShape, LaterInv, OneDocumentPerFile, \A w \in Visits : BatchInv(w),
         NEW v \in Visits, v <= visit, NEW queue \in Seq(Snapshots), NEW now,
         Advance(v, queue, now), Ready(v, queue),
         IF v = visit THEN Settled(queue, now) ELSE now = items /\ ItemsInv,
         UNCHANGED <<stored, health, visit, keyCounter, edits, lateEdits, topicsVars>>, FollowInv'
  PROVE  UploadInv'
<1>1. /\ batches' \in [Visits -> Batches]
      /\ \A w \in Visits \ {v} : batches'[w] = batches[w]
      /\ queue = <<>> => /\ batches'[v] = NoBatch /\ items' = now
                        /\ uploading' = IF v = visit THEN FALSE ELSE uploading
      /\ queue # <<>> =>
           /\ batches'[v].queue = Tail(queue) /\ batches'[v].sending = queue[1]
           /\ batches'[v].stage = "sent"
           /\ uploading' = IF v = visit THEN TRUE ELSE uploading
           /\ items' = IF v = visit /\ queue[1].key \in DOMAIN now
                       THEN [now EXCEPT ![queue[1].key].uploading = TRUE] ELSE now
  BY AdvanceIs
<1>2. queue # <<>> =>
        /\ queue[1] \in Snapshots /\ 1 \in DOMAIN queue
        /\ \A i \in DOMAIN Tail(queue) : i + 1 \in DOMAIN queue /\ i + 1 # 1 /\ Tail(queue)[i] = queue[i + 1]
  BY TailIs
<1>3. visit \in Visits /\ visit \in Nat /\ v \in Nat /\ keyCounter \in Nat
  BY DEF UploadShape, Visits, UploadAssumption
<1>4. UploadShape'
  <2>1. Partial(items', 1..keyCounter, Items)
    <3>1. Partial(now, 1..keyCounter, Items)
      BY DEF Settled, UploadShape
    <3>2. \A k \in DOMAIN now : [now[k] EXCEPT !.uploading = TRUE] \in Items
      BY <3>1 DEF Partial, Items
    <3> QED BY <1>1, <3>1, <3>2 DEF Partial
  <2>2. uploading' \in BOOLEAN
    BY <1>1 DEF UploadShape
  <2> QED BY <1>1, <2>1, <2>2 DEF UploadShape, topicsVars
<1>5. \A w \in Visits : BatchInv(w)'
  <2>1. ASSUME NEW w \in Visits \ {v} PROVE BatchInv(w)'
    BY <1>1 DEF BatchInv, Created, Queued, Available
  <2>2. BatchInv(v)'
    <3>1. CASE queue = <<>>
      <4>1. batches'[v] = NoBatch
        BY <1>1, <3>1
      <4> QED BY <4>1, NoBatchIs DEF BatchInv, Queued, NoBatch
    <3>2. CASE queue # <<>>
      <4>1. batches'[v].queue = Tail(queue) /\ batches'[v].sending = queue[1] /\ batches'[v].stage = "sent"
        BY <1>1, <3>2
      <4>2. queue[1].key \notin Queued(v)'
        BY <1>2, <3>2, <4>1 DEF Queued, Ready
      <4>3. \A i, j \in DOMAIN Tail(queue) : Tail(queue)[i].key = Tail(queue)[j].key => i = j
        <5>1. ASSUME NEW i \in DOMAIN Tail(queue), NEW j \in DOMAIN Tail(queue), Tail(queue)[i].key = Tail(queue)[j].key
              PROVE  i = j
          <6>1. i + 1 = j + 1
            BY <1>2, <3>2, <5>1 DEF Ready
          <6>2. Tail(queue) \in Seq(Snapshots)
            BY <3>2, TailIs
          <6>3. i \in Nat /\ j \in Nat
            BY <6>2
          <6> QED BY <6>1, <6>3
        <5> QED BY <5>1
      <4>4. Available(queue[1].provider)' /\ \A i \in DOMAIN Tail(queue) : Available(Tail(queue)[i].provider)'
        BY <1>2, <3>2 DEF Ready, Available
      <4>5. \A d \in Created : stored[d].file[1] = v =>
              stored[d].file[2] \notin Queued(v)' /\ stored[d].file[2] # queue[1].key
        BY <1>2, <3>2, <4>1 DEF Ready, Queued
      <4>6. Created' = Created
        BY DEF Created
      <4> QED BY <1>2, <3>2, <4>1, <4>2, <4>3, <4>4, <4>5, <4>6 DEF BatchInv, Available
    <3> QED BY <3>1, <3>2
  <2> QED BY <2>1, <2>2
<1>6. LaterInv' /\ OneDocumentPerFile'
  <2>1. \A w \in Visits : w > visit => w # v
    BY <1>3 DEF Visits
  <2> QED BY <1>1, <2>1 DEF LaterInv, OneDocumentPerFile, Created
<1>7. ItemsInv'
  <2>0. Created' = Created
    BY DEF Created
  <2>1. CASE v # visit
    <3>1. ItemsInv /\ items' = items /\ uploading' = uploading /\ batches'[visit] = batches[visit]
      BY <1>1, <1>3, <2>1
    <3>2. /\ batches'[visit'] = batches[visit] /\ visit' = visit /\ lateEdits' = lateEdits
          /\ keyCounter' = keyCounter /\ stored' = stored /\ health' = health
      BY <3>1
    <3>3. \A p : Available(p)' <=> Available(p)
      BY <3>2 DEF Available
    <3> QED BY <2>0, <3>1, <3>2, <3>3 DEF ItemsInv
  <2>2. CASE v = visit /\ queue = <<>>
    <3>1. batches'[visit'] = NoBatch /\ items' = now /\ ~uploading' /\ Settled(queue, now)
      BY <1>1, <2>2
    <3> QED BY <2>0, <3>1, NoBatchIs DEF ItemsInv, Settled, Available, NoBatch
  <2>3. CASE v = visit /\ queue # <<>>
    <3> DEFINE k == queue[1].key
               b == batches'[v]
    <3>1. /\ b.queue = Tail(queue) /\ b.sending = queue[1] /\ b.stage = "sent" /\ uploading' = TRUE
          /\ items' = IF k \in DOMAIN now THEN [now EXCEPT ![k].uploading = TRUE] ELSE now
          /\ Settled(queue, now) /\ 1 \in DOMAIN queue
      BY <1>1, <1>2, <2>3
    <3>2. /\ DOMAIN items' = DOMAIN now /\ \A j \in DOMAIN now \ {k} : items'[j] = now[j]
          /\ k \in DOMAIN now => items'[k] = [now[k] EXCEPT !.uploading = TRUE]
      BY <3>1 DEF Settled, Partial
    <3>3. \A j \in DOMAIN now : now[j] \in Items
      BY <3>1 DEF Settled, Partial
    <3>4. \A j \in DOMAIN now :
            /\ items'[j].provider = now[j].provider /\ items'[j].error = now[j].error
            /\ items'[j].scope = now[j].scope /\ items'[j].topicId = now[j].topicId
            /\ items'[j].uploading <=> j = k
      BY <3>1, <3>2, <3>3 DEF Items, Settled
    <3>5. \A j \in DOMAIN now : Snapshot(j, items'[j]) = Snapshot(j, now[j])
      BY <3>4 DEF Snapshot
    <3>6. k \in 1..keyCounter /\ k \in DOMAIN now \cup lateEdits
          /\ (k \in DOMAIN now \ lateEdits => queue[1] = Snapshot(k, now[k]))
      BY <3>1 DEF Settled
    <3>7. \A i \in DOMAIN b.queue :
           /\ b.queue[i].key \in 1..keyCounter
           /\ b.queue[i].key \in DOMAIN items' \cup lateEdits
           /\ b.queue[i].key \in DOMAIN items' \ lateEdits
                => b.queue[i] = Snapshot(b.queue[i].key, items'[b.queue[i].key])
      <4>1. ASSUME NEW i \in DOMAIN Tail(queue)
            PROVE  /\ Tail(queue)[i].key \in 1..keyCounter
                   /\ Tail(queue)[i].key \in DOMAIN now \cup lateEdits
                   /\ Tail(queue)[i].key \in DOMAIN now \ lateEdits
                        => Tail(queue)[i] = Snapshot(Tail(queue)[i].key, now[Tail(queue)[i].key])
        <5> DEFINE q == queue[i + 1]
        <5>1. q = Tail(queue)[i] /\ i + 1 \in DOMAIN queue
          BY <1>2, <2>3
        <5>2. /\ q.key \in 1..keyCounter /\ q.key \in DOMAIN now \cup lateEdits
              /\ q.key \in DOMAIN now \ lateEdits => q = Snapshot(q.key, now[q.key])
          BY <3>1, <5>1 DEF Settled
        <5> HIDE DEF q
        <5> QED BY <5>1, <5>2
      <4>2. b.queue = Tail(queue) /\ DOMAIN items' = DOMAIN now
        BY <3>1, <3>2
      <4> HIDE DEF b, k
      <4> QED BY <4>1, <4>2, <3>5
    <3>8. \A d \in Created : stored[d].file[1] = visit =>
           /\ stored[d].file[2] \in 1..keyCounter
           /\ stored[d].file[2] \in DOMAIN items' => items'[stored[d].file[2]].error
      BY <3>1, <3>2, <3>4 DEF Settled
    <3>9. \A j \in DOMAIN items' : Available(items'[j].provider)
      BY <3>1, <3>2, <3>4 DEF Settled
    <3>10. b = batches'[visit']
      BY <2>3
    <3> HIDE DEF b, k
    <3>11. b.sending.key = k
      BY <3>1 DEF k
    <3>12. \A p : Available(p)' <=> Available(p)
      BY DEF Available
    <3>13. /\ \A j \in DOMAIN items' : items'[j].uploading => b.sending.key = j
           /\ b.sending.key \in DOMAIN items' => items'[b.sending.key].uploading
           /\ b.sending.key \in DOMAIN items' \cup lateEdits /\ b.sending.key \in 1..keyCounter
      BY <3>2, <3>4, <3>6, <3>11
    <3>14. b.sending.key \in DOMAIN items' \ lateEdits
             => b.sending = Snapshot(b.sending.key, items'[b.sending.key])
      BY <3>1, <3>2, <3>5, <3>6, <3>11
    <3>15. /\ visit' = visit /\ lateEdits' = lateEdits /\ keyCounter' = keyCounter /\ stored' = stored
           /\ b.stage = "sent" /\ uploading'
      BY <3>1
    <3> QED BY <2>0, <3>7, <3>8, <3>9, <3>10, <3>12, <3>13, <3>14, <3>15 DEF ItemsInv
  <2> QED BY <2>1, <2>2, <2>3
<1> QED BY <1>4, <1>5, <1>6, <1>7 DEF UploadInv

LEMMA QueueIs ==
  ASSUME UploadAssumption, UploadInv, NEW v \in Visits
  PROVE  /\ batches[v].queue \in Seq(Snapshots) /\ Ready(v, batches[v].queue)
         /\ batches[v].stage # "none" => v <= visit
<1>1. batches[v] \in Batches /\ BatchInv(v) /\ LaterInv
  BY DEF UploadInv, UploadShape
<1>2. batches[v].queue \in Seq(Snapshots)
  BY <1>1 DEF Batches
<1>3. Ready(v, batches[v].queue)
  BY <1>1 DEF BatchInv, Ready, Queued
<1>4. batches[v].stage # "none" => v <= visit
  <2>1. v > visit => batches[v].stage = "none"
    BY <1>1 DEF LaterInv, NoBatch
  <2>2. v \in Nat /\ visit \in Nat
    BY DEF UploadInv, UploadShape, Visits, UploadAssumption
  <2> QED BY <2>1, <2>2
<1> QED BY <1>2, <1>3, <1>4

LEMMA UploadStep ==
  ASSUME UploadAssumption, UploadInv, Upload
  PROVE  UploadInv'
<1> DEFINE order == Listed(validItems)
           queue == [i \in DOMAIN order |-> Snapshot(order[i], Effective(items[order[i]]))]
<1>1. /\ ~uploading /\ Advance(visit, queue, items)
      /\ UNCHANGED <<stored, health, visit, keyCounter, edits, lateEdits, topicsVars, followVars>>
  BY DEF Upload
<1>2. UploadShape /\ LaterInv /\ OneDocumentPerFile /\ ItemsInv /\ \A w \in Visits : BatchInv(w)
  BY DEF UploadInv
<1>3. /\ visit \in Visits /\ visit \in Nat /\ keyCounter \in Nat /\ DOMAIN items \subseteq 1..keyCounter
      /\ 1..keyCounter \subseteq Keys /\ \A k \in DOMAIN items : items[k] \in Items
  BY <1>2 DEF UploadShape, Visits, UploadAssumption, Partial, Keys
<1>4. batches[visit] = NoBatch
  BY <1>1, <1>2, <1>3 DEF ItemsInv, BatchInv
<1>5. order \in Seq(validItems) /\ \A k \in validItems : Once(order, k)
  <2>1. validItems \subseteq 1..keyCounter
    BY <1>3 DEF validItems
  <2>2. IsFiniteSet(validItems) /\ validItems \subseteq Nat
    <3>1. IsFiniteSet(1..keyCounter)
      BY <1>3, FS_Interval
    <3>2. 1..keyCounter \subseteq Nat
      BY <1>3
    <3> QED BY <2>1, <3>1, <3>2, FS_Subset
  <2> QED BY <2>2, ListedIs
<1> HIDE DEF order
<1>6. \A i \in DOMAIN order : order[i] \in validItems
  BY <1>5
<1>7. \A i, j \in DOMAIN order : order[i] = order[j] => i = j
  BY <1>5, <1>6 DEF Once
<1>8. \A k \in DOMAIN items : Effective(items[k]) = items[k] /\ Snapshot(k, items[k]) \in Snapshots
  <2>1. ASSUME NEW k \in DOMAIN items PROVE Effective(items[k]) = items[k] /\ Snapshot(k, items[k]) \in Snapshots
    <3>1. items[k] \in Items /\ Available(items[k].provider) /\ k \in Keys
      BY <1>2, <1>3 DEF ItemsInv
    <3>2. Effective(items[k]) = items[k]
      BY <3>1 DEF Effective
    <3>3. Snapshot(k, items[k]) \in Snapshots
      BY <3>1 DEF Snapshot, Snapshots, Items, Scopes
    <3> QED BY <3>2, <3>3
  <2> QED BY <2>1
<1>9. /\ DOMAIN queue = DOMAIN order
      /\ \A i \in DOMAIN order : /\ order[i] \in DOMAIN items /\ ~items[order[i]].error
                                 /\ queue[i] = Snapshot(order[i], items[order[i]])
                                 /\ queue[i] \in Snapshots
  BY <1>6, <1>8 DEF validItems
<1>10. queue \in Seq(Snapshots)
  <2>1. order \in Seq(validItems)
    BY <1>5
  <2>2. DOMAIN order = 1..Len(order) /\ Len(order) \in Nat
    BY <2>1
  <2> QED BY <1>9, <2>2
<1>11. \A i \in DOMAIN order : queue[i].key = order[i] /\ queue[i].provider = items[order[i]].provider
  BY <1>9 DEF Snapshot
<1> HIDE DEF queue
<1>12. \A d \in Created : stored[d].file[1] = visit =>
          /\ stored[d].file[2] \in 1..keyCounter
          /\ stored[d].file[2] \in DOMAIN items => items[stored[d].file[2]].error
  BY <1>2, <1>4 DEF ItemsInv, NoBatch
<1>13. Ready(visit, queue)
  <2>1. \A i \in DOMAIN queue : Available(queue[i].provider)
    BY <1>2, <1>9, <1>11 DEF ItemsInv
  <2>2. \A d \in Created : stored[d].file[1] = visit => \A i \in DOMAIN queue : queue[i].key # stored[d].file[2]
    BY <1>9, <1>11, <1>12
  <2> QED BY <1>7, <1>9, <1>11, <2>1, <2>2 DEF Ready
<1>14. Settled(queue, items)
  <2>1. \A k \in DOMAIN items : Available(items[k].provider) /\ ~items[k].uploading
    BY <1>1, <1>2 DEF ItemsInv
  <2>2. \A i \in DOMAIN queue :
          /\ queue[i].key \in 1..keyCounter /\ queue[i].key \in DOMAIN items \cup lateEdits
          /\ queue[i].key \in DOMAIN items \ lateEdits => queue[i] = Snapshot(queue[i].key, items[queue[i].key])
    BY <1>3, <1>9, <1>11
  <2> QED BY <1>2, <1>12, <2>1, <2>2 DEF Settled, UploadShape
<1>15. FollowInv'
  BY <1>1 DEF UploadInv, FollowInv, followVars, LoopInv, Awaiting, RunningIn, Partial
<1> QED BY <1>1, <1>2, <1>3, <1>10, <1>13, <1>14, <1>15, AdvanceStep

(* What the items of the page are, once the file k of its loop is done     *)
(* with: now is without it, or shows it as refused.                        *)
LEMMA DoneStep ==
  ASSUME UploadAssumption, UploadInv, NEW k, k = batches[visit].sending.key,
         NEW now,
         \/ now = Refused(k) /\ batches[visit].stage # "none"
         \/ now = Without(k) /\ batches[visit].stage = "accepted"
  PROVE  Settled(batches[visit].queue, now)
<1> DEFINE b == batches[visit]
<1>1. UploadShape /\ ItemsInv /\ BatchInv(visit)
  BY DEF UploadInv, UploadShape
<1>2. b.stage # "none" /\ b.sending.key = k
  OBVIOUS
<1>3. Partial(items, 1..keyCounter, Items)
  BY <1>1 DEF UploadShape
<1>4. /\ DOMAIN now \subseteq DOMAIN items /\ Partial(now, 1..keyCounter, Items)
      /\ \A j \in DOMAIN now \ {k} : now[j] = items[j]
      /\ DOMAIN items \subseteq DOMAIN now \cup {k}
      /\ k \in DOMAIN now => /\ now[k].error /\ ~now[k].uploading
                             /\ now[k].provider = items[k].provider
  <2>1. CASE now = Without(k)
    BY <1>3, <2>1, RestrictPartial DEF Without
  <2>2. CASE now = Refused(k)
    <3>1. DOMAIN now = DOMAIN items
      BY <2>2 DEF Refused
    <3>2. \A j \in DOMAIN now : /\ now[j] \in Items
                                /\ j # k => now[j] = items[j]
                                /\ j = k => now[j].error /\ ~now[j].uploading /\ now[j].provider = items[j].provider
      <4>1. \A j \in DOMAIN now :
              now[j] = IF j = k THEN [items[j] EXCEPT !.uploading = FALSE, !.error = TRUE] ELSE items[j]
        BY <2>2, <3>1 DEF Refused
      <4>2. \A j \in DOMAIN now : items[j] \in Items
        BY <1>3, <3>1 DEF Partial
      <4>3. ASSUME NEW i \in Items, NEW r, r = [i EXCEPT !.uploading = FALSE, !.error = TRUE]
            PROVE  r \in Items /\ r.error = TRUE /\ r.uploading = FALSE /\ r.provider = i.provider
        BY <4>3 DEF Items
      <4> QED BY <4>1, <4>2, <4>3
    <3>3. now \in [DOMAIN now -> Items]
      BY <3>1, <3>2, <2>2 DEF Refused
    <3> QED BY <1>3, <3>1, <3>2, <3>3 DEF Partial
  <2> QED BY <2>1, <2>2
<1>6. \A j \in DOMAIN now : Available(now[j].provider) /\ ~now[j].uploading
  <2>1. \A j \in DOMAIN items : Available(items[j].provider) /\ (items[j].uploading => j = k)
    BY <1>1, <1>2 DEF ItemsInv
  <2> QED BY <1>4, <2>1
<1>7. \A i \in DOMAIN b.queue :
        /\ b.queue[i].key # k /\ b.queue[i].key \in 1..keyCounter
        /\ b.queue[i].key \in DOMAIN now \cup lateEdits
        /\ b.queue[i].key \in DOMAIN now \ lateEdits
             => b.queue[i] = Snapshot(b.queue[i].key, now[b.queue[i].key])
  <2>1. \A i \in DOMAIN b.queue : b.queue[i].key # k
    BY <1>1, <1>2 DEF BatchInv, Queued
  <2>2. \A i \in DOMAIN b.queue :
        /\ b.queue[i].key \in 1..keyCounter
        /\ b.queue[i].key \in DOMAIN items \cup lateEdits
        /\ b.queue[i].key \in DOMAIN items \ lateEdits
             => b.queue[i] = Snapshot(b.queue[i].key, items[b.queue[i].key])
    BY <1>1 DEF ItemsInv
  <2> HIDE DEF b
  <2> QED BY <1>4, <2>1, <2>2
<1>8. \A d \in Created : stored[d].file[1] = visit =>
        /\ stored[d].file[2] \in 1..keyCounter
        /\ stored[d].file[2] \in DOMAIN now => now[stored[d].file[2]].error
  <2>1. \A d \in Created : stored[d].file[1] = visit =>
           /\ stored[d].file[2] \in 1..keyCounter
           /\ stored[d].file[2] \in DOMAIN items => items[stored[d].file[2]].error \/ stored[d].file[2] = k
    BY <1>1, <1>2 DEF ItemsInv
  <2> QED BY <1>4, <2>1
<1> QED BY <1>4, <1>6, <1>7, <1>8 DEF Settled

LEMMA UploadReplyStep ==
  ASSUME UploadAssumption, UploadInv, NEW v \in Visits, UploadReply(v)
  PROVE  UploadInv'
<1> DEFINE b == batches[v]
<1>1. /\ b.stage = "accepted"
      /\ UNCHANGED <<stored, health, visit, keyCounter, edits, lateEdits, topicsVars>>
  BY DEF UploadReply
<1>2. /\ UploadShape /\ LaterInv /\ OneDocumentPerFile /\ ItemsInv /\ \A w \in Visits : BatchInv(w)
      /\ Partial(pipeline, Docs, Statuses) /\ LoopInv(uploadLoop, RunningIn(pipeline))
  BY DEF UploadInv, FollowInv
<1>3. b.queue \in Seq(Snapshots) /\ Ready(v, b.queue) /\ v <= visit /\ b.doc \in Docs
  BY <1>1, <1>2, QueueIs DEF BatchInv
<1>4. CASE v = visit
  <2>1. /\ Follow(Plus(pipeline, b.doc, "running"))
        /\ Advance(v, b.queue, Without(b.sending.key))
    BY <1>4 DEF UploadReply
  <2>2. FollowInv'
    <3>1. pipeline' = Plus(pipeline, b.doc, "running") /\ uploadLoop' = Tracking(uploadLoop, RunningIn(pipeline'))
      BY <2>1 DEF Follow
    <3> HIDE DEF b
    <3>2. "running" \in Statuses
      BY DEF Statuses
    <3>3. Partial(pipeline', Docs, Statuses)
      BY <1>2, <1>3, <3>1, <3>2, PlusPartial
    <3> QED BY <1>2, <3>1, <3>3, TrackingIs, RunningIsIn DEF FollowInv
  <2>3. Settled(b.queue, Without(b.sending.key))
    BY <1>1, <1>4, DoneStep
  <2> QED BY <1>1, <1>2, <1>3, <1>4, <2>1, <2>2, <2>3, AdvanceStep
<1>5. CASE v # visit
  <2>1. Advance(v, b.queue, items) /\ UNCHANGED followVars
    BY <1>5 DEF UploadReply
  <2>2. FollowInv'
    BY <1>2, <2>1 DEF FollowInv, followVars, LoopInv, Awaiting, RunningIn, Partial
  <2> QED BY <1>1, <1>2, <1>3, <1>5, <2>1, <2>2, AdvanceStep
<1> QED BY <1>4, <1>5

LEMMA UploadFailsStep ==
  ASSUME UploadAssumption, UploadInv, NEW v \in Visits, UploadFails(v)
  PROVE  UploadInv'
<1> DEFINE b == batches[v]
           now == IF v = visit THEN Refused(b.sending.key) ELSE items
<1>1. /\ b.stage # "none" /\ Advance(v, b.queue, now)
      /\ UNCHANGED <<stored, health, visit, keyCounter, edits, lateEdits, topicsVars, followVars>>
  BY DEF UploadFails
<1>2. UploadShape /\ LaterInv /\ OneDocumentPerFile /\ ItemsInv /\ \A w \in Visits : BatchInv(w)
  BY DEF UploadInv
<1>3. b.queue \in Seq(Snapshots) /\ Ready(v, b.queue) /\ v <= visit
  BY <1>1, QueueIs
<1>4. FollowInv'
  BY <1>1 DEF UploadInv, FollowInv, followVars, LoopInv, Awaiting, RunningIn, Partial
<1>5. v = visit => Settled(b.queue, now)
  BY <1>1, DoneStep
<1>6. v # visit => now = items
  OBVIOUS
<1> HIDE DEF now, b
<1> QED BY <1>1, <1>2, <1>3, <1>4, <1>5, <1>6, AdvanceStep

LEMMA ServeUploadStep ==
  ASSUME PollingAssumption, UploadAssumption, StoredInv, UploadInv, NEW v \in Visits, ServeUpload(v)
  PROVE  UploadInv' /\ StoredInv' /\ Grown
<1> DEFINE b == batches[v]
           n == Len(stored')
<1>1. UploadShape /\ LaterInv /\ OneDocumentPerFile /\ ItemsInv /\ \A w \in Visits : BatchInv(w)
  BY DEF UploadInv
<1>2. /\ b.stage = "sent" /\ Len(stored) < MaxDocs
      /\ stored' = Append(stored, [scope |-> b.sending.scope, status |-> "running",
                                   file |-> <<v, b.sending.key>>])
      /\ batches' = [batches EXCEPT ![v].stage = "accepted", ![v].doc = n]
      /\ UNCHANGED <<health, visit, formVars, topicsVars, followVars, uploading>>
  BY DEF ServeUpload
<1>3. b.sending \in Snapshots /\ b \in Batches /\ v <= visit
  BY <1>1, <1>2, QueueIs DEF BatchInv, UploadShape
<1> DEFINE row == [scope |-> b.sending.scope, status |-> "running", file |-> <<v, b.sending.key>>]
<1>4. row \in Rows /\ row.file[1] = v /\ row.file[2] = b.sending.key
  BY <1>3 DEF Rows, Snapshots, Statuses
<1>5. /\ StoredInv' /\ Grown /\ n \in Docs
      /\ Created' = Created \cup {n} /\ n \notin Created
      /\ stored'[n] = row
      /\ \A d \in Created : stored'[d] = stored[d]
  <2>1. stored' = Append(stored, row)
    BY <1>2
  <2> HIDE DEF row
  <2> QED BY <1>2, <1>4, <2>1, AppendStep
<1> HIDE DEF n
<1>6. /\ batches' \in [Visits -> Batches] /\ \A w \in Visits \ {v} : batches'[w] = batches[w]
      /\ batches'[v].queue = b.queue /\ batches'[v].sending = b.sending
      /\ batches'[v].stage = "accepted" /\ batches'[v].doc = n
  <2>1. [b EXCEPT !.stage = "accepted", !.doc = n] \in Batches
    BY <1>3, <1>5 DEF Batches
  <2>2. batches \in [Visits -> Batches]
    BY <1>1 DEF UploadShape
  <2>3. batches'[v] = [b EXCEPT !.stage = "accepted", !.doc = n]
    BY <1>2, <2>2
  <2> QED BY <1>2, <1>3, <2>1, <2>2, <2>3 DEF Batches
<1>7. \A w \in Visits \ {v} : BatchInv(w)'
  <2>1. ASSUME NEW w \in Visits \ {v} PROVE BatchInv(w)'
    <3>1. \A d \in Created' : stored'[d].file[1] = w => d \in Created /\ stored'[d] = stored[d]
      BY <1>4, <1>5
    <3>2. batches'[w] = batches[w] /\ Queued(w)' = Queued(w) /\ BatchInv(w)
      BY <1>1, <1>6 DEF Queued
    <3>3. \A p : Available(p)' <=> Available(p)
      BY <1>2 DEF Available
    <3>4. \A d \in Created' : stored'[d].file[1] = w =>
           /\ stored'[d].file[2] \notin Queued(w)
           /\ batches[w].stage = "sent" => stored'[d].file[2] # batches[w].sending.key
      BY <3>1, <3>2 DEF BatchInv
    <3> QED BY <3>2, <3>3, <3>4 DEF BatchInv
  <2> QED BY <2>1
<1>8. BatchInv(v)'
  <2>1. BatchInv(v)
    BY <1>1
  <2>2. Queued(v)' = Queued(v)
    BY <1>6 DEF Queued
  <2>3. \A d \in Created' : stored'[d].file[1] = v => stored'[d].file[2] \notin Queued(v)
    <3>1. ASSUME NEW d \in Created, stored[d].file[1] = v PROVE stored[d].file[2] \notin Queued(v)
      BY <2>1, <3>1 DEF BatchInv
    <3>2. b.sending.key \notin Queued(v)
      BY <1>2, <2>1 DEF BatchInv
    <3>3. stored'[n].file[2] = b.sending.key
      BY <1>4, <1>5
    <3> QED
      BY <1>5, <3>1, <3>2, <3>3
  <2>4. /\ b.sending.key \notin Queued(v) /\ Available(b.sending.provider)
        /\ \A i, j \in DOMAIN b.queue : b.queue[i].key = b.queue[j].key => i = j
        /\ \A i \in DOMAIN b.queue : Available(b.queue[i].provider)
    BY <1>2, <2>1 DEF BatchInv
  <2>5. \A p : Available(p)' <=> Available(p)
    BY <1>2 DEF Available
  <2> HIDE DEF b
  <2> QED BY <1>3, <1>5, <1>6, <2>2, <2>3, <2>4, <2>5 DEF BatchInv
<1>9. LaterInv'
  <2>1. v \in Nat /\ visit \in Nat /\ v <= visit
    BY <1>1, <1>3 DEF UploadShape, Visits, UploadAssumption
  <2>2. \A w \in Visits : w > visit => w # v
    BY <2>1
  <2>3. \A d \in Created' : stored'[d].file[1] <= visit
    BY <1>1, <1>4, <1>5, <2>1 DEF LaterInv
  <2> QED BY <1>1, <1>2, <1>6, <2>2, <2>3 DEF LaterInv
<1>10. OneDocumentPerFile'
  <2>1. \A d \in Created : stored[d].file # row.file
    BY <1>1, <1>2, <1>4 DEF BatchInv
  <2> QED BY <1>1, <1>5, <2>1 DEF OneDocumentPerFile
<1>11. UploadShape' /\ FollowInv'
  BY <1>1, <1>2, <1>6 DEF UploadInv, UploadShape, FollowInv, formVars, topicsVars, followVars,
                          LoopInv, Awaiting, RunningIn, Partial
<1>12. ItemsInv'
  <2>1. UNCHANGED <<health, visit, items, keyCounter, lateEdits, uploading>> /\ visit \in Visits
    BY <1>1, <1>2 DEF formVars, UploadShape
  <2>2. CASE v # visit
    <3>1. batches'[visit] = batches[visit]
          /\ \A d \in Created' : stored'[d].file[1] = visit => d \in Created /\ stored'[d] = stored[d]
      BY <1>4, <1>5, <1>6, <2>1, <2>2
    <3>2. batches'[visit'] = batches[visit] /\ visit' = visit
      BY <2>1, <3>1
    <3>3. \A p : Available(p)' <=> Available(p)
      BY <2>1 DEF Available
    <3> QED BY <1>1, <2>1, <3>1, <3>2, <3>3 DEF ItemsInv
  <2>3. CASE v = visit
    <3>1. ItemsInv /\ b = batches[visit] /\ visit' = visit
      BY <1>1, <2>1, <2>3
    <3>2. \A d \in Created' : stored'[d].file[1] = visit =>
           /\ stored'[d].file[2] \in 1..keyCounter
           /\ stored'[d].file[2] \in DOMAIN items => items[stored'[d].file[2]].error \/ b.sending.key = stored'[d].file[2]
      <4>1. stored'[n].file[2] = b.sending.key
        BY <1>4, <1>5
      <4>2. b.sending.key \in 1..keyCounter
        BY <1>2, <3>1 DEF ItemsInv
      <4>3. ASSUME NEW d \in Created, stored[d].file[1] = visit
            PROVE  /\ stored[d].file[2] \in 1..keyCounter
                   /\ stored[d].file[2] \in DOMAIN items => items[stored[d].file[2]].error
        BY <1>2, <3>1, <4>3 DEF ItemsInv
      <4> QED BY <1>5, <4>1, <4>2, <4>3
    <3> DEFINE c == batches'[v]
    <3>3. c = batches'[visit'] /\ c.queue = b.queue /\ c.sending = b.sending /\ c.stage = "accepted"
      BY <1>6, <2>3, <3>1
    <3>4. /\ uploading
          /\ \A k \in DOMAIN items : Available(items[k].provider)
          /\ \A k \in DOMAIN items : items[k].uploading => b.sending.key = k
          /\ b.sending.key \in DOMAIN items => items[b.sending.key].uploading
          /\ b.sending.key \in DOMAIN items \cup lateEdits
          /\ b.sending.key \in DOMAIN items \ lateEdits
              => b.sending = Snapshot(b.sending.key, items[b.sending.key])
          /\ \A i \in DOMAIN b.queue :
              /\ b.queue[i].key \in 1..keyCounter
              /\ b.queue[i].key \in DOMAIN items \cup lateEdits
              /\ b.queue[i].key \in DOMAIN items \ lateEdits
                   => b.queue[i] = Snapshot(b.queue[i].key, items[b.queue[i].key])
          /\ b.sending.key \in 1..keyCounter
      BY <1>2, <3>1 DEF ItemsInv
    <3> HIDE DEF b, c
    <3>5. \A p : Available(p)' <=> Available(p)
      BY <2>1 DEF Available
    <3> QED BY <2>1, <3>2, <3>3, <3>4, <3>5 DEF ItemsInv
  <2> QED BY <2>2, <2>3
<1> QED BY <1>5, <1>7, <1>8, <1>9, <1>10, <1>11, <1>12 DEF UploadInv

LEMMA FreshIs ==
  ASSUME UploadAssumption
  PROVE  /\ Fresh.items = <<>> /\ Fresh.pipeline = <<>> /\ Fresh.loop = NewLoop({})
         /\ Fresh.topicsReq \in {"none", "sent"}
         /\ RunningIn(<<>>) = {} /\ LoopInv(NewLoop({}), {})
BY NothingPartial, NewLoopIs DEF Fresh, RunningIn

LEMMA UploadLeftStep ==
  ASSUME PollingAssumption, UploadAssumption, StoredInv, UploadInv, UploadLeft
  PROVE  UploadInv'
<1>1. UploadShape /\ LaterInv /\ OneDocumentPerFile /\ \A w \in Visits : BatchInv(w)
  BY DEF UploadInv
<1>2. /\ visit < MaxVisits /\ visit' = visit + 1
      /\ items' = <<>> /\ keyCounter' = 0 /\ edits' = 0 /\ lateEdits' = {}
      /\ pipeline' = <<>> /\ uploadLoop' = NewLoop({}) /\ uploading' = FALSE
      /\ topicsStatus' = "loading" /\ topicsReq' \in {"none", "sent"}
      /\ UNCHANGED <<stored, health, batches>>
  BY FreshIs DEF UploadLeft
<1>3. visit \in Nat /\ visit' \in Visits /\ visit \in Visits
  BY <1>1, <1>2 DEF UploadShape, Visits, UploadAssumption
<1>4. UploadShape'
  <2>1. Partial(items', 1..keyCounter', Items)
    BY <1>2, NothingPartial
  <2>2. keyCounter' \in 0..MaxFiles /\ edits' \in 0..MaxEdits
    BY <1>2 DEF UploadAssumption
  <2> QED BY <1>1, <1>2, <1>3, <2>1, <2>2 DEF UploadShape
<1>5. FollowInv'
  BY <1>2, FreshIs, NothingPartial DEF FollowInv
<1>6. \A w \in Visits : BatchInv(w)'
  BY <1>1, <1>2 DEF BatchInv, Created, Queued, Available
<1>7. LaterInv'
  <2>1. \A w \in Visits : w > visit' => w > visit
    BY <1>2, <1>3 DEF Visits
  <2>2. \A d \in Created : stored[d].file[1] <= visit => stored[d].file[1] <= visit'
    <3>1. \A d \in Created : stored[d].file[1] \in Nat
      BY CreatedAre DEF Rows, Visits
    <3> QED BY <1>2, <1>3, <3>1
  <2> QED BY <1>1, <1>2, <2>1, <2>2 DEF LaterInv, Created
<1>8. OneDocumentPerFile'
  BY <1>1, <1>2 DEF OneDocumentPerFile, Created
<1>9. ItemsInv'
  <2>1. batches[visit'] = NoBatch
    BY <1>1, <1>2, <1>3 DEF LaterInv, Visits
  <2>2. \A d \in Created : stored[d].file[1] # visit'
    BY <1>1, <1>2, <1>3 DEF LaterInv
  <2>3. DOMAIN NoBatch.queue = {} /\ NoBatch.stage = "none" /\ DOMAIN items' = {}
    BY <1>2, NoBatchIs, NothingPartial DEF NoBatch
  <2> QED BY <1>2, <2>1, <2>2, <2>3 DEF ItemsInv, Created
<1> QED BY <1>4, <1>5, <1>6, <1>7, <1>8, <1>9 DEF UploadInv

LEMMA UploadInitially ==
  ASSUME UploadAssumption, stored = <<>>, UploadInit
  PROVE  UploadInv
<1>1. /\ health = "pending" /\ visit = 1
      /\ items = <<>> /\ keyCounter = 0 /\ edits = 0 /\ lateEdits = {}
      /\ pipeline = <<>> /\ uploadLoop = NewLoop({}) /\ uploading = FALSE
      /\ batches = [v \in Visits |-> NoBatch]
      /\ topicsStatus = "loading" /\ topicsReq \in {"none", "sent"}
  BY FreshIs DEF UploadInit
<1>2. 1 \in Visits /\ Created = {} /\ DOMAIN items = {}
  BY <1>1, NothingPartial DEF Visits, UploadAssumption, Created
<1>3. UploadShape
  <2>1. Partial(items, 1..keyCounter, Items)
    BY <1>1, NothingPartial
  <2>2. batches \in [Visits -> Batches]
    BY <1>1, NoBatchIs
  <2>3. keyCounter \in 0..MaxFiles /\ edits \in 0..MaxEdits
    BY <1>1 DEF UploadAssumption
  <2> QED BY <1>1, <1>2, <2>1, <2>2, <2>3 DEF UploadShape
<1>4. FollowInv
  BY <1>1, FreshIs, NothingPartial DEF FollowInv
<1>5. \A w \in Visits : BatchInv(w)
  <2>1. \A w \in Visits : batches[w] = NoBatch
    BY <1>1
  <2> QED BY <1>2, <2>1, NoBatchIs DEF BatchInv, Queued, NoBatch
<1>6. LaterInv /\ OneDocumentPerFile
  BY <1>1, <1>2 DEF LaterInv, OneDocumentPerFile
<1>7. ItemsInv
  BY <1>1, <1>2, NoBatchIs DEF ItemsInv, NoBatch
<1> QED BY <1>3, <1>4, <1>5, <1>6, <1>7 DEF UploadInv

-----------------------------------------------------------------------------
(* The list of the documents page.                                         *)

LEMMA ShowIs ==
  ASSUME PollingAssumption, StoredInv, NEW shown, Partial(shown, Created, Statuses),
         NEW loop, NEW ids, LoopInv(loop, ids)
  PROVE  LoopInv(Tracking(loop, RunningIn(shown)), RunningIn(shown))
<1>1. RunningIn(shown) \subseteq Docs
  BY CreatedAre, RunningIsIn
<1> QED BY <1>1, TrackingIs

LEMMA ListForIs ==
  ASSUME NEW s \in Scopes
  PROVE  /\ ListFor(s).scope = s /\ ListFor(s).stage = "sent" /\ ListFor(s).items = <<>>
         /\ ListFor(s) \in [scope : Scopes, stage : {"none", "sent", "served"}, items : {<<>>}]
         /\ \A S, T : Partial(<<>>, S, T) /\ DOMAIN <<>> = {}
BY NothingPartial DEF ListFor, Scopes

LEMMA NoListIs ==
  /\ NoList \in [scope : Scopes, stage : {"none", "sent", "served"}, items : {NoList.items}]
  /\ NoList.stage = "none" /\ DOMAIN NoList.items = {}
  /\ Partial(NoList.items, Created, Statuses)
BY NothingPartial DEF NoList, Scopes

LEMMA ListStep ==
  ASSUME PollingAssumption, StoredInv, DocumentsInv,
         TryAgain \/ ServeList \/ ListReply \/ ListFails \/ \E s \in Scopes : Tab(s)
  PROVE  PageInv'
<1>1. PageShape /\ ListsInv /\ deleteReq' = deleteReq /\ stored' = stored /\ gone' = gone /\ Created' = Created
  BY StoredSame DEF DocumentsInv, PageInv, TryAgain, ServeList, ListReply, ListFails, Tab, deleteVars
<1>2. CASE TryAgain \/ \E s \in Scopes : Tab(s)
  <2>1. /\ scope' \in Scopes /\ loading' = TRUE /\ error' = FALSE /\ listReq' = ListFor(scope')
        /\ UNCHANGED <<documents, pageLoop>>
    BY <1>1, <1>2 DEF TryAgain, Tab, PageShape
  <2>2. /\ listReq' \in [scope : Scopes, stage : {"none", "sent", "served"}, items : {listReq'.items}]
        /\ listReq'.scope = scope' /\ listReq'.stage = "sent"
        /\ Partial(listReq'.items, Created, Statuses) /\ DOMAIN listReq'.items = {}
    BY <2>1, ListForIs
  <2>3. PageShape'
    BY <1>1, <2>1, <2>2 DEF PageShape, LoopInv, Awaiting, RunningIn, Partial
  <2>4. ListsInv'
    BY <1>1, <2>1, <2>2 DEF ListsInv
  <2> QED BY <2>3, <2>4 DEF PageInv
<1>3. CASE ServeList
  <2> DEFINE items_ == {d \in Known : stored[d].scope = listReq.scope}
             f == [d \in items_ |-> stored[d].status]
  <2>1. /\ listReq.stage = "sent" /\ listReq' = [listReq EXCEPT !.stage = "served", !.items = f]
        /\ UNCHANGED <<scope, documents, loading, error, pageLoop>>
    BY <1>3 DEF ServeList
  <2>2. DOMAIN f = items_ /\ Partial(f, Created, Statuses)
    BY CreatedAre DEF Partial, Known, Rows
  <2>3. \A d \in items_ : stored[d].scope = listReq.scope /\ stored[d].status # "deleted"
    BY DEF Known
  <2> HIDE DEF items_, f
  <2>4. listReq' = [scope |-> listReq.scope, stage |-> "served", items |-> f]
    BY <1>1, <2>1 DEF PageShape
  <2>5. PageShape'
    BY <1>1, <2>1, <2>2, <2>4 DEF PageShape, LoopInv, Awaiting, RunningIn, Partial
  <2>6. ListsInv'
    BY <1>1, <2>1, <2>2, <2>3, <2>4 DEF ListsInv
  <2> QED BY <2>5, <2>6 DEF PageInv
<1>4. CASE ListReply
  <2>1. /\ listReq.stage = "served" /\ documents' = listReq.items
        /\ pageLoop' = Tracking(pageLoop, RunningIn(documents'))
        /\ loading' = FALSE /\ listReq' = NoList /\ UNCHANGED <<scope, error>>
    BY <1>4 DEF ListReply, Show
  <2>2. Partial(documents', Created, Statuses) /\ LoopInv(pageLoop', RunningIn(documents'))
    BY <1>1, <2>1, ShowIs DEF PageShape
  <2>3. /\ listReq' = NoList /\ listReq' \in [scope : Scopes, stage : {"none", "sent", "served"}, items : {listReq'.items}]
        /\ listReq'.stage = "none"
        /\ Partial(listReq'.items, Created, Statuses) /\ DOMAIN listReq'.items = {}
    BY <2>1, NoListIs
  <2>4. PageShape'
    BY <1>1, <2>1, <2>2, <2>3 DEF PageShape, LoopInv, Awaiting, RunningIn, Partial
  <2>5. ListsInv'
    BY <1>1, <2>1, <2>3 DEF ListsInv, PageShape
  <2> QED BY <2>4, <2>5 DEF PageInv
<1>5. CASE ListFails
  <2>1. /\ loading' = FALSE /\ error' = TRUE /\ listReq' = NoList /\ UNCHANGED <<scope, documents, pageLoop>>
    BY <1>5 DEF ListFails
  <2>2. /\ listReq' = NoList /\ listReq' \in [scope : Scopes, stage : {"none", "sent", "served"}, items : {listReq'.items}]
        /\ listReq'.stage = "none"
        /\ Partial(listReq'.items, Created, Statuses) /\ DOMAIN listReq'.items = {}
    BY <2>1, NoListIs
  <2>3. PageShape'
    BY <1>1, <2>1, <2>2 DEF PageShape, LoopInv, Awaiting, RunningIn, Partial
  <2>4. ListsInv'
    BY <1>1, <2>1, <2>2 DEF ListsInv
  <2> QED BY <2>3, <2>4 DEF PageInv
<1> QED BY <1>2, <1>3, <1>4, <1>5

LEMMA PagePollStep ==
  ASSUME PollingAssumption, StoredInv, DocumentsInv, NEW d \in Docs,
         PageTick \/ PagePollServed(d) \/ PagePollReply(d) \/ PagePollFails(d)
  PROVE  PageInv'
<1>1. /\ PageShape /\ ListsInv /\ Created' = Created
      /\ UNCHANGED <<deleteReq, stored, gone, scope, loading, error, listReq>>
  BY StoredSame DEF DocumentsInv, PageInv, PageTick, PagePollServed, PagePollReply, PagePollFails, deleteVars
<1>2. Partial(documents, Created, Statuses) /\ LoopInv(pageLoop, RunningIn(documents))
  BY <1>1 DEF PageShape
<1>3. /\ Partial(documents', Created, Statuses) /\ DOMAIN documents' = DOMAIN documents
      /\ LoopInv(pageLoop', RunningIn(documents'))
  <2>1. CASE PageTick
    BY <1>2, <2>1, TickIs DEF PageTick
  <2>2. CASE PagePollServed(d)
    <3>1. stored[d].status \in Statuses
      BY <2>2, CreatedAre DEF PagePollServed, Known, Rows
    <3> QED BY <1>2, <2>2, <3>1, ServeIs DEF PagePollServed
  <2>3. CASE PagePollReply(d)
    <3>1. documents' = Updated(documents, d, pageLoop.round[d])
          /\ pageLoop' = Tracking(Settle(pageLoop, d), RunningIn(documents'))
          /\ pageLoop.round[d] \in Statuses
      BY <1>2, <2>3, ReplyIs DEF PagePollReply
    <3>2. Partial(documents', Created, Statuses) /\ DOMAIN documents' = DOMAIN documents
      BY <1>2, <3>1, UpdatedPartial
    <3>3. LoopInv(Settle(pageLoop, d), RunningIn(documents))
      BY <1>2, SettleIs
    <3> QED BY <3>1, <3>2, <3>3, ShowIs
  <2>4. CASE PagePollFails(d)
    BY <1>2, <2>4, SettleIs DEF PagePollFails
  <2> QED BY <2>1, <2>2, <2>3, <2>4
<1>4. PageShape'
  BY <1>1, <1>3 DEF PageShape, LoopInv, Awaiting, RunningIn, Partial
<1>5. ListsInv'
  BY <1>1, <1>3 DEF ListsInv
<1> QED BY <1>4, <1>5 DEF PageInv

-----------------------------------------------------------------------------
(* The dialog.                                                             *)

LEMMA TracksIn ==
  ASSUME NEW open, NEW detail \in Details, detail.status # "none" => detail.id # NoDoc
  PROVE  DialogTracks(open, detail) \subseteq Docs /\ DialogTracks(FALSE, detail) = {}
BY DEF DialogTracks, Details

LEMMA OpenStep ==
  ASSUME PollingAssumption, StoredInv, DocumentsInv, NEW d \in Docs, Open(d)
  PROVE  DialogInv'
<1>1. DialogShape /\ RequestsInv
  BY DEF DocumentsInv, DialogInv
<1>2. /\ d \in Cards /\ selected' = d /\ detailOpen' = TRUE
      /\ detailReq' = [key |-> d, stage |-> "sent", status |-> "none"]
      /\ dialogLoop' = Tracking(dialogLoop, DialogTracks(TRUE, fetchState))
      /\ UNCHANGED <<fetchState, confirming, askedOn, deleting, deleteReq>>
  BY DEF Open, Request, deleteVars
<1>3. detailOpen = FALSE /\ d # NoDoc
  BY <1>1, <1>2 DEF Cards, DialogShape, NoDoc, Docs, PollingAssumption
<1>4. LoopInv(dialogLoop', DialogTracks(TRUE, fetchState))
  BY <1>1, <1>2, TracksIn, TrackingIs DEF DialogShape, RequestsInv
<1>5. DialogTracks(detailOpen, fetchState)' = DialogTracks(TRUE, fetchState)
  BY <1>2 DEF DialogTracks
<1>6. DialogShape'
  BY <1>1, <1>2, <1>4, <1>5 DEF DialogShape, LoopInv, Awaiting
<1>7. RequestsInv'
  BY <1>1, <1>2, <1>3 DEF RequestsInv, DialogLoading
<1> QED BY <1>6, <1>7 DEF DialogInv

LEMMA ClosedIs ==
  ASSUME DialogInv, Closed, fetchState' = fetchState
  PROVE  /\ LoopInv(dialogLoop', DialogTracks(detailOpen', fetchState'))
         /\ detailOpen' = FALSE /\ detailReq' = NoFetch
BY TrackingIs DEF DialogInv, DialogShape, Closed, DialogTracks

LEMMA CloseStep ==
  ASSUME DocumentsInv, Close
  PROVE  DialogInv'
<1>1. DialogShape /\ RequestsInv /\ DialogInv
  BY DEF DocumentsInv, DialogInv
<1>2. /\ Closed /\ confirming' = FALSE /\ askedOn' = NoDoc
      /\ UNCHANGED <<selected, fetchState, deleting, deleteReq>>
  BY DEF Close
<1>0. /\ LoopInv(dialogLoop', DialogTracks(detailOpen', fetchState'))
      /\ detailOpen' = FALSE /\ detailReq' = NoFetch
  BY <1>1, <1>2, ClosedIs
<1>3. DialogShape'
  BY <1>1, <1>2, <1>0 DEF DialogShape, NoFetch
<1>4. RequestsInv'
  BY <1>1, <1>2, ClosedIs DEF RequestsInv, DialogLoading, NoFetch
<1> QED BY <1>3, <1>4 DEF DialogInv

LEMMA DetailStep ==
  ASSUME PollingAssumption, StoredInv, DocumentsInv, ServeDetail \/ DetailReply \/ DetailFails \/ DetailRetry
  PROVE  DialogInv'
<1>1. DialogShape /\ RequestsInv
  BY DEF DocumentsInv, DialogInv
<1>2. CASE ServeDetail
  <2>1. /\ detailReq.stage = "sent"
        /\ detailReq' = [detailReq EXCEPT !.stage = "served", !.status = stored[detailReq.key].status]
        /\ UNCHANGED <<selected, detailOpen, fetchState, dialogLoop, confirming, askedOn, deleting, deleteReq>>
        /\ stored[detailReq.key].status \in Statuses
    BY <1>2, CreatedAre DEF ServeDetail, deleteVars, Known, Rows
  <2>2. /\ detailReq' \in [key : Docs \cup {NoDoc}, stage : {"none", "sent", "served"},
                           status : Statuses \cup {"none"}]
        /\ detailReq'.key = detailReq.key /\ detailReq'.stage = "served" /\ detailReq'.status \in Statuses
    BY <1>1, <2>1 DEF DialogShape
  <2>3. DialogShape'
    BY <1>1, <2>1, <2>2 DEF DialogShape, LoopInv, Awaiting, DialogTracks
  <2>4. RequestsInv'
    BY <1>1, <2>1, <2>2 DEF RequestsInv, DialogLoading
  <2> QED BY <2>3, <2>4 DEF DialogInv
<1>3. CASE DetailReply \/ DetailFails
  <2>1. /\ detailReq.stage # "none" /\ detailReq' = NoFetch /\ detailOpen /\ detailReq.key = selected
        /\ detailReq.key # NoDoc /\ selected \in Docs
        /\ dialogLoop' = Tracking(dialogLoop, DialogTracks(detailOpen, fetchState'))
        /\ UNCHANGED <<selected, detailOpen, confirming, askedOn, deleting, deleteReq>>
    BY <1>1, <1>3 DEF DetailReply, DetailFails, Landed, deleteVars, RequestsInv, DialogShape
  <2>2. /\ fetchState' \in Details /\ fetchState'.key = selected
        /\ ~fetchState'.error => fetchState'.id = selected
        /\ fetchState'.status # "none" => fetchState'.id = selected
    <3>1. CASE DetailReply
      <4>1. detailReq.status \in Statuses
        BY <1>1, <3>1 DEF DetailReply, RequestsInv
      <4> QED BY <2>1, <3>1, <4>1 DEF DetailReply, Landed, Details
    <3>2. CASE DetailFails
      BY <2>1, <3>2 DEF DetailFails, Landed, Details, NoDetail
    <3> QED BY <1>3, <3>1, <3>2
  <2>3. LoopInv(dialogLoop', DialogTracks(detailOpen', fetchState'))
    BY <1>1, <2>1, <2>2, TracksIn, TrackingIs DEF DialogShape
  <2>4. DialogShape'
    BY <1>1, <2>1, <2>2, <2>3 DEF DialogShape, NoFetch
  <2>5. RequestsInv'
    BY <1>1, <2>1, <2>2 DEF RequestsInv, DialogLoading, NoFetch
  <2> QED BY <2>4, <2>5 DEF DialogInv
<1>4. CASE DetailRetry
  <2>1. /\ detailOpen /\ fetchState' = [fetchState EXCEPT !.key = NoDoc]
        /\ detailReq' = [key |-> selected, stage |-> "sent", status |-> "none"]
        /\ UNCHANGED <<selected, detailOpen, dialogLoop, confirming, askedOn, deleting, deleteReq>>
    BY <1>4 DEF DetailRetry, Request, deleteVars
  <2>2. /\ fetchState' \in Details /\ fetchState'.key = NoDoc
        /\ fetchState'.id = fetchState.id /\ fetchState'.status = fetchState.status
    BY <1>1, <2>1 DEF DialogShape, Details
  <2>3. DialogTracks(detailOpen', fetchState') = DialogTracks(detailOpen, fetchState)
    BY <2>1, <2>2 DEF DialogTracks
  <2>4. DialogShape'
    BY <1>1, <2>1, <2>2, <2>3 DEF DialogShape, LoopInv, Awaiting
  <2>5. RequestsInv'
    BY <1>1, <2>1, <2>2 DEF RequestsInv, DialogLoading
  <2> QED BY <2>4, <2>5 DEF DialogInv
<1> QED BY <1>2, <1>3, <1>4

LEMMA DeletingStep ==
  ASSUME PollingAssumption, StoredInv, DocumentsInv,
         AskDelete \/ CancelDelete \/ Delete \/ ServeDelete \/ DeleteReply \/ DeleteFails
  PROVE  DialogInv'
<1>1. DialogShape /\ RequestsInv /\ DialogInv
  BY DEF DocumentsInv, DialogInv
<1>2. CASE AskDelete \/ CancelDelete
  <2>1. /\ detailOpen /\ UNCHANGED <<dialogVars, deleting, deleteReq>>
        /\ confirming' \in BOOLEAN /\ askedOn' \in {selected, NoDoc} /\ (confirming' => askedOn' = selected)
    BY <1>2 DEF AskDelete, CancelDelete
  <2>2. DialogShape'
    BY <1>1, <2>1 DEF DialogShape, dialogVars, LoopInv, Awaiting, DialogTracks
  <2>3. RequestsInv'
    BY <1>1, <2>1 DEF RequestsInv, dialogVars, DialogLoading
  <2> QED BY <2>2, <2>3 DEF DialogInv
<1>3. CASE Delete \/ ServeDelete \/ DeleteFails
  <2>1. /\ UNCHANGED <<dialogVars, confirming, askedOn>>
        /\ deleteReq' \in [id : Docs \cup {NoDoc}, stage : {"none", "sent", "served"}]
        /\ deleting' \in BOOLEAN /\ (deleting' <=> deleteReq'.stage # "none")
    <3>1. CASE Delete
      BY <1>1, <3>1 DEF Delete, DialogShape
    <3>2. CASE ServeDelete
      BY <1>1, <3>2 DEF ServeDelete, DialogShape, RequestsInv
    <3>3. CASE DeleteFails
      BY <3>3 DEF DeleteFails, NoDelete, NoDoc
    <3> QED BY <1>3, <3>1, <3>2, <3>3
  <2>2. DialogShape'
    BY <1>1, <2>1 DEF DialogShape, dialogVars, LoopInv, Awaiting, DialogTracks
  <2>3. RequestsInv'
    BY <1>1, <2>1 DEF RequestsInv, dialogVars, DialogLoading
  <2> QED BY <2>2, <2>3 DEF DialogInv
<1>4. CASE DeleteReply
  <2>1. /\ Closed /\ confirming' = FALSE /\ askedOn' = NoDoc /\ deleting' = FALSE /\ deleteReq' = NoDelete
        /\ UNCHANGED <<selected, fetchState>>
    BY <1>4 DEF DeleteReply
  <2>0. /\ LoopInv(dialogLoop', DialogTracks(detailOpen', fetchState'))
        /\ detailOpen' = FALSE /\ detailReq' = NoFetch
    BY <1>1, <2>1, ClosedIs
  <2>2. DialogShape'
    BY <1>1, <2>1, <2>0 DEF DialogShape, NoFetch, NoDelete
  <2>3. RequestsInv'
    BY <1>1, <2>1, ClosedIs DEF RequestsInv, DialogLoading, NoFetch, NoDelete
  <2> QED BY <2>2, <2>3 DEF DialogInv
<1> QED BY <1>2, <1>3, <1>4

LEMMA DialogPollStep ==
  ASSUME PollingAssumption, StoredInv, DocumentsInv, NEW d \in Docs,
         DialogTick \/ DialogPollServed(d) \/ DialogPollReply(d) \/ DialogPollFails(d)
  PROVE  DialogInv'
<1>1. DialogShape /\ RequestsInv
  BY DEF DocumentsInv, DialogInv
<1>2. UNCHANGED <<selected, detailOpen, detailReq, confirming, askedOn, deleting, deleteReq>>
  BY DEF DialogTick, DialogPollServed, DialogPollReply, DialogPollFails, deleteVars
<1>3. LoopInv(dialogLoop, DialogTracks(detailOpen, fetchState)) /\ fetchState \in Details
  BY <1>1 DEF DialogShape
<1>4. /\ LoopInv(dialogLoop', DialogTracks(detailOpen, fetchState'))
      /\ fetchState' \in Details /\ fetchState'.key = fetchState.key /\ fetchState'.id = fetchState.id
      /\ fetchState'.error = fetchState.error
      /\ fetchState'.status # "none" => fetchState'.id # NoDoc
  <2>1. CASE DialogTick
    BY <1>1, <1>3, <2>1, TickIs DEF DialogTick, RequestsInv
  <2>2. CASE DialogPollServed(d)
    <3>1. stored[d].status \in Statuses
      BY <2>2, CreatedAre DEF DialogPollServed, Known, Rows
    <3> QED BY <1>1, <1>3, <2>2, <3>1, ServeIs DEF DialogPollServed, RequestsInv
  <2>3. CASE DialogPollReply(d)
    <3>1. /\ fetchState' = IF fetchState.id = d
                   THEN [fetchState EXCEPT !.status = dialogLoop.round[d]] ELSE fetchState
          /\ dialogLoop' = Tracking(Settle(dialogLoop, d), DialogTracks(detailOpen, fetchState'))
          /\ dialogLoop.round[d] \in Statuses /\ d # NoDoc
      BY <1>3, <2>3, ReplyIs DEF DialogPollReply, NoDoc, Docs, PollingAssumption
    <3>2. /\ fetchState' \in Details /\ fetchState'.key = fetchState.key /\ fetchState'.id = fetchState.id
          /\ fetchState'.error = fetchState.error
          /\ fetchState'.status # "none" => fetchState'.id # NoDoc
      BY <1>1, <1>3, <3>1 DEF Details, RequestsInv
    <3>3. DialogTracks(detailOpen, fetchState') \subseteq Docs
      BY <3>2, TracksIn
    <3>4. LoopInv(Settle(dialogLoop, d), DialogTracks(detailOpen, fetchState))
      BY <1>3, SettleIs
    <3> QED BY <3>1, <3>2, <3>3, <3>4, TrackingIs
  <2>4. CASE DialogPollFails(d)
    BY <1>1, <1>3, <2>4, SettleIs DEF DialogPollFails, RequestsInv
  <2> QED BY <2>1, <2>2, <2>3, <2>4
<1>5. DialogShape'
  BY <1>1, <1>2, <1>4 DEF DialogShape
<1>6. RequestsInv'
  BY <1>1, <1>2, <1>4 DEF RequestsInv, DialogLoading
<1> QED BY <1>5, <1>6 DEF DialogInv

-----------------------------------------------------------------------------
(* Steps that disturb both the page and the dialog.                        *)

LEMMA ServeDeleteStep ==
  ASSUME StoredInv, DocumentsInv, ServeDelete
  PROVE  StoredInv' /\ SameFiles /\ PageInv'
<1> DEFINE d == deleteReq.id
<1>1. /\ d \in Created /\ stored[d].status # "deleted"
      /\ stored' = [stored EXCEPT ![d].status = "deleted"]
      /\ deleteReq' = [deleteReq EXCEPT !.stage = "served"] /\ UNCHANGED <<pageVars, gone>>
  BY DEF ServeDelete, Known
<1>2. StoredInv' /\ Grown /\ SameFiles /\ stored'[d].status = "deleted"
  BY <1>1, StatusStep
<1>3. deleteReq'.id = d /\ d \in Created'
  BY <1>1, <1>2 DEF DocumentsInv, DialogInv, DialogShape, Grown
<1>4. DocumentsInv => PageInv
  BY DEF DocumentsInv
<1> HIDE DEF d
<1> QED BY <1>1, <1>2, <1>3, <1>4, PageKept

LEMMA DeleteReplyStep ==
  ASSUME PollingAssumption, StoredInv, DocumentsInv, DeleteReply
  PROVE  PageInv'
<1> DEFINE d == deleteReq.id
<1>1. PageShape /\ ListsInv
  BY DEF DocumentsInv, PageInv
<1>2. /\ deleteReq.stage = "served" /\ d \in Created /\ stored[d].status = "deleted"
      /\ documents' = Restrict(documents, DOMAIN documents \ {d})
      /\ pageLoop' = Tracking(pageLoop, RunningIn(documents'))
      /\ deleteReq' = NoDelete /\ gone' = gone \cup ({d} \ DOMAIN listReq.items)
      /\ UNCHANGED <<stored, scope, loading, error, listReq>>
  BY <1>1 DEF DeleteReply, Deleted, Show, ListsInv
<1>3. Created' = Created
  BY <1>2, StoredSame
<1> HIDE DEF d
<1>4. /\ Partial(documents', Created, Statuses) /\ DOMAIN documents' = DOMAIN documents \ {d}
  BY <1>1, <1>2, RestrictPartial DEF PageShape
<1>5. LoopInv(pageLoop', RunningIn(documents'))
  BY <1>1, <1>2, <1>4, ShowIs DEF PageShape
<1>6. PageShape'
  BY <1>1, <1>2, <1>3, <1>4, <1>5 DEF PageShape
<1>7. ListsInv'
  BY <1>1, <1>2, <1>3, <1>4 DEF ListsInv, NoDelete
<1> QED BY <1>6, <1>7 DEF PageInv

LEMMA DialogPollPageStep ==
  ASSUME PollingAssumption, StoredInv, DocumentsInv, NEW d \in Docs, DialogPollReply(d)
  PROVE  PageInv'
<1>1. PageShape /\ ListsInv
  BY DEF DocumentsInv, PageInv
<1>2. dialogLoop.round[d] \in Statuses
  BY ReplyIs DEF DocumentsInv, DialogInv, DialogShape, DialogPollReply
<1>3. /\ documents' = Updated(documents, d, dialogLoop.round[d])
      /\ pageLoop' = Tracking(pageLoop, RunningIn(documents'))
      /\ UNCHANGED <<stored, scope, loading, error, listReq, gone, deleteReq>>
  BY DEF DialogPollReply, Show, deleteVars
<1>4. Created' = Created
  BY <1>3, StoredSame
<1>5. Partial(documents', Created, Statuses) /\ DOMAIN documents' = DOMAIN documents
  BY <1>1, <1>2, <1>3, UpdatedPartial DEF PageShape
<1>6. LoopInv(pageLoop', RunningIn(documents'))
  BY <1>1, <1>3, <1>5, ShowIs DEF PageShape
<1>7. PageShape'
  BY <1>1, <1>3, <1>4, <1>5, <1>6 DEF PageShape
<1>8. ListsInv'
  BY <1>1, <1>3, <1>4, <1>5 DEF ListsInv
<1> QED BY <1>7, <1>8 DEF PageInv

LEMMA DocumentsStep ==
  ASSUME PollingAssumption, StoredInv, DocumentsInv, DocumentsNext
  PROVE  StoredInv' /\ SameFiles /\ DocumentsInv'
<1>1. DialogInv /\ PageInv
  BY DEF DocumentsInv
<1>2. CASE TryAgain \/ ServeList \/ ListReply \/ ListFails \/ \E s \in Scopes : Tab(s)
  <2>1. UNCHANGED <<stored, dialogVars, deleteVars>>
    BY <1>2 DEF TryAgain, ServeList, ListReply, ListFails, Tab
  <2>2. DialogInv'
    BY <1>1, <2>1, DialogKept DEF deleteVars
  <2>3. PageInv'
    BY <1>2, ListStep
  <2> QED BY <2>1, <2>2, <2>3, StoredSame DEF DocumentsInv, StoredInv
<1>3. CASE PageTick \/ \E d \in Docs : PagePollServed(d) \/ PagePollReply(d) \/ PagePollFails(d)
  <2>1. UNCHANGED <<stored, dialogVars, deleteVars>>
    BY <1>3 DEF PageTick, PagePollServed, PagePollReply, PagePollFails
  <2>2. DialogInv'
    BY <1>1, <2>1, DialogKept DEF deleteVars
  <2>3. PageInv'
    <3>1. CASE PageTick
      <4>1. CASE Docs = {}
        BY <1>1, <3>1, <4>1 DEF PageTick, CanTick, PageInv, PageShape, LoopInv, Loops
      <4>2. CASE Docs # {}
        BY <3>1, <4>2, PagePollStep
      <4> QED BY <4>1, <4>2
    <3>2. CASE \E d \in Docs : PagePollServed(d) \/ PagePollReply(d) \/ PagePollFails(d)
      BY <3>2, PagePollStep
    <3> QED BY <1>3, <3>1, <3>2
  <2> QED BY <2>1, <2>2, <2>3, StoredSame DEF DocumentsInv, StoredInv
<1>4. CASE Close \/ ServeDetail \/ DetailReply \/ DetailFails \/ DetailRetry \/ \E d \in Docs : Open(d)
  <2>1. UNCHANGED <<stored, pageVars, gone, deleteReq>>
    BY <1>4 DEF Close, ServeDetail, DetailReply, DetailFails, DetailRetry, Open, deleteVars
  <2>2. PageInv'
    BY <1>1, <2>1, StoredSame, PageKept
  <2>3. DialogInv'
    BY <1>4, CloseStep, DetailStep, OpenStep
  <2> QED BY <2>1, <2>2, <2>3, StoredSame DEF DocumentsInv, StoredInv
<1>5. CASE AskDelete \/ CancelDelete \/ Delete \/ DeleteFails
  <2>1. UNCHANGED <<stored, pageVars, gone>> /\ (deleteReq' = deleteReq \/ deleteReq'.stage # "served")
    BY <1>5 DEF AskDelete, CancelDelete, Delete, DeleteFails, NoDelete
  <2>2. PageInv'
    BY <1>1, <2>1, StoredSame, PageKept
  <2>3. DialogInv'
    BY <1>5, DeletingStep
  <2> QED BY <2>1, <2>2, <2>3, StoredSame DEF DocumentsInv, StoredInv
<1>6. CASE ServeDelete
  BY <1>6, ServeDeleteStep, DeletingStep DEF DocumentsInv
<1>7. CASE DeleteReply
  <2>1. stored' = stored
    BY <1>7 DEF DeleteReply
  <2> QED BY <1>7, <2>1, DeleteReplyStep, DeletingStep, StoredSame DEF DocumentsInv, StoredInv
<1>8. CASE DialogTick \/ \E d \in Docs : DialogPollServed(d) \/ DialogPollReply(d) \/ DialogPollFails(d)
  <2>1. stored' = stored
    BY <1>8 DEF DialogTick, DialogPollServed, DialogPollReply, DialogPollFails
  <2>2. DialogInv'
    <3>1. CASE DialogTick
      <4>1. CASE Docs = {}
        BY <1>1, <3>1, <4>1 DEF DialogTick, CanTick, DialogInv, DialogShape, LoopInv, Loops
      <4>2. CASE Docs # {}
        BY <3>1, <4>2, DialogPollStep
      <4> QED BY <4>1, <4>2
    <3>2. CASE \E d \in Docs : DialogPollServed(d) \/ DialogPollReply(d) \/ DialogPollFails(d)
      BY <3>2, DialogPollStep
    <3> QED BY <1>8, <3>1, <3>2
  <2>3. PageInv'
    <3>1. CASE \E d \in Docs : DialogPollReply(d)
      BY <3>1, DialogPollPageStep
    <3>2. CASE DialogTick \/ \E d \in Docs : DialogPollServed(d) \/ DialogPollFails(d)
      <4>1. UNCHANGED <<stored, pageVars, gone, deleteReq>>
        BY <3>2 DEF DialogTick, DialogPollServed, DialogPollFails, deleteVars
      <4> QED BY <1>1, <4>1, StoredSame, PageKept
    <3> QED BY <1>8, <3>1, <3>2
  <2> QED BY <2>1, <2>2, <2>3, StoredSame DEF DocumentsInv, StoredInv
<1> QED BY <1>2, <1>3, <1>4, <1>5, <1>6, <1>7, <1>8 DEF DocumentsNext

LEMMA DocumentsInitially == DocumentsInit => DocumentsInv
<1> SUFFICES ASSUME DocumentsInit PROVE DocumentsInv
  OBVIOUS
<1>1. /\ scope = "personal" /\ documents = <<>> /\ loading = TRUE /\ error = FALSE
      /\ listReq = ListFor("personal") /\ pageLoop = NewLoop({})
      /\ selected = NoDoc /\ detailOpen = FALSE /\ fetchState = NoDetail /\ detailReq = NoFetch
      /\ dialogLoop = NewLoop({}) /\ confirming = FALSE /\ deleting = FALSE /\ deleteReq = NoDelete
      /\ gone = {} /\ askedOn = NoDoc
  BY DEF DocumentsInit
<1>2. /\ RunningIn(<<>>) = {} /\ DialogTracks(FALSE, NoDetail) = {} /\ LoopInv(NewLoop({}), {})
      /\ "personal" \in Scopes
  BY NothingPartial, NewLoopIs DEF RunningIn, DialogTracks, Scopes
<1>3. /\ listReq \in [scope : Scopes, stage : {"none", "sent", "served"}, items : {listReq.items}]
      /\ listReq.scope = scope /\ listReq.stage = "sent" /\ DOMAIN listReq.items = {}
      /\ Partial(listReq.items, Created, Statuses)
  BY <1>1, <1>2, ListForIs
<1>4. Partial(documents, Created, Statuses) /\ DOMAIN documents = {}
  BY <1>1, NothingPartial
<1>5. PageShape
  BY <1>1, <1>2, <1>3, <1>4 DEF PageShape
<1>6. ListsInv
  BY <1>1, <1>3, <1>4 DEF ListsInv, NoDelete
<1>7. DialogShape
  BY <1>1, <1>2 DEF DialogShape, Details, NoDetail, NoFetch, NoDelete
<1>8. RequestsInv
  BY <1>1 DEF RequestsInv, DialogLoading, NoDetail, NoFetch, NoDelete
<1> QED BY <1>5, <1>6, <1>7, <1>8 DEF DocumentsInv, PageInv, DialogInv

-----------------------------------------------------------------------------
(* Both pages.                                                             *)

LEMMA Initially ==
  ASSUME UploadAssumption, Init
  PROVE  IInv
<1>1. StoredInv
  BY PollingAssumption DEF Init, StoredInv, PollingAssumption
<1> QED BY <1>1, UploadInitially, DocumentsInitially DEF Init, IInv

LEMMA UploadPageStep ==
  ASSUME PollingAssumption, UploadAssumption, StoredInv, UploadInv, UploadNext
  PROVE  UploadInv' /\ stored' = stored
<1>1. CASE TopicsReply \/ TopicsRetry
  BY <1>1, TopicsStep DEF TopicsReply, TopicsRetry
<1>2. CASE \E valid \in BOOLEAN : AddFile(valid)
  BY <1>2, AddFileStep DEF AddFile
<1>3. CASE \E k \in Keys : Edit(k) \/ ChooseTopic(k) \/ RemoveItem(k)
  <2>1. PICK k \in Keys : Edit(k) \/ ChooseTopic(k) \/ RemoveItem(k)
    BY <1>3
  <2>2. stored' = stored
    BY <2>1 DEF Edit, ChooseTopic, RemoveItem, Changed
  <2> QED BY <2>1, <2>2, EditStep
<1>4. CASE ClearAll
  BY <1>4, ClearAllStep DEF ClearAll
<1>5. CASE Upload
  BY <1>5, UploadStep DEF Upload
<1>6. CASE UploadTick
  <2>1. Docs # {} /\ stored' = stored
    BY <1>6 DEF UploadTick, CanTick, UploadInv, FollowInv, LoopInv, Loops
  <2> QED BY <1>6, <2>1, PipelineStep
<1>7. CASE \E d \in Docs : Dismiss(d) \/ UploadPollServed(d) \/ UploadPollReply(d) \/ UploadPollFails(d)
  <2>1. PICK d \in Docs : Dismiss(d) \/ UploadPollServed(d) \/ UploadPollReply(d) \/ UploadPollFails(d)
    BY <1>7
  <2>2. stored' = stored
    BY <2>1 DEF Dismiss, UploadPollServed, UploadPollReply, UploadPollFails
  <2> QED BY <2>1, <2>2, PipelineStep
<1> QED BY <1>1, <1>2, <1>3, <1>4, <1>5, <1>6, <1>7 DEF UploadNext

LEMMA UploadLoopStep ==
  ASSUME PollingAssumption, UploadAssumption, StoredInv, UploadInv, UploadLoop
  PROVE  UploadInv' /\ StoredInv' /\ Grown
<1>1. CASE HealthReply
  BY <1>1, HealthStep, StoredSame DEF HealthReply, StoredInv
<1>2. ASSUME NEW v \in Visits, ServeUpload(v) \/ UploadReply(v) \/ UploadFails(v)
      PROVE  UploadInv' /\ StoredInv' /\ Grown
  <2>1. CASE ServeUpload(v)
    BY <2>1, ServeUploadStep
  <2>2. CASE UploadReply(v) \/ UploadFails(v)
    <3>1. stored' = stored
      BY <2>2 DEF UploadReply, UploadFails
    <3> QED BY <2>2, <3>1, UploadReplyStep, UploadFailsStep, StoredSame DEF StoredInv
  <2> QED BY <1>2, <2>1, <2>2
<1> QED BY <1>1, <1>2 DEF UploadLoop

LEMMA Inductive ==
  ASSUME PollingAssumption, UploadAssumption, IInv, [Next]_filesVars
  PROVE  IInv'
<1>1. StoredInv /\ page \in {"upload", "documents"} /\ UploadInv /\ DocumentsInv
  BY DEF IInv
<1>2. CASE page = "upload" /\ page' = "documents" /\ UploadLeft /\ UNCHANGED documentsVars
  <2>1. stored' = stored
    BY <1>2 DEF UploadLeft
  <2> QED BY <1>1, <1>2, <2>1, UploadLeftStep, StoredSame, DocumentsKept DEF IInv, StoredInv
<1>3. CASE Visit /\ page = "documents"
  <2>1. DocumentsInit' /\ UNCHANGED <<stored, uploadVars>> /\ page' = "upload"
    BY <1>3 DEF Visit, DocumentsInit
  <2>2. DocumentsInv'
    <3>1. (DocumentsInit => DocumentsInv)'
      BY DocumentsInitially, PTL
    <3> QED BY <2>1, <3>1
  <2> QED BY <1>1, <2>1, <2>2, StoredSame, UploadKept DEF IInv, StoredInv
<1>4. CASE UNCHANGED page /\ UploadNext /\ UNCHANGED documentsVars
  <2>1. UploadInv' /\ stored' = stored
    BY <1>1, <1>4, UploadPageStep
  <2> QED BY <1>1, <1>4, <2>1, StoredSame, DocumentsKept DEF IInv, StoredInv
<1>5. CASE UNCHANGED page /\ DocumentsNext /\ UNCHANGED uploadVars
  <2>1. StoredInv' /\ SameFiles /\ DocumentsInv'
    BY <1>1, <1>5, DocumentsStep
  <2> QED BY <1>1, <1>5, <2>1, UploadKept DEF IInv
<1>6. CASE UNCHANGED page /\ UploadLoop /\ UNCHANGED documentsVars
  <2>1. UploadInv' /\ StoredInv' /\ Grown
    BY <1>1, <1>6, UploadLoopStep
  <2> QED BY <1>1, <1>6, <2>1, DocumentsKept DEF IInv
<1>7. CASE UNCHANGED page /\ \E d \in Docs : Ingest(d) /\ UNCHANGED <<uploadVars, documentsVars>>
  <2>1. StoredInv' /\ Grown /\ SameFiles
    BY <1>1, <1>7, IngestStep
  <2> QED BY <1>1, <1>7, <2>1, DocumentsKept, UploadKept DEF IInv
<1>8. CASE UNCHANGED filesVars
  <2>1. UNCHANGED <<stored, page, uploadVars, documentsVars>>
    BY <1>8 DEF filesVars
  <2> QED BY <1>1, <2>1, StoredSame, DocumentsKept, UploadKept DEF IInv, StoredInv
<1> QED BY <1>2, <1>3, <1>4, <1>5, <1>6, <1>7, <1>8 DEF Next, Visit

LEMMA Invariance == Spec => []IInv
<1>1. Init => IInv
  BY UploadAssumption, Initially
<1>2. IInv /\ [Next]_filesVars => IInv'
  BY PollingAssumption, UploadAssumption, Inductive
<1> QED BY <1>1, <1>2, PTL DEF Spec

-----------------------------------------------------------------------------
(* The results.                                                            *)

LEMMA ShapeIsType == ASSUME NEW f, NEW S, NEW T, Partial(f, S, T) PROVE DOMAIN f \subseteq S /\ Range(f) \subseteq T
BY DEF Partial, Range

(* Every variable has its type.                                            *)
THEOREM TypeCorrect == Spec => []TypeOK
<1>1. IInv => TypeOK
  <2> SUFFICES ASSUME IInv PROVE TypeOK
    OBVIOUS
  <2>1. StoredInv /\ UploadShape /\ FollowInv /\ PageShape /\ DialogShape /\ page \in {"upload", "documents"}
    BY DEF IInv, UploadInv, DocumentsInv, PageInv, DialogInv
  <2>2. Created \subseteq Docs /\ 1..keyCounter \subseteq Keys
    BY <2>1, CreatedAre, PollingAssumption, UploadAssumption DEF UploadShape, Keys, UploadAssumption
  <2>3. UploadTypeOK
    <3>1. DOMAIN items \subseteq Keys /\ Range(items) \subseteq Items
      BY <2>1, <2>2, ShapeIsType DEF UploadShape
    <3>2. DOMAIN pipeline \subseteq Docs /\ Range(pipeline) \subseteq Statuses /\ uploadLoop \in Loops
      BY <2>1, ShapeIsType DEF FollowInv, LoopInv
    <3>3. \A v \in Visits : batches[v].stage \in {"none", "sent", "accepted"}
      BY <2>1 DEF UploadShape, Batches
    <3> QED BY <2>1, <3>1, <3>2, <3>3 DEF UploadTypeOK, UploadShape
  <2>4. DocumentsTypeOK
    <3>1. /\ DOMAIN documents \subseteq Docs /\ Range(documents) \subseteq Statuses
          /\ DOMAIN listReq.items \subseteq Docs /\ Range(listReq.items) \subseteq Statuses
      BY <2>1, <2>2, ShapeIsType DEF PageShape
    <3>2. {pageLoop, dialogLoop} \subseteq Loops
      BY <2>1 DEF PageShape, DialogShape, LoopInv
    <3>3. listReq.scope \in Scopes /\ listReq.stage \in {"none", "sent", "served"}
      BY <2>1 DEF PageShape
    <3> QED BY <2>1, <2>2, <3>1, <3>2, <3>3 DEF DocumentsTypeOK, PageShape, DialogShape, Details
  <2> QED BY <2>1, <2>3, <2>4 DEF TypeOK
<1> QED BY <1>1, Invariance, PTL

(* Cards are of the selected tab, and of documents that are not known to   *)
(* be deleted, in whatever order lists, polls and deletions are answered.  *)
THEOREM CardsTrue == Spec => []CardsAreTrue
<1>1. IInv => CardsAreTrue
  <2> SUFFICES ASSUME IInv PROVE CardsAreTrue
    OBVIOUS
  <2>1. PageShape /\ ListsInv
    BY DEF IInv, DocumentsInv, PageInv
  <2>2. PageShows = "cards" => ~loading /\ ~error
    BY <2>1 DEF PageShows, PageShape
  <2> QED BY <2>1, <2>2 DEF CardsAreTrue, ShownInScope, DeletedStaysGone, ListsInv
<1> QED BY <1>1, Invariance, PTL

(* The dialog shows the document it was opened for, and asks about it.     *)
THEOREM DialogOfSelected == Spec => []DialogIsOfSelected
<1>1. IInv => DialogIsOfSelected
  <2> SUFFICES ASSUME IInv PROVE DialogIsOfSelected
    OBVIOUS
  <2>1. DialogShape /\ RequestsInv
    BY DEF IInv, DocumentsInv, DialogInv
  <2>2. detailOpen /\ DialogShows = "detail" => fetchState.key = selected /\ ~fetchState.error
    BY <2>1 DEF DialogShows, DialogLoading, DialogShape, Details
  <2> QED BY <2>1, <2>2 DEF DialogIsOfSelected, DetailBelongs, AskedHere, RequestsInv
<1> QED BY <1>1, Invariance, PTL

(* What is shown as loading, busy or running has a request or a polling    *)
(* loop behind it.                                                         *)
THEOREM NothingIsAbandoned == Spec => []NothingAbandoned
<1>1. IInv => NothingAbandoned
  <2> SUFFICES ASSUME IInv PROVE NothingAbandoned
    OBVIOUS
  <2>1. FollowInv /\ PageShape /\ ListsInv /\ DialogShape /\ RequestsInv
    BY DEF IInv, UploadInv, DocumentsInv, PageInv, DialogInv
  <2>2. BusyIsBusy
    BY <2>1 DEF BusyIsBusy, ListsInv, RequestsInv, DialogLoading
  <2>3. PollsWhatRuns
    BY <2>1 DEF PollsWhatRuns, FollowInv, PageShape, DialogShape, LoopInv
  <2> QED BY <2>2, <2>3 DEF NothingAbandoned
<1> QED BY <1>1, Invariance, PTL

(* No file becomes two documents, whatever answers are lost.               *)
THEOREM FileOnce == Spec => []OneDocumentPerFile
<1>1. IInv => OneDocumentPerFile
  BY DEF IInv, UploadInv
<1> QED BY <1>1, Invariance, PTL

(* What is sent of a file is what its item shows, but for late changes;    *)
(* the item that is sent is the one marked so, and no provider is asked    *)
(* that the server is not known to have a key for.                         *)
THEOREM SentIsShown == Spec => []SentAsShown
<1>1. IInv => SentAsShown
  <2> SUFFICES ASSUME IInv PROVE SentAsShown
    OBVIOUS
  <2> DEFINE b == batches[visit]
  <2>1. UploadShape /\ ItemsInv /\ \A v \in Visits : BatchInv(v)
    BY DEF IInv, UploadInv
  <2>2. \A k \in DOMAIN items : Effective(items[k]) = items[k]
    BY <2>1 DEF ItemsInv, Effective
  <2>3. /\ uploading <=> b.stage # "none"
        /\ \A k \in DOMAIN items : items[k].uploading => b.stage # "none" /\ b.sending.key = k
        /\ b.stage # "none" => b.sending.key \in DOMAIN items \cup lateEdits
    BY <2>1 DEF ItemsInv
  <2>4. \A k \in DOMAIN items : items[k].uploading => b.sending = Snapshot(k, items[k]) \/ k \in lateEdits
    BY <2>1 DEF ItemsInv
  <2>5. ProviderHasKey
    <3>1. ASSUME NEW p, Available(p) PROVE p \in {"demo"} \cup (IF health = "known" THEN Keyed ELSE {})
      BY <3>1 DEF Available
    <3> QED BY <2>1, <3>1 DEF ProviderHasKey, BatchInv
  <2> QED BY <2>2, <2>3, <2>4, <2>5 DEF SentAsShown
<1> QED BY <1>1, Invariance, PTL

(* What a step may not do to the statuses that are shown.                  *)
Kept ==
  \A d \in DOMAIN documents \cap DOMAIN documents' :
    documents[d] = "ended" /\ documents'[d] = "running" => listReq' # listReq \/ dialogLoop' # dialogLoop

LEMMA KeptByStep ==
  ASSUME PollingAssumption, IInv, [Next]_filesVars
  PROVE  Kept
<1>1. PageShape /\ ListsInv /\ DialogShape
  BY DEF IInv, DocumentsInv, PageInv, DialogInv
<1>2. CASE UNCHANGED documents
  BY <1>2 DEF Kept
<1>3. CASE Visit /\ page = "documents"
  <2>1. DOMAIN documents' = {}
    BY <1>3, NothingPartial DEF Visit
  <2> QED BY <2>1 DEF Kept
<1>4. CASE ListReply
  BY <1>4 DEF Kept, ListReply, NoList
<1>5. CASE DeleteReply
  <2>1. documents' = Restrict(documents, DOMAIN documents \ {deleteReq.id})
    BY <1>5 DEF DeleteReply, Deleted, Show
  <2>2. \A d \in DOMAIN documents' : documents'[d] = documents[d]
    BY <2>1 DEF Restrict
  <2> QED BY <2>2 DEF Kept
<1>6. ASSUME NEW d \in Docs, PagePollReply(d) PROVE Kept
  <2>1. LoopInv(pageLoop, RunningIn(documents)) /\ documents' = Updated(documents, d, pageLoop.round[d])
        /\ Awaits(pageLoop, d, Statuses)
    BY <1>1, <1>6 DEF PageShape, PagePollReply
  <2>2. documents[d] = "running"
    BY <2>1, ReplyIs DEF RunningIn
  <2>3. \A e \in DOMAIN documents : e # d => documents'[e] = documents[e]
    BY <2>1 DEF Updated
  <2> QED BY <2>2, <2>3 DEF Kept
<1>7. ASSUME NEW d \in Docs, DialogPollReply(d) PROVE dialogLoop' # dialogLoop
  <2> DEFINE ids == DialogTracks(detailOpen, fetchState')
  <2>1. /\ LoopInv(dialogLoop, DialogTracks(detailOpen, fetchState)) /\ d \in Awaiting(dialogLoop)
        /\ dialogLoop' = Tracking(Settle(dialogLoop, d), ids)
    BY <1>1, <1>7 DEF DialogShape, DialogPollReply, Awaits
  <2>2. LoopInv(Settle(dialogLoop, d), DialogTracks(detailOpen, fetchState)) /\ Settle(dialogLoop, d) # dialogLoop
    BY <2>1, SettleIs
  <2> HIDE DEF ids
  <2> QED BY <2>1, <2>2 DEF Tracking, NewLoop, LoopInv
<1>8. CASE DocumentsNext /\ documents' # documents
  <2>1. \/ ListReply \/ DeleteReply
        \/ \E d \in Docs : PagePollReply(d) \/ DialogPollReply(d)
    BY <1>8 DEF DocumentsNext, Tab, Open, TryAgain, Close, DetailRetry, AskDelete, CancelDelete, Delete,
                ServeList, ListFails, ServeDetail, DetailReply, DetailFails, ServeDelete, DeleteFails,
                PageTick, DialogTick, PagePollServed, PagePollFails, DialogPollServed, DialogPollFails, pageVars
  <2> QED BY <2>1, <1>4, <1>5, <1>6, <1>7 DEF Kept
<1> QED BY <1>2, <1>3, <1>8 DEF Next, Visit, filesVars, documentsVars, pageVars

(* A page does not take a status back by its own polls: a poll is answered *)
(* for a document that is shown as running, and a loop that was replaced   *)
(* is not listened to.                                                     *)
THEOREM PollsKeepEnds == Spec => PollKeepsEnd
<1>1. IInv /\ [Next]_filesVars => [Kept]_<<stored, documentsVars>>
  BY PollingAssumption, KeptByStep
<1>2. PollKeepsEnd <=> [][Kept]_<<stored, documentsVars>>
  BY DEF PollKeepsEnd, Kept
<1> HIDE DEF Kept
<1> QED BY <1>1, <1>2, Invariance, PTL DEF Spec
=============================================================================
