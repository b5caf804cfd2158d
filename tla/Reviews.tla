------------------------------- MODULE Reviews -------------------------------
(***************************************************************************)
(* The review of library documents by both backends: POST                  *)
(* /api/reviews/{id} of routers/reviews.py and ReviewEndpoints.cs, with    *)
(* the steps of others that fall between its statements: the pipeline's    *)
(* last commit, deletion, and the designation of SMEs (routers/topics.py,  *)
(* TopicEndpoints.cs).  Neither backend locks the row it has checked.      *)
(***************************************************************************)
EXTENDS Naturals, FiniteSets

CONSTANTS
  Users, Admins,
  Topics, NoTopic,
  Docs,
  Library,      \* the documents of scope 'library'; the others are 'personal'
  Owner,        \* the uploader of each document
  TopicOf,      \* topic_id; NoTopic for NULL
  FastApi,      \* TRUE: the FastAPI backend takes decisions
  DotNet,       \* TRUE: the .NET backend takes decisions
  MaxInFlight   \* bound on the decision requests being served at a time

(* Only admins upload to the library, and only under a topic               *)
(* (documents.py:92-101, DocumentEndpoints.cs:114-118).                    *)
ASSUME DocsAssumption ==
  /\ Admins \subseteq Users
  /\ NoTopic \notin Topics
  /\ Library \subseteq Docs
  /\ Owner \in [Docs -> Users]
  /\ TopicOf \in [Docs -> Topics \cup {NoTopic}]
  /\ \A d \in Library : Owner[d] \in Admins /\ TopicOf[d] \in Topics

ASSUME BoundAssumption ==
  /\ FastApi \in BOOLEAN /\ DotNet \in BOOLEAN
  /\ MaxInFlight \in Nat

Decisions == {"approved", "rejected"}
Statuses  == {"not_required", "pending_sme"} \cup Decisions \cup {"gone"}

VARIABLES
  review,      \* documents.review_status; "gone" once the row is deleted
  audit,       \* the approvals rows of each document: who decided what
  smes,        \* sme_designations
  designated,  \* history: who ever was an SME of the topic
  inflight     \* decision requests between two of their statements

vars == <<review, audit, smes, designated, inflight>>

(* loaded: FastAPI has the document and still asks for the reviewer's      *)
(* topics; checked: all checks passed; inserted: .NET has stored the       *)
(* approval and not yet the status.                                        *)
Requests ==
  [by : Users, doc : Docs, decision : Decisions,
   at : {"py_loaded", "py_checked", "net_checked", "net_inserted"}]

Init ==
  /\ review     = [d \in Docs |-> "not_required"]
  /\ audit      = [d \in Docs |-> {}]
  /\ smes       = [t \in Topics |-> {}]
  /\ designated = smes
  /\ inflight   = {}

Exists(d) == review[d] # "gone"

(* Variant for a mutation run: an SME of any topic will do. *)
IsSme_AnyTopic(u, d) == \E t \in Topics : u \in smes[t]

IsSme(u, d) == TopicOf[d] \in Topics /\ u \in smes[TopicOf[d]]

(* Variant: admins are trusted with their own uploads. *)
MayDecide_OwnUpload(u, d) == u \in Admins \/ (IsSme(u, d) /\ Owner[d] # u)

(* Admins review everything but their own uploads (ADR 0005). *)
MayDecide(u, d) == (u \in Admins \/ IsSme(u, d)) /\ Owner[d] # u

Row(r) == [by |-> r.by, decision |-> r.decision]

Admit(r) ==
  /\ Cardinality(inflight) < MaxInFlight
  /\ inflight' = inflight \cup {r}

Advance(r, s) == inflight' = (inflight \ {r}) \cup {[r EXCEPT !.at = s]}
Finish(r)     == inflight' = inflight \ {r}

-----------------------------------------------------------------------------
(* FastAPI: db.get, the reviewer's topics, one commit with the approval    *)
(* and the new status.  A request that a check refuses changes nothing.    *)

PyLoad(u, d, x) ==
  /\ FastApi
  /\ review[d] = "pending_sme"
  /\ Admit([by |-> u, doc |-> d, decision |-> x, at |-> "py_loaded"])
  /\ UNCHANGED <<review, audit, smes, designated>>

PyAuthorize(r) ==
  /\ r.at = "py_loaded"
  /\ IF MayDecide(r.by, r.doc) THEN Advance(r, "py_checked") ELSE Finish(r)
  /\ UNCHANGED <<review, audit, smes, designated>>

(* Variant: the approval in a commit of its own, before the status. *)
PyCommit_Twice(r) ==
  /\ r.at = "py_checked"
  /\ Exists(r.doc)
  /\ audit' = [audit EXCEPT ![r.doc] = @ \cup {Row(r)}]
  /\ Advance(r, "net_inserted")
  /\ UNCHANGED <<review, smes, designated>>

(* Variant: an earlier approval of the document is replaced. *)
PyCommit_Replace(r) ==
  /\ r.at = "py_checked"
  /\ Exists(r.doc)
  /\ audit'  = [audit EXCEPT ![r.doc] = {Row(r)}]
  /\ review' = [review EXCEPT ![r.doc] = r.decision]
  /\ Finish(r)
  /\ UNCHANGED <<smes, designated>>

(* The UPDATE names no status: a document decided meanwhile is decided     *)
(* again.  A deleted one makes the flush fail (StaleDataError).            *)
PyCommit(r) ==
  /\ r.at = "py_checked"
  /\ Exists(r.doc)
  /\ audit'  = [audit EXCEPT ![r.doc] = @ \cup {Row(r)}]
  /\ review' = [review EXCEPT ![r.doc] = r.decision]
  /\ Finish(r)
  /\ UNCHANGED <<smes, designated>>

-----------------------------------------------------------------------------
(* .NET: one SELECT for all checks, then INSERT and UPDATE, each committed *)
(* by itself.                                                              *)

NetCheck(u, d, x) ==
  /\ DotNet
  /\ d \in Library
  /\ review[d] = "pending_sme"
  /\ MayDecide(u, d)
  /\ Admit([by |-> u, doc |-> d, decision |-> x, at |-> "net_checked"])
  /\ UNCHANGED <<review, audit, smes, designated>>

(* Variant: the two statements in the other order. *)
NetInsert_StatusFirst(r) ==
  /\ r.at = "net_checked"
  /\ Exists(r.doc)
  /\ review' = [review EXCEPT ![r.doc] = r.decision]
  /\ Advance(r, "net_inserted")
  /\ UNCHANGED <<audit, smes, designated>>

(* A deleted document is a foreign key violation. *)
NetInsert(r) ==
  /\ r.at = "net_checked"
  /\ Exists(r.doc)
  /\ audit' = [audit EXCEPT ![r.doc] = @ \cup {Row(r)}]
  /\ Advance(r, "net_inserted")
  /\ UNCHANGED <<review, smes, designated>>

NetUpdate(r) ==
  /\ r.at = "net_inserted"
  /\ review' = [review EXCEPT ![r.doc] = IF Exists(r.doc) THEN r.decision ELSE @]
  /\ Finish(r)
  /\ UNCHANGED <<audit, smes, designated>>

-----------------------------------------------------------------------------
(* A request ends in an error, or with its process, before any statement.  *)
Abort(r) ==
  /\ Finish(r)
  /\ UNCHANGED <<review, audit, smes, designated>>

(* The last commit of either ingestion pipeline (Ingestion!Publish). *)
EnterReview(d) ==
  /\ d \in Library
  /\ review[d] = "not_required"
  /\ review' = [review EXCEPT ![d] = "pending_sme"]
  /\ UNCHANGED <<audit, smes, designated, inflight>>

(* Approvals go with the document (ON DELETE CASCADE). *)
Delete(d) ==
  /\ Exists(d)
  /\ review' = [review EXCEPT ![d] = "gone"]
  /\ audit'  = [audit EXCEPT ![d] = {}]
  /\ UNCHANGED <<smes, designated, inflight>>

(* The unique constraint makes a second designation an error. *)
AddSme(t, u) ==
  /\ u \notin smes[t]
  /\ smes'       = [smes EXCEPT ![t] = @ \cup {u}]
  /\ designated' = [designated EXCEPT ![t] = @ \cup {u}]
  /\ UNCHANGED <<review, audit, inflight>>

RemoveSme(t, u) ==
  /\ u \in smes[t]
  /\ smes' = [smes EXCEPT ![t] = @ \ {u}]
  /\ UNCHANGED <<review, audit, designated, inflight>>

-----------------------------------------------------------------------------
Serve(r) == PyAuthorize(r) \/ PyCommit(r) \/ NetInsert(r) \/ NetUpdate(r) \/ Abort(r)

Next ==
  \/ \E u \in Users, d \in Docs, x \in Decisions : PyLoad(u, d, x) \/ NetCheck(u, d, x)
  \/ \E r \in inflight : Serve(r)
  \/ \E d \in Docs : EnterReview(d) \/ Delete(d)
  \/ \E t \in Topics, u \in Users : AddSme(t, u) \/ RemoveSme(t, u)

Spec == Init /\ [][Next]_vars

-----------------------------------------------------------------------------
(* Properties.                                                             *)

TypeOK ==
  /\ review \in [Docs -> Statuses]
  /\ audit \in [Docs -> SUBSET [by : Users, decision : Decisions]]
  /\ smes \in [Topics -> SUBSET Users]
  /\ designated \in [Topics -> SUBSET Users]
  /\ inflight \in SUBSET Requests

(* Whoever is answered from a library document can be told who stands      *)
(* behind it: the standing decision is on record, however decisions,       *)
(* crashes and deletions interleave (reviews.py:78-88,                     *)
(* ReviewEndpoints.cs:52-60).                                              *)
DecidedOnRecord ==
  \A d \in Docs : review[d] \in Decisions => \E r \in audit[d] : r.decision = review[d]

(* No decision on record was taken by the uploader, by somebody without    *)
(* authority over the topic, or about a personal document (ADR 0005:       *)
(* "SME authority is scoped, not global").                                 *)
DecidersHadAuthority ==
  \A d \in Docs : \A r \in audit[d] :
    /\ d \in Library
    /\ r.by # Owner[d]
    /\ r.by \in Admins \cup designated[TopicOf[d]]

(* "Approvals are append-only audit rows" (ADR 0005): only deleting the    *)
(* document takes them away.                                               *)
AppendOnly == [][\A d \in Docs : audit[d] \subseteq audit'[d] \/ review'[d] = "gone"]_vars

(* With FastAPI alone a decision on record has taken effect: both are one  *)
(* commit.                                                                 *)
RecordedIsDecided == \A d \in Docs : audit[d] # {} => review[d] \in Decisions

(* The inductive invariant: what a request in flight has been checked for. *)
RequestInv(r) ==
  /\ r.at # "py_loaded" =>
       /\ r.by # Owner[r.doc]
       /\ r.by \in Admins \cup designated[TopicOf[r.doc]]
  /\ r.doc \in Library
  /\ review[r.doc] # "not_required"
  /\ r.at = "net_inserted" /\ Exists(r.doc) => Row(r) \in audit[r.doc]

IndInv ==
  /\ TypeOK
  /\ \A t \in Topics : smes[t] \subseteq designated[t]
  /\ \A d \in Docs \ Library : review[d] \in {"not_required", "gone"}
  /\ \A r \in inflight : RequestInv(r)
  /\ DecidedOnRecord
  /\ DecidersHadAuthority
=============================================================================
