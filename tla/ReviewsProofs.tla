---------------------------- MODULE ReviewsProofs ----------------------------
(***************************************************************************)
(* Reviews, for every set of users, topics and documents and any number of *)
(* decision requests in flight.  The invariant carries what a request was  *)
(* checked for across the statements in which nothing protects the row.    *)
(* Access follows: only library documents enter review, and those are      *)
(* uploaded by admins under a topic.                                       *)
(*                                                                         *)
(* The last part is retrieval, for every corpus, any number of searches,   *)
(* and any configuration of keys.  The composition takes no step on the    *)
(* review state that Reviews does not take, so what is proved of Reviews   *)
(* holds of it; from there a search is answered from approved documents.   *)
(***************************************************************************)
EXTENDS Access, Retrieval, TLAPS, FiniteSetTheorems

(* What a step that only adds, moves or drops requests leaves alone. *)
Others == <<review, audit, smes, designated>>

(* Requests keep their checks as long as documents that were sent to       *)
(* review stay there or go, records stay with the document, and nobody is  *)
(* erased from the history of designations.                                *)
LEMMA RequestsKept ==
  ASSUME DocsAssumption, IndInv, TypeOK', NEW r \in inflight,
         \A d \in Docs : review[d] # "not_required" => review'[d] # "not_required",
         \A d \in Docs : Exists(d)' => Exists(d) /\ audit[d] \subseteq audit'[d],
         \A t \in Topics : designated[t] \subseteq designated'[t]
  PROVE  RequestInv(r)'
<1>1. /\ r \in Requests
      /\ r.by \in Users
      /\ r.doc \in Docs
  BY DEF IndInv, TypeOK, Requests
<1>2. RequestInv(r)
  BY DEF IndInv
<1>3. r.doc \in Library /\ TopicOf[r.doc] \in Topics
  BY <1>2 DEF RequestInv, DocsAssumption
<1>4. r.by \in designated[TopicOf[r.doc]] => r.by \in designated'[TopicOf[r.doc]]
  BY <1>3
<1>5. Exists(r.doc)' /\ Row(r) \in audit[r.doc] => Row(r) \in audit'[r.doc]
  BY <1>1
<1>6. Exists(r.doc)' => Exists(r.doc)
  BY <1>1
<1> QED
  BY <1>1, <1>2, <1>3, <1>4, <1>5, <1>6 DEF RequestInv, Row

(* A record that joins the others keeps them sound if its author is known  *)
(* to have had authority.                                                  *)
LEMMA RowHasAuthority ==
  ASSUME DocsAssumption, IndInv, NEW r \in inflight, r.at # "py_loaded"
  PROVE  /\ r.doc \in Library
         /\ Row(r).by = r.by /\ Row(r).decision = r.decision
         /\ r.by # Owner[r.doc]
         /\ r.by \in Admins \cup designated[TopicOf[r.doc]]
         /\ r.by \in Users /\ r.doc \in Docs /\ r.decision \in Decisions
         /\ Row(r) \in [by : Users, decision : Decisions]
  BY DEF IndInv, RequestInv, Row, TypeOK, Requests

(* Admitting, advancing and finishing a request keeps the set typed. *)
LEMMA RequestSteps ==
  ASSUME IndInv
  PROVE  /\ \A r \in Requests : Admit(r) => inflight' \in SUBSET Requests
         /\ \A r \in inflight : Finish(r) => inflight' \in SUBSET Requests
         /\ \A r \in inflight, s \in {"py_checked", "net_inserted"} :
              Advance(r, s) => inflight' \in SUBSET Requests
  BY DEF IndInv, TypeOK, Requests, Admit, Finish, Advance

(* Steps that leave documents, records and designations alone need only    *)
(* account for the requests.                                               *)
LEMMA RequestOnlySteps ==
  ASSUME IndInv, UNCHANGED Others,
         inflight' \in SUBSET Requests,
         \A r \in inflight' : RequestInv(r)
  PROVE  IndInv'
<1>1. TypeOK'
  BY DEF IndInv, TypeOK, Others
<1>2. \A r \in inflight' : RequestInv(r)'
  BY DEF Others, RequestInv, Exists
<1>3. DecidedOnRecord' /\ DecidersHadAuthority'
  BY DEF IndInv, Others, DecidedOnRecord, DecidersHadAuthority
<1> QED
  BY <1>1, <1>2, <1>3 DEF IndInv, Others

-----------------------------------------------------------------------------
LEMMA InitEstablishes == ASSUME Init PROVE IndInv
  BY DEF Init, IndInv, TypeOK, Statuses, Decisions, Requests, DecidedOnRecord,
         DecidersHadAuthority

LEMMA PyLoadKeeps ==
  ASSUME DocsAssumption, IndInv, NEW u \in Users, NEW d \in Docs, NEW x \in Decisions,
         PyLoad(u, d, x)
  PROVE  IndInv'
<1> DEFINE r == [by |-> u, doc |-> d, decision |-> x, at |-> "py_loaded"]
<1>1. r \in Requests /\ Admit(r) /\ UNCHANGED Others
  BY DEF PyLoad, Requests, Others
<1>2. d \in Library
  BY DEF IndInv, PyLoad
<1>3. RequestInv(r)
  BY <1>2 DEF RequestInv, PyLoad
<1>4. inflight' = inflight \cup {r}
  BY <1>1 DEF Admit
<1>5. inflight' \in SUBSET Requests
  BY <1>1, RequestSteps
<1>6. \A q \in inflight' : RequestInv(q)
  BY <1>3, <1>4 DEF IndInv
<1> QED
  BY <1>1, <1>5, <1>6, RequestOnlySteps

LEMMA NetCheckKeeps ==
  ASSUME DocsAssumption, IndInv, NEW u \in Users, NEW d \in Docs, NEW x \in Decisions,
         NetCheck(u, d, x)
  PROVE  IndInv'
<1> DEFINE r == [by |-> u, doc |-> d, decision |-> x, at |-> "net_checked"]
<1>1. r \in Requests /\ Admit(r) /\ UNCHANGED Others
  BY DEF NetCheck, Requests, Others
<1>2. u # Owner[d] /\ u \in Admins \cup designated[TopicOf[d]]
  BY DEF NetCheck, MayDecide, IsSme, IndInv
<1>3. RequestInv(r)
  BY <1>2 DEF RequestInv, NetCheck
<1>4. inflight' = inflight \cup {r}
  BY <1>1 DEF Admit
<1>5. inflight' \in SUBSET Requests
  BY <1>1, RequestSteps
<1>6. \A q \in inflight' : RequestInv(q)
  BY <1>3, <1>4 DEF IndInv
<1> QED
  BY <1>1, <1>5, <1>6, RequestOnlySteps

LEMMA FinishKeepsRequests ==
  ASSUME IndInv, NEW r \in inflight, Finish(r)
  PROVE  inflight' \subseteq inflight /\ inflight' \in SUBSET Requests
  BY DEF Finish, IndInv, TypeOK

LEMMA AbortKeeps ==
  ASSUME IndInv, NEW r \in inflight, Finish(r), UNCHANGED Others
  PROVE  IndInv'
<1>1. \A q \in inflight' : RequestInv(q)
  BY FinishKeepsRequests DEF IndInv
<1> QED
  BY <1>1, FinishKeepsRequests, RequestOnlySteps

LEMMA PyAuthorizeKeeps ==
  ASSUME DocsAssumption, IndInv, NEW r \in inflight, PyAuthorize(r)
  PROVE  IndInv'
<1>1. UNCHANGED Others
  BY DEF PyAuthorize, Others
<1>2. CASE ~MayDecide(r.by, r.doc)
  BY <1>1, <1>2, AbortKeeps DEF PyAuthorize
<1>3. CASE MayDecide(r.by, r.doc)
  <2> DEFINE s == [r EXCEPT !.at = "py_checked"]
  <2>1. inflight' = (inflight \ {r}) \cup {s}
    BY <1>3 DEF PyAuthorize, Advance
  <2>2. r \in Requests
    BY DEF IndInv, TypeOK
  <2>3. s.by = r.by /\ s.doc = r.doc /\ s.at = "py_checked" /\ s \in Requests
    BY <2>2 DEF Requests
  <2>4. r.by # Owner[r.doc] /\ r.by \in Admins \cup designated[TopicOf[r.doc]]
    BY <1>3 DEF MayDecide, IsSme, IndInv
  <2>5. r.doc \in Library /\ review[r.doc] # "not_required"
    BY DEF IndInv, RequestInv
  <2>6. RequestInv(s)
    BY <2>3, <2>4, <2>5 DEF RequestInv
  <2>7. \A q \in inflight' : RequestInv(q)
    BY <2>1, <2>6 DEF IndInv
  <2>8. inflight' \in SUBSET Requests
    BY <2>1, <2>3 DEF IndInv, TypeOK
  <2> QED
    BY <1>1, <2>7, <2>8, RequestOnlySteps
<1> QED
  BY <1>2, <1>3

-----------------------------------------------------------------------------
(* A commit, of an approval and of a status. *)
LEMMA PyCommitKeeps ==
  ASSUME DocsAssumption, IndInv, NEW r \in inflight, PyCommit(r)
  PROVE  IndInv'
<1> USE DEF PyCommit
<1>1. /\ r.at # "py_loaded"
      /\ r.doc \in Docs /\ r.doc \in Library /\ r.decision \in Decisions
      /\ Row(r) \in [by : Users, decision : Decisions]
  BY RowHasAuthority
<1>2. inflight' \in SUBSET Requests /\ inflight' \subseteq inflight
  BY FinishKeepsRequests
<1>3. /\ audit' \in [Docs -> SUBSET [by : Users, decision : Decisions]]
      /\ audit'[r.doc] = audit[r.doc] \cup {Row(r)}
      /\ \A d \in Docs \ {r.doc} : audit'[d] = audit[d]
  BY <1>1 DEF IndInv, TypeOK
<1>4. /\ review' \in [Docs -> Statuses]
      /\ review'[r.doc] = r.decision
      /\ \A d \in Docs \ {r.doc} : review'[d] = review[d]
  BY <1>1 DEF IndInv, TypeOK, Statuses
<1>5. TypeOK'
  BY <1>2, <1>3, <1>4 DEF IndInv, TypeOK
<1>6. \A d \in Docs : review[d] # "not_required" => review'[d] # "not_required"
  BY <1>1, <1>4 DEF Decisions
<1>7. \A d \in Docs : Exists(d)' => Exists(d) /\ audit[d] \subseteq audit'[d]
  BY <1>3, <1>4 DEF Exists
<1>8. \A q \in inflight' : RequestInv(q)'
  BY <1>2, <1>5, <1>6, <1>7, RequestsKept
<1>9. DecidedOnRecord'
  <2>1. Row(r).decision = r.decision
    BY DEF Row
  <2> QED
    BY <2>1, <1>3, <1>4 DEF IndInv, DecidedOnRecord
<1>10. DecidersHadAuthority'
  BY <1>1, <1>3, RowHasAuthority DEF IndInv, DecidersHadAuthority
<1>11. \A d \in Docs \ Library : review'[d] \in {"not_required", "gone"}
  BY <1>1, <1>4 DEF IndInv
<1> QED
  BY <1>5, <1>8, <1>9, <1>10, <1>11 DEF IndInv

LEMMA NetInsertKeeps ==
  ASSUME DocsAssumption, IndInv, NEW r \in inflight, NetInsert(r)
  PROVE  IndInv'
<1> USE DEF NetInsert
<1> DEFINE s == [r EXCEPT !.at = "net_inserted"]
<1>1. /\ r.at # "py_loaded" /\ r \in Requests
      /\ r.doc \in Docs /\ r.doc \in Library /\ r.decision \in Decisions
      /\ Row(r) \in [by : Users, decision : Decisions]
  BY RowHasAuthority DEF IndInv, TypeOK
<1>2. /\ s.by = r.by /\ s.doc = r.doc /\ s.decision = r.decision
      /\ s.at = "net_inserted" /\ s \in Requests
  BY <1>1 DEF Requests
<1>3. inflight' = (inflight \ {r}) \cup {s}
  BY DEF Advance
<1>4. /\ audit' \in [Docs -> SUBSET [by : Users, decision : Decisions]]
      /\ audit'[r.doc] = audit[r.doc] \cup {Row(r)}
      /\ \A d \in Docs \ {r.doc} : audit'[d] = audit[d]
  BY <1>1 DEF IndInv, TypeOK
<1>5. TypeOK'
  BY <1>2, <1>3, <1>4 DEF IndInv, TypeOK
<1>6. \A d \in Docs : Exists(d)' => Exists(d) /\ audit[d] \subseteq audit'[d]
  BY <1>4 DEF Exists
<1>7. \A q \in inflight : RequestInv(q)'
  BY <1>5, <1>6, RequestsKept
<1>8. RequestInv(s)'
  BY <1>1, <1>2, <1>4, <1>7 DEF RequestInv, Row
<1>9. DecidedOnRecord' /\ DecidersHadAuthority'
  BY <1>1, <1>4, RowHasAuthority DEF IndInv, DecidedOnRecord, DecidersHadAuthority
<1> QED
  BY <1>3, <1>5, <1>7, <1>8, <1>9 DEF IndInv

LEMMA NetUpdateKeeps ==
  ASSUME DocsAssumption, IndInv, NEW r \in inflight, NetUpdate(r)
  PROVE  IndInv'
<1> USE DEF NetUpdate
<1>1. /\ r.doc \in Docs /\ r.doc \in Library /\ r.decision \in Decisions
      /\ Row(r).decision = r.decision
  BY RowHasAuthority
<1>2. inflight' \in SUBSET Requests /\ inflight' \subseteq inflight
  BY FinishKeepsRequests
<1>3. CASE ~Exists(r.doc)
  <2>1. review' = review
    BY <1>1, <1>3 DEF IndInv, TypeOK
  <2> QED
    BY <2>1, AbortKeeps DEF Others
<1>4. CASE Exists(r.doc)
  <2>1. /\ review' \in [Docs -> Statuses]
        /\ review'[r.doc] = r.decision
        /\ \A d \in Docs \ {r.doc} : review'[d] = review[d]
    BY <1>1, <1>4 DEF IndInv, TypeOK, Statuses
  <2>2. TypeOK'
    BY <1>2, <2>1 DEF IndInv, TypeOK
  <2>3. \A d \in Docs : review[d] # "not_required" => review'[d] # "not_required"
    BY <1>1, <2>1 DEF Decisions
  <2>4. \A d \in Docs : Exists(d)' => Exists(d) /\ audit[d] \subseteq audit'[d]
    BY <1>4, <2>1 DEF Exists
  <2>5. \A q \in inflight' : RequestInv(q)'
    BY <1>2, <2>2, <2>3, <2>4, RequestsKept
  <2>6. Row(r) \in audit[r.doc]
    BY <1>4 DEF IndInv, RequestInv
  <2>7. DecidedOnRecord'
    BY <1>1, <2>1, <2>6 DEF IndInv, DecidedOnRecord
  <2>8. DecidersHadAuthority'
    BY DEF IndInv, DecidersHadAuthority
  <2>9. \A d \in Docs \ Library : review'[d] \in {"not_required", "gone"}
    BY <1>1, <2>1 DEF IndInv
  <2> QED
    BY <2>2, <2>5, <2>7, <2>8, <2>9 DEF IndInv
<1> QED
  BY <1>3, <1>4
-----------------------------------------------------------------------------
(* The steps of others. *)
LEMMA EnterReviewKeeps ==
  ASSUME DocsAssumption, IndInv, NEW d \in Docs, EnterReview(d)
  PROVE  IndInv'
<1> USE DEF EnterReview
<1>1. /\ review' \in [Docs -> Statuses]
      /\ review'[d] = "pending_sme"
      /\ \A e \in Docs \ {d} : review'[e] = review[e]
  BY DEF IndInv, TypeOK, Statuses
<1>2. TypeOK'
  BY <1>1 DEF IndInv, TypeOK
<1>3. \A q \in inflight' : RequestInv(q)'
  <2>1. \A e \in Docs : review[e] # "not_required" => review'[e] # "not_required"
    BY <1>1
  <2>2. \A e \in Docs : Exists(e)' => Exists(e) /\ audit[e] \subseteq audit'[e]
    BY <1>1 DEF Exists
  <2> QED
    BY <1>2, <2>1, <2>2, RequestsKept
<1>4. DecidedOnRecord' /\ DecidersHadAuthority'
  BY <1>1 DEF IndInv, DecidedOnRecord, DecidersHadAuthority, Decisions
<1>5. \A e \in Docs \ Library : review'[e] \in {"not_required", "gone"}
  BY <1>1 DEF IndInv
<1> QED
  BY <1>2, <1>3, <1>4, <1>5 DEF IndInv

LEMMA DeleteKeeps ==
  ASSUME DocsAssumption, IndInv, NEW d \in Docs, Delete(d)
  PROVE  IndInv'
<1> USE DEF Delete
<1>1. /\ review' \in [Docs -> Statuses]
      /\ review'[d] = "gone"
      /\ \A e \in Docs \ {d} : review'[e] = review[e]
  BY DEF IndInv, TypeOK, Statuses
<1>2. /\ audit' \in [Docs -> SUBSET [by : Users, decision : Decisions]]
      /\ audit'[d] = {}
      /\ \A e \in Docs \ {d} : audit'[e] = audit[e]
  BY DEF IndInv, TypeOK
<1>3. TypeOK'
  BY <1>1, <1>2 DEF IndInv, TypeOK
<1>4. \A q \in inflight' : RequestInv(q)'
  <2>1. \A e \in Docs : review[e] # "not_required" => review'[e] # "not_required"
    BY <1>1
  <2>2. \A e \in Docs : Exists(e)' => Exists(e) /\ audit[e] \subseteq audit'[e]
    BY <1>1, <1>2 DEF Exists
  <2> QED
    BY <1>3, <2>1, <2>2, RequestsKept
<1>5. DecidedOnRecord' /\ DecidersHadAuthority'
  BY <1>1, <1>2 DEF IndInv, DecidedOnRecord, DecidersHadAuthority, Decisions
<1>6. \A e \in Docs \ Library : review'[e] \in {"not_required", "gone"}
  BY <1>1 DEF IndInv
<1> QED
  BY <1>3, <1>4, <1>5, <1>6 DEF IndInv

LEMMA AddSmeKeeps ==
  ASSUME DocsAssumption, IndInv, NEW t \in Topics, NEW u \in Users, AddSme(t, u)
  PROVE  IndInv'
<1> USE DEF AddSme
<1>1. TypeOK'
  BY DEF IndInv, TypeOK
<1>2. \A s \in Topics : smes'[s] \subseteq designated'[s] /\ designated[s] \subseteq designated'[s]
  BY DEF IndInv, TypeOK
<1>3. \A q \in inflight' : RequestInv(q)'
  BY <1>1, <1>2, RequestsKept DEF Exists
<1>4. DecidersHadAuthority'
  BY <1>2 DEF IndInv, DecidersHadAuthority, DocsAssumption
<1>5. DecidedOnRecord'
  BY DEF IndInv, DecidedOnRecord
<1> QED
  BY <1>1, <1>2, <1>3, <1>4, <1>5 DEF IndInv

LEMMA RemoveSmeKeeps ==
  ASSUME DocsAssumption, IndInv, NEW t \in Topics, NEW u \in Users, RemoveSme(t, u)
  PROVE  IndInv'
<1> USE DEF RemoveSme
<1>1. TypeOK'
  BY DEF IndInv, TypeOK
<1>2. \A s \in Topics : smes'[s] \subseteq designated'[s]
  BY DEF IndInv, TypeOK
<1>3. \A q \in inflight' : RequestInv(q)'
  BY <1>1, RequestsKept DEF Exists
<1>4. DecidedOnRecord' /\ DecidersHadAuthority'
  BY DEF IndInv, DecidedOnRecord, DecidersHadAuthority
<1> QED
  BY <1>1, <1>2, <1>3, <1>4 DEF IndInv

LEMMA StutterKeeps == ASSUME IndInv, UNCHANGED vars PROVE IndInv'
  BY RequestOnlySteps DEF vars, Others, IndInv, TypeOK

LEMMA StepKeeps == ASSUME DocsAssumption, IndInv, [Next]_vars PROVE IndInv'
<1>1. ASSUME NEW u \in Users, NEW d \in Docs, NEW x \in Decisions,
             PyLoad(u, d, x) \/ NetCheck(u, d, x)
      PROVE  IndInv'
  BY <1>1, PyLoadKeeps, NetCheckKeeps
<1>2. ASSUME NEW r \in inflight, Serve(r)
      PROVE  IndInv'
  <2>1. CASE PyAuthorize(r) BY <2>1, PyAuthorizeKeeps
  <2>2. CASE PyCommit(r)    BY <2>2, PyCommitKeeps
  <2>3. CASE NetInsert(r)   BY <2>3, NetInsertKeeps
  <2>4. CASE NetUpdate(r)   BY <2>4, NetUpdateKeeps
  <2>5. CASE Abort(r)       BY <2>5, AbortKeeps DEF Abort, Others
  <2> QED BY <1>2, <2>1, <2>2, <2>3, <2>4, <2>5 DEF Serve
<1>3. ASSUME NEW d \in Docs, EnterReview(d) \/ Delete(d)
      PROVE  IndInv'
  BY <1>3, EnterReviewKeeps, DeleteKeeps
<1>4. ASSUME NEW t \in Topics, NEW u \in Users, AddSme(t, u) \/ RemoveSme(t, u)
      PROVE  IndInv'
  BY <1>4, AddSmeKeeps, RemoveSmeKeeps
<1> QED
  BY <1>1, <1>2, <1>3, <1>4, StutterKeeps DEF Next

(* The inductive invariant of the review of a document: a request between  *)
(* two statements has been checked for what its next statement needs.      *)
THEOREM Invariance == Spec => []IndInv
<1>1. Init => IndInv
  BY InitEstablishes
<1>2. IndInv /\ [Next]_vars => IndInv'
  BY StepKeeps, DocsAssumption
<1> QED
  BY <1>1, <1>2, PTL DEF Spec

(* Every value the model's variables take is one the tables can hold. *)
THEOREM TypeCorrect == Spec => []TypeOK
<1>1. IndInv => TypeOK
  BY DEF IndInv
<1> QED
  BY <1>1, Invariance, PTL

(* An approved or rejected document has that decision among its approvals  *)
(* rows, with both backends deciding, crashing between the two statements  *)
(* of .NET and deleting (reviews.py:78-88, ReviewEndpoints.cs:52-60).      *)
THEOREM DecisionOnRecord == Spec => []DecidedOnRecord
<1>1. IndInv => DecidedOnRecord
  BY DEF IndInv
<1> QED
  BY <1>1, Invariance, PTL

(* Nobody decides on their own upload, on a topic they never had authority *)
(* over, or on a personal document, although the authority is checked some *)
(* statements before the decision is written.                              *)
THEOREM ScopedAuthority == Spec => []DecidersHadAuthority
<1>1. IndInv => DecidersHadAuthority
  BY DEF IndInv
<1> QED
  BY <1>1, Invariance, PTL

(* What any step of a review leaves of the past: records stay with an      *)
(* existing document, nobody is erased from the history of designations,   *)
(* and a deleted document stays deleted.                                   *)
LEMMA PastIsKept ==
  ASSUME DocsAssumption, IndInv, [Next]_vars
  PROVE  /\ \A d \in Docs : audit[d] \subseteq audit'[d] \/ review'[d] = "gone"
         /\ \A d \in Docs : review[d] = "gone" => review'[d] = "gone"
         /\ \A t \in Topics : designated[t] \subseteq designated'[t]
<1>1. ASSUME NEW r \in inflight, Serve(r)
      PROVE  /\ \A d \in Docs : audit[d] \subseteq audit'[d]
             /\ \A d \in Docs : review[d] = "gone" => review'[d] = "gone"
             /\ designated' = designated
  <2>1. r.doc \in Docs
    BY DEF IndInv, TypeOK, Requests
  <2>2. CASE PyCommit(r)
    BY <2>1, <2>2 DEF PyCommit, Exists, IndInv, TypeOK
  <2>3. CASE NetInsert(r)
    BY <2>1, <2>3 DEF NetInsert, IndInv, TypeOK
  <2>4. CASE NetUpdate(r)
    BY <2>1, <2>4 DEF NetUpdate, Exists, IndInv, TypeOK
  <2> QED
    BY <1>1, <2>2, <2>3, <2>4 DEF Serve, PyAuthorize, Abort
<1>2. ASSUME NEW d \in Docs, EnterReview(d) \/ Delete(d)
      PROVE  /\ \A e \in Docs : audit[e] \subseteq audit'[e] \/ review'[e] = "gone"
             /\ \A e \in Docs : review[e] = "gone" => review'[e] = "gone"
             /\ designated' = designated
  BY <1>2 DEF EnterReview, Delete, IndInv, TypeOK
<1>3. ASSUME NEW t \in Topics, NEW u \in Users, AddSme(t, u) \/ RemoveSme(t, u)
      PROVE  /\ UNCHANGED <<audit, review>>
             /\ \A s \in Topics : designated[s] \subseteq designated'[s]
  BY <1>3 DEF AddSme, RemoveSme, IndInv, TypeOK
<1>4. ASSUME NEW u \in Users, NEW d \in Docs, NEW x \in Decisions,
             PyLoad(u, d, x) \/ NetCheck(u, d, x)
      PROVE  UNCHANGED Others
  BY <1>4 DEF PyLoad, NetCheck, Others
<1>5. CASE UNCHANGED vars
  BY <1>5 DEF vars
<1> QED
  BY <1>1, <1>2, <1>3, <1>4, <1>5 DEF Next, Others

(* No step but the deletion of the document takes a record away. *)
THEOREM AuditOnlyGrows == Spec => AppendOnly
<1>1. IndInv /\ [Next]_vars =>
        [\A d \in Docs : audit[d] \subseteq audit'[d] \/ review'[d] = "gone"]_vars
  BY PastIsKept, DocsAssumption
<1> QED
  BY <1>1, Invariance, PTL DEF Spec, AppendOnly

-----------------------------------------------------------------------------
(* With FastAPI alone no request is ever between an approval and its       *)
(* status.                                                                 *)
OneCommit ==
  /\ \A r \in inflight : r.at \in {"py_loaded", "py_checked"}
  /\ RecordedIsDecided

LEMMA OneCommitKept ==
  ASSUME DocsAssumption, ~DotNet, IndInv, OneCommit, [Next]_vars
  PROVE  OneCommit'
<1>1. ASSUME NEW r \in inflight, Serve(r)
      PROVE  OneCommit'
  <2>1. r.at \in {"py_loaded", "py_checked"} /\ r \in Requests
    BY DEF OneCommit, IndInv, TypeOK
  <2>2. CASE PyAuthorize(r)
    <3>1. [r EXCEPT !.at = "py_checked"].at = "py_checked"
      BY <2>1 DEF Requests
    <3> QED
      BY <2>2, <3>1 DEF PyAuthorize, OneCommit, RecordedIsDecided, Advance, Finish
  <2>3. CASE PyCommit(r)
    <3>1. r.doc \in Docs /\ r.decision \in Decisions
      BY <2>1 DEF Requests
    <3>2. review'[r.doc] = r.decision /\ \A d \in Docs \ {r.doc} : review'[d] = review[d]
      BY <2>3, <3>1 DEF PyCommit, IndInv, TypeOK
    <3>3. \A d \in Docs \ {r.doc} : audit'[d] = audit[d]
      BY <2>3, <3>1 DEF PyCommit, IndInv, TypeOK
    <3> QED
      BY <2>3, <3>1, <3>2, <3>3 DEF PyCommit, OneCommit, RecordedIsDecided, Finish
  <2>4. CASE Abort(r)
    BY <2>4 DEF Abort, OneCommit, RecordedIsDecided, Finish
  <2> QED
    BY <1>1, <2>1, <2>2, <2>3, <2>4 DEF Serve, NetInsert, NetUpdate
<1>2. ASSUME NEW u \in Users, NEW d \in Docs, NEW x \in Decisions, PyLoad(u, d, x)
      PROVE  OneCommit'
  BY <1>2 DEF PyLoad, Admit, OneCommit, RecordedIsDecided
<1>3. ASSUME NEW d \in Docs, EnterReview(d)
      PROVE  OneCommit'
  <2>1. audit[d] = {}
    BY <1>3 DEF EnterReview, OneCommit, RecordedIsDecided, Decisions
  <2> QED
    BY <1>3, <2>1 DEF EnterReview, OneCommit, RecordedIsDecided, IndInv, TypeOK
<1>4. ASSUME NEW d \in Docs, Delete(d)
      PROVE  OneCommit'
  BY <1>4 DEF Delete, OneCommit, RecordedIsDecided, IndInv, TypeOK
<1>5. CASE UNCHANGED <<review, audit, inflight>>
  BY <1>5 DEF OneCommit, RecordedIsDecided
<1> QED
  BY <1>1, <1>2, <1>3, <1>4, <1>5
     DEF Next, NetCheck, AddSme, RemoveSme, vars

(* Where only FastAPI decides, an approval on record has taken effect: the *)
(* one commit of reviews.py:88 leaves no moment in between.                *)
THEOREM RecordTakesEffect == ~DotNet => (Spec => []RecordedIsDecided)
<1>1. SUFFICES ASSUME ~DotNet PROVE Spec => []RecordedIsDecided
  OBVIOUS
<1>2. Init => OneCommit
  BY DEF Init, OneCommit, RecordedIsDecided
<1>3. IndInv /\ OneCommit /\ [Next]_vars => OneCommit'
  BY <1>1, OneCommitKept, DocsAssumption
<1>4. OneCommit => RecordedIsDecided
  BY DEF OneCommit
<1> QED
  BY <1>2, <1>3, <1>4, Invariance, PTL DEF Spec

-----------------------------------------------------------------------------
(* Access: what a user is answered from can be opened, and the queues hold *)
(* what is to be decided.                                                  *)

LEMMA AnswersAreOpen == DocsAssumption /\ IndInv => CitationsOpen
<1> SUFFICES ASSUME DocsAssumption, IndInv, NEW u \in Users, NEW d \in AnswersFrom(u)
             PROVE  /\ PySees(u, d) /\ d \in PyPersonalList(u) \cup PyLibraryList(u)
                    /\ NetSees(u, d) /\ d \in NetPersonalList(u) \cup NetLibraryList(u)
  BY DEF CitationsOpen
<1>1. d \in Docs
  BY DEF AnswersFrom
<1>2. CASE d \in Library /\ review[d] = "approved"
  <2>1. Exists(d)
    BY <1>2 DEF Exists
  <2> QED
    BY <1>1, <1>2, <2>1 DEF PySees, NetSees, PyLibraryList, NetLibraryList
<1>3. CASE d \notin Library /\ Exists(d) /\ Owner[d] = u
  BY <1>1, <1>3 DEF PySees, NetSees, PyPersonalList, NetPersonalList
<1> QED
  BY <1>2, <1>3 DEF AnswersFrom

LEMMA QueueIsServed == DocsAssumption /\ IndInv => QueueServesReview
<1> SUFFICES ASSUME DocsAssumption, IndInv, NEW u \in Users, NEW d \in Docs
             PROVE  /\ (review[d] = "pending_sme" /\ MayDecide(u, d)) =>
                         /\ d \in PyQueue(u) /\ d \in NetQueue(u)
                         /\ PySees(u, d) /\ NetSees(u, d)
                    /\ (d \in PyQueue(u) \cup NetQueue(u)) =>
                         MayDecide(u, d) \/ (u \in Admins \cup smes[TopicOf[d]] /\ Owner[d] = u)
  BY DEF QueueServesReview
<1>1. review[d] = "pending_sme" => d \in Library /\ Exists(d)
  BY DEF IndInv, Exists
<1>2. ASSUME review[d] = "pending_sme", MayDecide(u, d)
      PROVE  d \in PyQueue(u) /\ d \in NetQueue(u) /\ PySees(u, d) /\ NetSees(u, d)
  BY <1>1, <1>2 DEF MayDecide, PyQueue, NetQueue, Reviewer, PySees, NetSees
<1>3. ASSUME d \in PyQueue(u) \cup NetQueue(u)
      PROVE  MayDecide(u, d) \/ (u \in Admins \cup smes[TopicOf[d]] /\ Owner[d] = u)
  BY <1>3 DEF PyQueue, NetQueue, Reviewer, MayDecide, IsSme
<1> QED
  BY <1>2, <1>3

(* Whatever is decided, deleted or designated meanwhile, a citation leads  *)
(* to a document that both backends list and open for the user.            *)
THEOREM CitationsCanBeOpened == Spec => []CitationsOpen
<1> QED
  BY Invariance, AnswersAreOpen, DocsAssumption, PTL

(* A document in review is in the queue of everybody who may decide it and *)
(* of nobody else but its uploader.                                        *)
THEOREM ReviewIsServed == Spec => []QueueServesReview
<1> QED
  BY Invariance, QueueIsServed, DocsAssumption, PTL

-----------------------------------------------------------------------------
(* Retrieval.                                                              *)

(* A step of the composition is a step of the review, or leaves it alone. *)
LEMMA StepIsReviewStep == [SearchNext]_allVars => [Next]_vars
<1>1. ASSUME ReviewStep PROVE Next
  BY <1>1 DEF ReviewStep, Next
<1>2. ASSUME NEW d \in Docs, Publish(d) PROVE [Next]_vars
  BY <1>2 DEF Publish, Next
<1>3. ASSUME NEW d \in Docs, DeleteDocument(d) PROVE Next
  BY <1>3 DEF DeleteDocument, Next
<1>4. CASE UNCHANGED allVars
  BY <1>4 DEF allVars
<1>5. CASE UNCHANGED vars
  BY <1>5
<1>6. ASSUME SearchNext, ~UNCHANGED vars
      PROVE  \/ ReviewStep
             \/ \E d \in Docs : Publish(d) \/ DeleteDocument(d)
  BY <1>6 DEF SearchNext, Upload, Fail, Sweep, Resume, Restart, StartSearch, AskProvider, EndSearch
<1> QED
  BY <1>1, <1>2, <1>3, <1>4, <1>5, <1>6

(* With retrieval, ingestion and restarts around it the review still is    *)
(* what Reviews says.                                                      *)
THEOREM ReviewsImplemented == SearchSpec => Spec
<1>1. SearchInit => Init
  BY DEF SearchInit
<1> QED
  BY <1>1, StepIsReviewStep, PTL DEF SearchSpec, Spec

-----------------------------------------------------------------------------
(* Where a hit may come from, and what a search in progress is.            *)

HitAllowed(s, h) ==
  \/ s.scope = "admin" /\ s.by \in Admins
  \/ h.doc \notin Library /\ Owner[h.doc] = s.by
  \/ h.doc \in Library /\ (review[h.doc] = "gone" \/ ApprovedByAuthority(h.doc))

SearchInv(s) ==
  /\ s \in Searches
  /\ s.scope = "admin" => s.by \in Admins
  /\ \A h \in s.ranked : HitAllowed(s, h)

SearchesSound == \A s \in searches : SearchInv(s)

(* An approval by somebody with authority does not wear off. *)
LEMMA ApprovalStays ==
  ASSUME DocsAssumption, IndInv, [Next]_vars, NEW d \in Library,
         review[d] = "gone" \/ ApprovedByAuthority(d)
  PROVE  review'[d] = "gone" \/ ApprovedByAuthority(d)'
<1>1. d \in Docs /\ TopicOf[d] \in Topics
  BY DEF DocsAssumption
<1>2. /\ audit[d] \subseteq audit'[d] \/ review'[d] = "gone"
      /\ review[d] = "gone" => review'[d] = "gone"
      /\ designated[TopicOf[d]] \subseteq designated'[TopicOf[d]]
  BY <1>1, PastIsKept
<1> QED
  BY <1>2 DEF ApprovedByAuthority

LEMMA SearchStaysSound ==
  ASSUME DocsAssumption, IndInv, [Next]_vars, NEW s \in searches, SearchInv(s)
  PROVE  SearchInv(s)'
<1>1. ASSUME NEW h \in s.ranked PROVE HitAllowed(s, h)'
  BY <1>1, ApprovalStays DEF SearchInv, HitAllowed
<1> QED
  BY <1>1 DEF SearchInv

(* An approved document has been approved by somebody with authority: the  *)
(* two halves of the invariant of Reviews.                                 *)
LEMMA ApprovedHasAuthority ==
  ASSUME IndInv, NEW d \in Docs, review[d] = "approved"
  PROVE  ApprovedByAuthority(d)
<1>1. PICK r \in audit[d] : r.decision = "approved"
  BY DEF IndInv, DecidedOnRecord, Decisions
<1>2. r.by # Owner[d] /\ r.by \in Admins \cup designated[TopicOf[d]]
  BY DEF IndInv, DecidersHadAuthority
<1> QED
  BY <1>1, <1>2 DEF ApprovedByAuthority

(* What a statement of the search may rank, it may rank for this user. *)
LEMMA RankingIsAllowed ==
  ASSUME IndInv, NEW s, SearchInv(s), NEW p, NEW d \in Ranking(s, p), NEW h, h.doc = d
  PROVE  HitAllowed(s, h)
<1>1. d \in Docs /\ Visible(s.by, s.scope, d)
  BY DEF Ranking
<1>2. CASE s.scope = "admin"
  BY <1>2 DEF SearchInv, HitAllowed
<1>3. CASE s.scope # "admin" /\ d \notin Library
  BY <1>1, <1>3 DEF Visible, HitAllowed
<1>4. CASE s.scope # "admin" /\ d \in Library
  BY <1>1, <1>4, ApprovedHasAuthority DEF Visible, HitAllowed
<1> QED
  BY <1>2, <1>3, <1>4

LEMMA AskKeeps ==
  ASSUME RetrievalAssumption, IndInv, SearchesSound, NEW s \in searches, AskProvider(s)
  PROVE  SearchesSound'
<1>1. PICK p \in s.todo :
        /\ Replace(s, [s EXCEPT
             !.todo   = @ \ {p},
             !.known  = {d \in @ : Visible(s.by, s.scope, d)},
             !.ranked = @ \cup [doc : Ranking(s, p), asked : {SpaceOf(s.backend, p)}]])
        /\ UNCHANGED <<vars, corpus, keys>>
  BY DEF AskProvider
<1> DEFINE new == [doc : Ranking(s, p), asked : {SpaceOf(s.backend, p)}]
           t   == [s EXCEPT !.todo = @ \ {p},
                            !.known = {d \in @ : Visible(s.by, s.scope, d)},
                            !.ranked = @ \cup new]
<1>2. SearchInv(s) /\ s \in Searches
  BY DEF SearchesSound, SearchInv
<1>3. p \in Providers /\ SpaceOf(s.backend, p) \in Providers
  BY <1>1, <1>2 DEF Searches, SpaceOf, Providers
<1>4. new \in SUBSET Hits
  BY <1>3 DEF Hits, Ranking
<1>5. /\ t.by = s.by /\ t.scope = s.scope
      /\ t.ranked = s.ranked \cup new
      /\ t \in Searches
  BY <1>2, <1>4 DEF Searches
<1>6. ASSUME NEW h \in t.ranked PROVE HitAllowed(t, h)
  <2>1. CASE h \in s.ranked
    BY <2>1, <1>2, <1>5 DEF SearchInv, HitAllowed
  <2>2. CASE h \in new
    <3>1. h.doc \in Ranking(s, p)
      BY <2>2
    <3>2. HitAllowed(s, h)
      BY <3>1, <1>2, RankingIsAllowed
    <3> QED
      BY <3>2, <1>5 DEF HitAllowed
  <2> QED
    BY <1>5, <2>1, <2>2
<1>7. SearchInv(t)
  BY <1>2, <1>5, <1>6 DEF SearchInv
<1>8. \A q \in searches' : SearchInv(q)
  BY <1>1, <1>7 DEF Replace, SearchesSound
<1> QED
  BY <1>1, <1>8 DEF SearchesSound, SearchInv, HitAllowed, ApprovedByAuthority, vars

LEMMA StartKeeps ==
  ASSUME RetrievalAssumption, SearchesSound, NEW u \in Users,
         NEW scope \in {"personal", "admin"}, NEW b \in Backends, StartSearch(u, scope, b)
  PROVE  SearchesSound'
<1> DEFINE seen == {d \in Docs : Visible(u, scope, d)}
           ps   == {ProviderOf[d] : d \in seen}
           s == [by |-> u, scope |-> scope, backend |-> b,
                 todo   |-> FirstTwo(ps),
                 listed |-> ps,
                 known  |-> {d \in seen : phase[d] = "ready"},
                 ranked |-> {}]
<1>1. searches' = searches \cup {s} /\ UNCHANGED vars
  BY DEF StartSearch
<1>2. ps \in SUBSET Providers /\ FirstTwo(ps) \in SUBSET Providers
  BY DEF FirstTwo, RetrievalAssumption
<1>3. s \in Searches
  BY <1>2 DEF Searches
<1>4. SearchInv(s)
  BY <1>3 DEF SearchInv, StartSearch
<1>5. \A q \in searches' : SearchInv(q)
  BY <1>1, <1>4 DEF SearchesSound
<1> QED
  BY <1>1, <1>5 DEF SearchesSound, SearchInv, HitAllowed, ApprovedByAuthority, vars

LEMMA SearchStepKeeps ==
  ASSUME DocsAssumption, RetrievalAssumption, IndInv, SearchesSound, [SearchNext]_allVars
  PROVE  SearchesSound'
<1>1. ASSUME NEW s \in searches, AskProvider(s) PROVE SearchesSound'
  BY <1>1, AskKeeps
<1>2. ASSUME NEW u \in Users, NEW scope \in {"personal", "admin"}, NEW b \in Backends,
             StartSearch(u, scope, b)
      PROVE  SearchesSound'
  BY <1>2, StartKeeps
<1>3. CASE searches' \subseteq searches
  <2>1. \A s \in searches : SearchInv(s)'
    BY StepIsReviewStep, SearchStaysSound DEF SearchesSound
  <2> QED
    BY <1>3, <2>1 DEF SearchesSound
<1>4. ASSUME NEW d \in Docs, Publish(d) \/ Fail(d) \/ Sweep(d) \/ Resume(d) \/ DeleteDocument(d)
      PROVE  searches' \subseteq searches
  BY <1>4 DEF Publish, Fail, Sweep, Resume, DeleteDocument
<1>5. ASSUME NEW d \in Docs, NEW b \in Backends, Upload(d, b)
      PROVE  searches' \subseteq searches
  BY <1>5 DEF Upload
<1>6. ASSUME NEW b \in Backends, Restart(b)
      PROVE  searches' \subseteq searches
  BY <1>6 DEF Restart
<1>7. ASSUME NEW s \in searches, EndSearch(s)
      PROVE  searches' \subseteq searches
  BY <1>7 DEF EndSearch
<1> QED
  BY <1>1, <1>2, <1>3, <1>4, <1>5, <1>6, <1>7 DEF SearchNext, allVars

LEMMA SoundSearches == SearchSpec => [](IndInv /\ SearchesSound)
<1>1. SearchSpec => []IndInv
  BY ReviewsImplemented, Invariance, PTL
<1>2. SearchInit => SearchesSound
  BY DEF SearchInit, SearchesSound
<1>3. IndInv /\ SearchesSound /\ [SearchNext]_allVars => SearchesSound'
  BY SearchStepKeeps, DocsAssumption, RetrievalAssumption
<1> QED
  BY <1>1, <1>2, <1>3, PTL DEF SearchSpec

(* However decisions, deletions, publications and restarts fall between    *)
(* the statements of a search, it ranks what its user may be answered      *)
(* from: the end-to-end promise of ingestion, review and retrieval.        *)
THEOREM AnswersAreAuthorised == SearchSpec => []AnsweredFromVisible
<1>1. SearchesSound => AnsweredFromVisible
  BY DEF SearchesSound, SearchInv, HitAllowed, AnsweredFromVisible
<1> QED
  BY <1>1, SoundSearches, PTL

-----------------------------------------------------------------------------
(* The corpus.                                                             *)

CorpusOK ==
  /\ phase \in [Docs -> {"absent", "working", "ready", "failed", "gone"}]
  /\ home  \in [Docs -> Backends \cup {NoBackend}]
  /\ space \in [Docs -> Providers \cup {NoSpace}]
  /\ keys  \in [Backends -> SUBSET RealProviders]

(* One document moves. *)
DocumentStep(d) ==
  \/ \E b \in Backends : Upload(d, b)
  \/ Publish(d) \/ Fail(d) \/ Sweep(d) \/ Resume(d) \/ DeleteDocument(d)

LEMMA CorpusStays ==
  ASSUME RetrievalAssumption, CorpusOK, [SearchNext]_allVars
  PROVE  CorpusOK'
<1> USE DEF CorpusOK
<1>1. ASSUME NEW d \in Docs, DocumentStep(d) PROVE CorpusOK'
  <2>1. \A b, p : p \in Providers => SpaceOf(b, p) \in Providers
    BY DEF SpaceOf, Providers
  <2>2. ProviderOf[d] \in Providers
    BY DEF RetrievalAssumption
  <2> QED
    BY <1>1, <2>1, <2>2 DEF DocumentStep, Upload, Publish, Fail, Sweep, Resume, DeleteDocument
<1>2. ASSUME NEW b \in Backends, Restart(b) PROVE CorpusOK'
  BY <1>2 DEF Restart
<1>3. CASE UNCHANGED <<corpus, keys>>
  BY <1>3 DEF corpus
<1> QED
  BY <1>1, <1>2, <1>3
     DEF SearchNext, DocumentStep, StartSearch, AskProvider, EndSearch, allVars, corpus

(* What a statement of a search leaves behind. *)
LEMMA AskResult ==
  ASSUME NEW s \in Searches, AskProvider(s)
  PROVE  \E p \in s.todo, t \in searches' :
           /\ Reachable(s.backend, p)
           /\ searches' = (searches \ {s}) \cup {t}
           /\ t.backend = s.backend /\ t.listed = s.listed
           /\ t.todo = s.todo \ {p}
           /\ t.known = {d \in s.known : Visible(s.by, s.scope, d)}
           /\ t.ranked = s.ranked \cup [doc : Ranking(s, p), asked : {SpaceOf(s.backend, p)}]
<1>1. PICK p \in s.todo :
        /\ Reachable(s.backend, p)
        /\ Replace(s, [s EXCEPT
             !.todo   = @ \ {p},
             !.known  = {d \in @ : Visible(s.by, s.scope, d)},
             !.ranked = @ \cup [doc : Ranking(s, p), asked : {SpaceOf(s.backend, p)}]])
  BY DEF AskProvider
<1> DEFINE t == [s EXCEPT
             !.todo   = @ \ {p},
             !.known  = {d \in @ : Visible(s.by, s.scope, d)},
             !.ranked = @ \cup [doc : Ranking(s, p), asked : {SpaceOf(s.backend, p)}]]
<1>2. /\ t.backend = s.backend /\ t.listed = s.listed
      /\ t.todo = s.todo \ {p}
      /\ t.known = {d \in s.known : Visible(s.by, s.scope, d)}
      /\ t.ranked = s.ranked \cup [doc : Ranking(s, p), asked : {SpaceOf(s.backend, p)}]
  BY DEF Searches
<1>3. searches' = (searches \ {s}) \cup {t}
  BY <1>1 DEF Replace
<1> HIDE DEF t
<1> QED
  BY <1>1, <1>2, <1>3

-----------------------------------------------------------------------------
(* Vector spaces: FastAPI refuses a provider it has no key for, so what it *)
(* stores and asks is in the space of its provider; .NET stores and asks   *)
(* in the demo space instead.                                              *)

Keyed(d)    == home[d] \in Backends =>
                 home[d] = "dotnet" \/ Available(home[d], ProviderOf[d])
Spaced(d)   == phase[d] = "ready" =>
                 space[d] = ProviderOf[d] \/ ("dotnet" \in Backends /\ space[d] = "demo")
Asked(s)    == \A h \in s.ranked :
                 /\ h.doc \in Docs
                 /\ h.asked = ProviderOf[h.doc] \/ (s.backend = "dotnet" /\ h.asked = "demo")

SpacesInv ==
  /\ CorpusOK
  /\ \A d \in Docs : Keyed(d) /\ Spaced(d)
  /\ \A s \in searches : Asked(s)

LEMMA AskedInItsSpace ==
  ASSUME NEW s \in Searches, AskProvider(s), Asked(s)
  PROVE  \A t \in searches' \ searches : Asked(t)
<1>1. PICK p \in s.todo, t \in searches' :
        /\ Reachable(s.backend, p)
        /\ searches' = (searches \ {s}) \cup {t}
        /\ t.backend = s.backend
        /\ t.ranked = s.ranked \cup [doc : Ranking(s, p), asked : {SpaceOf(s.backend, p)}]
  BY AskResult
<1>2. SpaceOf(s.backend, p) = p \/ (s.backend = "dotnet" /\ SpaceOf(s.backend, p) = "demo")
  BY <1>1 DEF Reachable, SpaceOf, Searches
<1>3. \A a : \A h \in [doc : Ranking(s, p), asked : {a}] :
        h.doc \in Docs /\ ProviderOf[h.doc] = p /\ h.asked = a
  BY DEF Ranking
<1>4. Asked(t)
  BY <1>1, <1>2, <1>3 DEF Asked
<1> QED
  BY <1>1, <1>4

LEMMA SpacesStay ==
  ASSUME RetrievalAssumption, SearchesSound, SpacesInv, [SearchNext]_allVars
  PROVE  SpacesInv'
<1>0. CorpusOK /\ CorpusOK'
  BY CorpusStays DEF SpacesInv
<1>1. ASSUME NEW d \in Docs, DocumentStep(d)
      PROVE  searches' = searches /\ \A c \in Docs : Keyed(c)' /\ Spaced(c)'
  <2>1. \A c \in Docs \ {d} : home'[c] = home[c] /\ phase'[c] = phase[c] /\ space'[c] = space[c]
    BY <1>0, <1>1 DEF CorpusOK, DocumentStep, Upload, Publish, Fail, Sweep, Resume, DeleteDocument
  <2>2. UNCHANGED <<keys, searches>>
    BY <1>1 DEF DocumentStep, Upload, Publish, Fail, Sweep, Resume, DeleteDocument
  <2>3. Keyed(d)'
    <3>1. CASE \E b \in Backends : Upload(d, b)
      BY <1>0, <3>1 DEF Upload, Reachable, CorpusOK, Keyed, Available
    <3>2. CASE ~\E b \in Backends : Upload(d, b)
      <4>1. home'[d] = home[d] \/ home'[d] = NoBackend
        BY <1>0, <1>1, <3>2 DEF CorpusOK, DocumentStep, Publish, Fail, Sweep, Resume, DeleteDocument
      <4>2. NoBackend \notin Backends
        BY DEF RetrievalAssumption, NoBackend
      <4> QED
        BY <2>2, <4>1, <4>2 DEF SpacesInv, Keyed, Available
    <3> QED
      BY <3>1, <3>2
  <2>4. Spaced(d)'
    <3>1. CASE Publish(d)
      <4>1. home[d] \in Backends /\ space'[d] = SpaceOf(home[d], ProviderOf[d])
        BY <1>0, <3>1 DEF Publish, CorpusOK
      <4> QED
        BY <4>1 DEF SpaceOf, SpacesInv, Keyed, Spaced
    <3>2. CASE ~Publish(d)
      BY <1>0, <1>1, <3>2
         DEF SpacesInv, Spaced, CorpusOK, DocumentStep, Upload, Fail, Sweep, Resume, DeleteDocument
    <3> QED
      BY <3>1, <3>2
  <2> QED
    BY <2>1, <2>2, <2>3, <2>4 DEF SpacesInv, Keyed, Spaced, Available
<1>2. ASSUME NEW b \in Backends, Restart(b)
      PROVE  searches' \subseteq searches /\ \A c \in Docs : Keyed(c)' /\ Spaced(c)'
  <2>1. NoBackend \notin Backends
    BY DEF RetrievalAssumption, NoBackend
  <2> QED
    BY <1>0, <1>2, <2>1 DEF Restart, SpacesInv, Keyed, Spaced, Available, CorpusOK
<1>3. CASE UNCHANGED <<phase, home, space, keys>>
  <2>1. \A t \in searches' \ searches : Asked(t)
    <3>1. ASSUME NEW s \in searches, AskProvider(s)
          PROVE  \A t \in searches' \ searches : Asked(t)
      BY <3>1, AskedInItsSpace DEF SearchesSound, SearchInv, SpacesInv
    <3>2. ASSUME NEW u, NEW scope, NEW b, StartSearch(u, scope, b)
          PROVE  \A t \in searches' \ searches : Asked(t)
      BY <3>2 DEF StartSearch, Asked
    <3>3. ASSUME NEW s, EndSearch(s) PROVE searches' \subseteq searches
      BY <3>3 DEF EndSearch
    <3>4. ASSUME NEW d \in Docs, DocumentStep(d) PROVE searches' \subseteq searches
      BY <1>1, <3>4
    <3>5. ASSUME NEW b \in Backends, Restart(b) PROVE searches' \subseteq searches
      BY <1>2, <3>5
    <3> QED
      BY <3>1, <3>2, <3>3, <3>4, <3>5 DEF SearchNext, DocumentStep, allVars
  <2> QED
    BY <1>0, <1>3, <2>1 DEF SpacesInv, Keyed, Spaced, Available
<1>4. ASSUME NEW d \in Docs, DocumentStep(d) PROVE SpacesInv'
  BY <1>0, <1>1, <1>4 DEF SpacesInv
<1>5. ASSUME NEW b \in Backends, Restart(b) PROVE SpacesInv'
  BY <1>0, <1>2, <1>5 DEF SpacesInv
<1> QED
  BY <1>3, <1>4, <1>5
     DEF SearchNext, DocumentStep, StartSearch, AskProvider, EndSearch, allVars, corpus

(* Whatever keys the backends are restarted with, a question is compared   *)
(* with vectors of another space only where .NET has fallen back to the    *)
(* demo provider, for the question or for the vectors; with FastAPI alone, *)
(* never.                                                                  *)
THEOREM OneSpace == SearchSpec => []QueryMatchesSpace
<1>1. SearchInit => SpacesInv
  <2>1. NoBackend \notin Backends
    BY RetrievalAssumption DEF RetrievalAssumption, NoBackend
  <2> QED
    BY <2>1 DEF SearchInit, SpacesInv, Keyed, Spaced, CorpusOK
<1>2. SearchesSound /\ SpacesInv /\ [SearchNext]_allVars => SpacesInv'
  BY SpacesStay, RetrievalAssumption
<1>3. SpacesInv => QueryMatchesSpace
  BY DEF SpacesInv, Spaced, Asked, QueryMatchesSpace
<1> QED
  BY <1>1, <1>2, <1>3, SoundSearches, PTL DEF SearchSpec

-----------------------------------------------------------------------------
(* Completeness.                                                           *)

LEMMA NoneOrTwoBefore ==
  ASSUME NEW ps \in SUBSET Providers, NEW p \in ps
  PROVE  p \in FirstTwo(ps) \/ Cardinality(Before(p, ps)) >= 2
<1>1. IsFiniteSet(Providers)
  <2>1. Providers = ({"gemini"} \cup {"openai"}) \cup {"demo"}
    BY DEF Providers, RealProviders
  <2>2. IsFiniteSet({"gemini"})
    BY FS_Singleton
  <2>3. IsFiniteSet({"gemini"} \cup {"openai"})
    BY <2>2, FS_AddElement
  <2>4. IsFiniteSet(({"gemini"} \cup {"openai"}) \cup {"demo"})
    BY <2>3, FS_AddElement
  <2> QED
    BY <2>1, <2>4
<1>2. Before(p, ps) \subseteq Providers
  BY DEF Before
<1>3. Cardinality(Before(p, ps)) \in Nat
  BY <1>1, <1>2, FS_Subset, FS_CardinalityType
<1> QED
  BY <1>3 DEF FirstTwo

(* A document a search has found is still to be asked for, or compared, or *)
(* two providers came before its own.                                      *)
Found(s, d) ==
  /\ d \in Docs /\ phase[d] \in {"ready", "gone"}
  /\ \/ ProviderOf[d] \in s.todo
     \/ \E h \in s.ranked : h.doc = d
     \/ Cardinality(Before(ProviderOf[d], s.listed)) >= 2

CompleteInv ==
  /\ CorpusOK
  /\ \A d \in Docs : phase[d] = "gone" => review[d] = "gone"
  /\ \A s \in searches : \A d \in s.known : Found(s, d)

LEMMA AskFinds ==
  ASSUME NEW s \in Searches, AskProvider(s), \A d \in s.known : Found(s, d),
         \A d \in Docs : phase[d] = "gone" => review[d] = "gone"
  PROVE  \A t \in searches' \ searches : \A d \in t.known : Found(t, d)
<1>1. PICK p \in s.todo, t \in searches' :
        /\ searches' = (searches \ {s}) \cup {t}
        /\ t.listed = s.listed
        /\ t.todo = s.todo \ {p}
        /\ t.known = {d \in s.known : Visible(s.by, s.scope, d)}
        /\ t.ranked = s.ranked \cup [doc : Ranking(s, p), asked : {SpaceOf(s.backend, p)}]
  BY AskResult
<1>2. ASSUME NEW d \in t.known PROVE Found(t, d)
  <2>1. Found(s, d) /\ Visible(s.by, s.scope, d)
    BY <1>1
  <2>2. phase[d] = "ready"
    BY <2>1 DEF Found, Visible
  <2>3. CASE ProviderOf[d] = p
    <3> DEFINE h == [doc |-> d, asked |-> SpaceOf(s.backend, p)]
    <3>1. d \in Ranking(s, p)
      BY <2>1, <2>2, <2>3 DEF Ranking, Found
    <3>2. h \in t.ranked /\ h.doc = d
      BY <1>1, <3>1
    <3> QED
      BY <2>1, <3>2 DEF Found
  <2>4. CASE ProviderOf[d] # p
    BY <1>1, <2>1, <2>4 DEF Found
  <2> QED
    BY <2>3, <2>4
<1> QED
  BY <1>1, <1>2

LEMMA StartFinds ==
  ASSUME RetrievalAssumption, NEW u, NEW scope, NEW b, StartSearch(u, scope, b)
  PROVE  \A t \in searches' \ searches : \A d \in t.known : Found(t, d)
<1> DEFINE seen == {d \in Docs : Visible(u, scope, d)}
           ps   == {ProviderOf[d] : d \in seen}
           t    == [by |-> u, scope |-> scope, backend |-> b,
                    todo   |-> FirstTwo(ps),
                    listed |-> ps,
                    known  |-> {d \in seen : phase[d] = "ready"},
                    ranked |-> {}]
<1>1. searches' = searches \cup {t}
  BY DEF StartSearch
<1>2. ps \in SUBSET Providers
  BY DEF RetrievalAssumption
<1>3. ASSUME NEW d \in t.known
      PROVE  /\ d \in seen /\ phase[d] = "ready"
             /\ \/ ProviderOf[d] \in t.todo
                \/ Cardinality(Before(ProviderOf[d], t.listed)) >= 2
  <2>1. d \in seen /\ phase[d] = "ready" /\ ProviderOf[d] \in ps
    OBVIOUS
  <2> QED
    BY <1>2, <2>1, NoneOrTwoBefore
<1>4. \A d \in seen : d \in Docs
  OBVIOUS
<1> HIDE DEF t, seen
<1> QED
  BY <1>1, <1>3, <1>4 DEF Found

LEMMA CompleteStays ==
  ASSUME DocsAssumption, RetrievalAssumption, IndInv, SearchesSound, CompleteInv,
         [SearchNext]_allVars
  PROVE  CompleteInv'
<1>0. CorpusOK /\ CorpusOK' /\ \A d \in Docs : review[d] = "gone" => review'[d] = "gone"
  BY CorpusStays, StepIsReviewStep, PastIsKept DEF CompleteInv
<1>1. ASSUME NEW d \in Docs, DocumentStep(d)
      PROVE  /\ searches' = searches
             /\ \A c \in Docs : /\ phase[c] \in {"ready", "gone"} => phase'[c] \in {"ready", "gone"}
                                /\ phase'[c] = "gone" => phase[c] = "gone" \/ review'[c] = "gone"
  <2>1. CASE DeleteDocument(d)
    <3>1. review'[d] = "gone"
      BY <2>1 DEF DeleteDocument, Delete, IndInv, TypeOK
    <3> QED
      BY <1>0, <2>1, <3>1 DEF DeleteDocument, CorpusOK
  <2>2. CASE ~DeleteDocument(d)
    BY <1>0, <1>1, <2>2 DEF CorpusOK, DocumentStep, Upload, Publish, Fail, Sweep, Resume
  <2> QED
    BY <2>1, <2>2
<1>2. CASE UNCHANGED phase
  <2>1. \A t \in searches' \ searches : \A d \in t.known : Found(t, d)
    <3>1. ASSUME NEW s \in searches, AskProvider(s)
          PROVE  \A t \in searches' \ searches : \A d \in t.known : Found(t, d)
      BY <3>1, AskFinds DEF SearchesSound, SearchInv, CompleteInv
    <3>2. ASSUME NEW u, NEW scope, NEW b, StartSearch(u, scope, b)
          PROVE  \A t \in searches' \ searches : \A d \in t.known : Found(t, d)
      BY <3>2, StartFinds
    <3>3. ASSUME NEW s, EndSearch(s) PROVE searches' \subseteq searches
      BY <3>3 DEF EndSearch
    <3>4. ASSUME NEW d \in Docs, DocumentStep(d) PROVE searches' \subseteq searches
      BY <1>1, <3>4
    <3>5. ASSUME NEW b \in Backends, Restart(b) PROVE searches' \subseteq searches
      BY <3>5 DEF Restart
    <3> QED
      BY <3>1, <3>2, <3>3, <3>4, <3>5 DEF SearchNext, DocumentStep, allVars
  <2> QED
    BY <1>0, <1>2, <2>1 DEF CompleteInv, Found
<1>3. ASSUME NEW d \in Docs, DocumentStep(d) PROVE CompleteInv'
  BY <1>0, <1>1, <1>3 DEF CompleteInv, Found
<1> QED
  BY <1>2, <1>3
     DEF SearchNext, DocumentStep, Restart, StartSearch, AskProvider, EndSearch, allVars, corpus

(* A search that ends has compared the question with every document that   *)
(* was an indexed candidate all along and whose provider was not cut,      *)
(* whatever is uploaded, decided and deleted meanwhile, on either backend. *)
THEOREM NothingMissed == SearchSpec => []SearchMissesNothing
<1>1. SearchInit => CompleteInv
  BY DEF SearchInit, CompleteInv, CorpusOK
<1>2. IndInv /\ SearchesSound /\ CompleteInv /\ [SearchNext]_allVars => CompleteInv'
  BY CompleteStays, DocsAssumption, RetrievalAssumption
<1>3. CompleteInv => SearchMissesNothing
  BY DEF CompleteInv, Found, SearchMissesNothing
<1> QED
  BY <1>1, <1>2, <1>3, SoundSearches, PTL DEF SearchSpec
=============================================================================
