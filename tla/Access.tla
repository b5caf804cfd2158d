------------------------------- MODULE Access -------------------------------
(***************************************************************************)
(* Who is shown what while documents go through review (Reviews): the      *)
(* lists, the detail page and the review queue of both backends, and the   *)
(* documents a personal chat is answered from.  Each backend decides it in *)
(* several places, by predicates of its own.                               *)
(***************************************************************************)
EXTENDS Reviews

(* pending_reviewer, the flag by which the client offers a decision. *)
Reviewer(u, d) == review[d] = "pending_sme" /\ (u \in Admins \/ IsSme(u, d))

(* Variant: the topic's SMEs are forgotten. *)
PySees_NoSme(u, d) ==
  Exists(d) /\ (Owner[d] = u \/ u \in Admins \/ (d \in Library /\ review[d] = "approved"))

PySees(u, d) ==
  /\ Exists(d)
  /\ \/ Owner[d] = u
     \/ u \in Admins
     \/ d \in Library /\ (review[d] = "approved" \/ IsSme(u, d))

NetSees(u, d) ==
  /\ Exists(d)
  /\ \/ Owner[d] = u
     \/ u \in Admins
     \/ d \in Library /\ (review[d] = "approved" \/ Reviewer(u, d))

PyPersonalList(u)  == {d \in Docs : Exists(d) /\ Owner[d] = u}
NetPersonalList(u) == {d \in Docs \ Library : Exists(d) /\ Owner[d] = u}

(* Admins get every row: the scope is a condition of the other branch. *)
PyLibraryList(u) ==
  {d \in Docs : /\ Exists(d)
                /\ \/ u \in Admins
                   \/ d \in Library /\ (review[d] = "approved" \/ IsSme(u, d))}

(* Any designation opens the whole library. *)
NetLibraryList(u) ==
  {d \in Library : /\ Exists(d)
                   /\ \/ u \in Admins
                      \/ review[d] = "approved"
                      \/ \E t \in Topics : u \in smes[t]}

PyQueue(u)  == {d \in Docs : Reviewer(u, d)}
NetQueue(u) == {d \in Library : Reviewer(u, d)}

(* Variant: library documents in review answer questions. *)
AnswersFrom_Unapproved(u) ==
  {d \in Docs : Exists(d) /\ (d \in Library \/ Owner[d] = u)}

(* The candidates of a personal chat, the same in both backends. *)
AnswersFrom(u) ==
  {d \in Docs : \/ d \in Library /\ review[d] = "approved"
                \/ d \notin Library /\ Exists(d) /\ Owner[d] = u}

-----------------------------------------------------------------------------
(* Properties.                                                             *)

(* A citation can be followed: what a user is answered from, both backends *)
(* list and open for them.                                                 *)
CitationsOpen ==
  \A u \in Users : \A d \in AnswersFrom(u) :
    /\ PySees(u, d) /\ d \in PyPersonalList(u) \cup PyLibraryList(u)
    /\ NetSees(u, d) /\ d \in NetPersonalList(u) \cup NetLibraryList(u)

(* Whoever may decide finds the document in both queues and can open it,   *)
(* and the queues hold nothing else but one's own uploads: review cannot   *)
(* be starved by visibility, nor leak through the queue.                   *)
QueueServesReview ==
  \A u \in Users, d \in Docs :
    /\ (review[d] = "pending_sme" /\ MayDecide(u, d)) =>
         /\ d \in PyQueue(u) /\ d \in NetQueue(u)
         /\ PySees(u, d) /\ NetSees(u, d)
    /\ (d \in PyQueue(u) \cup NetQueue(u)) =>
         MayDecide(u, d) \/ (u \in Admins \cup smes[TopicOf[d]] /\ Owner[d] = u)
=============================================================================
