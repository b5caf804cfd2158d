------------------------------- MODULE Agency -------------------------------
(***************************************************************************)
(* What the console pages of the client are about, on the server: the      *)
(* review status of library documents, the topics, and the SMEs designated *)
(* for them (routers/reviews.py, routers/topics.py).  Requests that race   *)
(* on the server are the subject of Reviews; here each of them is served   *)
(* in one step, and what is modelled is when.                              *)
(***************************************************************************)
EXTENDS Ordering

CONSTANTS
  Users, Admins, NoUser,
  Docs,       \* library documents, newest first
  Topics,     \* topics there may be, by their names
  TopicOf, OwnerOf,
  Candidates, \* those who are designated
  MaxChanges  \* bound on the changes the server makes, counted by changes, and
              \* on those it may still owe to the orphans

ASSUME AgencyAssumption ==
  /\ Admins \cup Candidates \subseteq Users /\ NoUser \notin Users
  /\ Docs \subseteq Nat \ {0} /\ Topics \subseteq Nat \ {0}
  /\ IsFiniteSet(Docs) /\ IsFiniteSet(Topics)
  /\ MaxChanges \in Nat
  /\ TopicOf \in [Docs -> Topics] /\ OwnerOf \in [Docs -> Users]

Decisions == {"approved", "rejected"}
NoDoc     == 0
NoTopic   == 0

VARIABLES
  review,      \* the status of every document
  catalogue,   \* the topics
  smes,        \* designations: <<topic, user>>
  orphans,     \* requests of a topics page that has been left, still on their way
  changes

agency == <<review, catalogue, smes, orphans, changes>>

AgencyInit ==
  /\ review = [d \in Docs |-> "pending_sme"]
  /\ catalogue = Range(TopicOf)
  /\ smes = {}
  /\ orphans = {} /\ changes = 0

-----------------------------------------------------------------------------
IsSme(u, d) == <<TopicOf[d], u>> \in smes

PendingFor(u) ==
  {d \in Docs : review[d] = "pending_sme" /\ (u \in Admins \/ IsSme(u, d))}

(* Who is refused the queue: by FastAPI nobody who is signed in, by .NET   *)
(* those who are no reviewers.                                             *)
MayBeRefused(u) == u \notin Admins /\ \A t \in Topics : <<t, u>> \notin smes

MayDecide(u, d) ==
  review[d] = "pending_sme" /\ OwnerOf[d] # u /\ (u \in Admins \/ IsSme(u, d))

MayDelete(u, d) == u \in Admins \/ OwnerOf[d] = u

(* What a changing request needs to be accepted, and what it does then.    *)
Accepted(r, u) ==
  CASE r.op = "decide" -> MayDecide(u, r.doc)
    [] r.op = "delete" -> review[r.doc] # "deleted" /\ MayDelete(u, r.doc)
    [] r.op = "create" -> u \in Admins /\ r.topic \notin catalogue
    [] r.op = "add"    -> u \in Admins /\ r.topic \in catalogue /\ <<r.topic, r.sme>> \notin smes
    [] r.op = "remove" -> u \in Admins /\ <<r.topic, r.sme>> \in smes

Decided(d) == [review EXCEPT ![d] = "decided"]
Deleted(d) == [review EXCEPT ![d] = "deleted"]

Apply(r) ==
  /\ changes + Cardinality(orphans \ {r}) < MaxChanges
  /\ changes' = changes + 1
  /\ review' = CASE r.op = "decide" -> Decided(r.doc)
                 [] r.op = "delete" -> Deleted(r.doc)
                 [] OTHER           -> review
  /\ catalogue' = IF r.op = "create" THEN catalogue \cup {r.topic} ELSE catalogue
  /\ smes' = CASE r.op = "add"    -> smes \cup {<<r.topic, r.sme>>}
               [] r.op = "remove" -> smes \ {<<r.topic, r.sme>>}
               [] OTHER           -> smes

(* list_topics: by name. *)
TopicList ==
  LET order == Listed(catalogue)
  IN  [i \in DOMAIN order |-> [id |-> order[i], smes |-> {u \in Candidates : <<order[i], u>> \in smes}]]

(* By a reviewer at another browser, or by a request of the review queue   *)
(* whose page has been left; a document that is deleted leaves the queues  *)
(* in the same way.                                                        *)
DecidedElsewhere(d) ==
  /\ review[d] = "pending_sme"
  /\ Apply([op |-> "decide", doc |-> d])
  /\ UNCHANGED orphans
=============================================================================
