------------------------------- MODULE Console -------------------------------
(***************************************************************************)
(* The signed-in client: the session and the shell around the review queue *)
(* and the topics page.  A page has a state as long as it is mounted; what *)
(* it sent before it was left is still served, and tells nobody.           *)
(***************************************************************************)
EXTENDS ReviewsPage, TopicsPage

CONSTANT MaxOrphans   \* bound on the requests that outlive their page

consoleVars == <<agency, sessionVars, reviews, topics>>

Init ==
  /\ AgencyInit /\ SessionInit
  /\ reviews = ReviewsOff /\ topics = TopicsOff

(* Submissions of a login page that has been left. *)
Outlived == {i \in Logins : forms[i].stage # "idle" /\ ~forms[i].own}

(* A step of the session mounts the page it leads to, unless it is there.  *)
(* What the page it leaves has sent is still on its way, or is lost.       *)
PagesFollow ==
  LET mounted == Within(route', user', loading')
      same    == InApp /\ <<route', user'>> = <<route, user>>
  IN  IF same
      THEN UNCHANGED <<reviews, topics, orphans>>
      ELSE /\ reviews' = IF mounted /\ route' = "reviews" THEN ReviewsMount ELSE ReviewsOff
           /\ topics'  = IF mounted /\ route' = "topics" THEN TopicsMount(user') ELSE TopicsOff
           /\ orphans' \in {orphans, orphans \cup TopicsOrphans}
           /\ Cardinality(orphans') + Cardinality(Outlived') <= MaxOrphans
           /\ changes + Cardinality(orphans') <= MaxChanges

(* Served late, if ever, with the cookie it was sent with. *)
ServeOrphan(r) ==
  /\ \E u \in Users : Accepted(r, u)
  /\ Apply(r)
  /\ orphans' = orphans \ {r}
  /\ topics' = [topics EXCEPT !.behind = @ \/ (OnTopics /\ topics.stage # "sent")]
  /\ UNCHANGED <<sessionVars, reviews>>

Next ==
  \/ SessionNext /\ PagesFollow /\ UNCHANGED <<review, catalogue, smes, changes>>
  \/ ReviewsNext /\ UNCHANGED topics
  \/ TopicsNext /\ UNCHANGED reviews
  \/ \E r \in orphans : ServeOrphan(r)
  \/ \E d \in Docs : DecidedElsewhere(d) /\ UNCHANGED <<sessionVars, reviews, topics>>

Spec == Init /\ [][Next]_consoleVars

-----------------------------------------------------------------------------
TypeOK ==
  /\ review \in [Docs -> {"pending_sme", "decided", "deleted"}]
  /\ catalogue \subseteq Topics /\ smes \subseteq Topics \X Users
  /\ SessionTypeOK /\ ReviewsTypeOK /\ TopicsTypeOK

(* The answer of a decision, a creation or a designation meets the dialog  *)
(* it was asked in: it closes no other one, and finds there what was sent. *)
AnswersMeetTheirDialog == DecidedAsShown /\ DialogsWait
=============================================================================
