----------------------------- MODULE TopicsPage ------------------------------
(***************************************************************************)
(* Topics and SMEs (app/(app)/admin/topics/page.tsx): a list that is asked *)
(* for again after every change, a dialog for a new topic, one for a new   *)
(* SME, and one removal at a time.                                         *)
(***************************************************************************)
EXTENDS Session

VARIABLE topics   \* the page, as long as it is mounted

NoList   == <<[id |-> NoTopic, smes |-> {}]>>   \* null
NoChange == [op |-> "none", topic |-> NoTopic, sme |-> NoUser, stage |-> "none"]

(* "list" is the state topics; "create", "add" and "remove" are the        *)
(* requests behind creating, designating and removing.                     *)
TopicsOff ==
  [list |-> NoList, loading |-> TRUE, error |-> FALSE, stage |-> "none", items |-> <<>>,
   dialog |-> FALSE, smeTarget |-> NoTopic,
   create |-> NoChange, add |-> NoChange, remove |-> NoChange,
   behind |-> FALSE]    \* history: a change the page was not told of

(* Only an admin's page asks for the list. *)
TopicsMount(u) == [TopicsOff EXCEPT !.stage = IF u \in Admins THEN "sent" ELSE "none"]

OnTopics == InApp /\ route = "topics" /\ user \in Admins

(* What can be clicked: nothing under a dialog, and no card but those of   *)
(* the list.                                                               *)
Clickable == OnTopics /\ ~topics.dialog /\ topics.smeTarget = NoTopic

Card(t) ==
  IF topics.list = NoList \/ topics.error THEN {} ELSE {c \in Range(topics.list) : c.id = t}

Same == UNCHANGED <<agency, sessionVars>>

-----------------------------------------------------------------------------
(* The list.  Another reload cancels the request before it.                *)

(* Variant: the request that is on its way is not cancelled. *)
Reload_KeepsRequest(page) ==
  IF page.stage = "none" THEN [page EXCEPT !.stage = "sent", !.behind = FALSE] ELSE page

Reload(page) == [page EXCEPT !.stage = "sent", !.items = <<>>, !.behind = FALSE]

ServeTopics ==
  /\ OnTopics /\ topics.stage = "sent" /\ cookie # NoUser
  /\ topics' = [topics EXCEPT !.stage = "served", !.items = TopicList]
  /\ Same

TopicsReply ==
  /\ topics.stage = "served"
  /\ topics' = [topics EXCEPT !.stage = "none", !.items = <<>>, !.list = topics.items,
                              !.error = FALSE, !.loading = FALSE]
  /\ Same

TopicsFail ==
  /\ topics.stage = "sent"
  /\ topics' = [topics EXCEPT !.stage = "none", !.error = TRUE, !.loading = FALSE]
  /\ Same

Refresh ==
  /\ Clickable /\ ~topics.loading
  /\ topics' = Reload([topics EXCEPT !.error = FALSE])
  /\ Same

Retry ==
  /\ Clickable /\ topics.error
  /\ topics' = Reload([topics EXCEPT !.error = FALSE, !.loading = TRUE])
  /\ Same

-----------------------------------------------------------------------------
(* A change is sent, served, and answered; a failure is a refusal or a     *)
(* lost answer.                                                            *)

Change(op, t, u) == [op |-> op, topic |-> t, sme |-> u, stage |-> "sent"]

Serve(op) ==
  /\ topics[op].stage = "sent" /\ Accepted(topics[op], cookie)
  /\ Apply(topics[op])
  /\ topics' = [topics EXCEPT ![op].stage = "served"]
  /\ UNCHANGED <<orphans, sessionVars>>

Fails(op) ==
  /\ topics[op].stage # "none"
  /\ topics' = [topics EXCEPT ![op] = NoChange,
                              !.behind = @ \/ topics[op].stage = "served"]
  /\ Same

OpenTopicDialog ==
  /\ Clickable
  /\ topics' = [topics EXCEPT !.dialog = TRUE]
  /\ Same

CloseTopicDialog ==
  /\ topics.dialog /\ topics.create.stage = "none"
  /\ topics' = [topics EXCEPT !.dialog = FALSE]
  /\ Same

SubmitTopic(t) ==
  /\ topics.dialog /\ topics.create.stage = "none"
  /\ topics' = [topics EXCEPT !.create = Change("create", t, NoUser)]
  /\ Same

(* Variant: the list is taken to be there. *)
Prepended_NoNull(t) == <<[id |-> t, smes |-> {}]>> \o topics.list

(* The topic is shown first until the list arrives in the server's order.  *)
Prepended(t) ==
  LET new == [id |-> t, smes |-> {}]
  IN  IF topics.list = NoList THEN <<new>> ELSE <<new>> \o topics.list

TopicCreated ==
  /\ topics.create.stage = "served"
  /\ topics' = Reload([topics EXCEPT !.list = Prepended(topics.create.topic),
                                     !.dialog = FALSE, !.create = NoChange])
  /\ Same

OpenSmeDialog(t) ==
  /\ Clickable /\ Card(t) # {}
  /\ topics' = [topics EXCEPT !.smeTarget = t]
  /\ Same

CloseSmeDialog ==
  /\ topics.smeTarget # NoTopic /\ topics.add.stage = "none"
  /\ topics' = [topics EXCEPT !.smeTarget = NoTopic]
  /\ Same

(* What does not look like an id is not sent. *)
SubmitSme(u) ==
  /\ topics.smeTarget # NoTopic /\ topics.add.stage = "none"
  /\ topics' = [topics EXCEPT !.add = Change("add", topics.smeTarget, u)]
  /\ Same

SmeAdded ==
  /\ topics.add.stage = "served"
  /\ topics' = Reload([topics EXCEPT !.smeTarget = NoTopic, !.add = NoChange])
  /\ Same

RemoveSme(t, u) ==
  /\ Clickable /\ topics.remove.stage = "none"
  /\ \E c \in Card(t) : u \in c.smes
  /\ topics' = [topics EXCEPT !.remove = Change("remove", t, u)]
  /\ Same

SmeRemoved ==
  /\ topics.remove.stage = "served"
  /\ topics' = Reload([topics EXCEPT !.remove = NoChange])
  /\ Same

TopicsNext ==
  \/ ServeTopics \/ TopicsReply \/ TopicsFail \/ Refresh \/ Retry
  \/ \E op \in {"create", "add", "remove"} : Serve(op) \/ Fails(op)
  \/ OpenTopicDialog \/ CloseTopicDialog \/ TopicCreated
  \/ CloseSmeDialog \/ SmeAdded \/ SmeRemoved
  \/ \E t \in Topics : SubmitTopic(t) \/ OpenSmeDialog(t) \/ \E u \in Candidates : RemoveSme(t, u)
  \/ \E u \in Candidates : SubmitSme(u)

(* What is still on its way when the page is left. *)
TopicsOrphans ==
  {[topics[op] EXCEPT !.stage = "none"] :
     op \in {o \in {"create", "add", "remove"} : topics[o].stage = "sent"}}

-----------------------------------------------------------------------------
Shown == [id : Topics, smes : SUBSET Candidates]
Changes == [op : {"none", "create", "add", "remove"}, topic : Topics \cup {NoTopic},
            sme : Candidates \cup {NoUser}, stage : {"none", "sent", "served"}]

TopicsTypeOK ==
  /\ topics.list = NoList \/ Range(topics.list) \subseteq Shown
  /\ Range(topics.items) \subseteq Shown
  /\ {topics.loading, topics.error, topics.dialog, topics.behind} \subseteq BOOLEAN
  /\ topics.stage \in {"none", "sent", "served"}
  /\ {topics.create, topics.add, topics.remove} \subseteq Changes
  /\ topics.smeTarget \in Topics \cup {NoTopic}

Quiet == \A op \in {"create", "add", "remove"} : topics[op].stage = "none"

(* Once everything the page asked for has been answered it shows the       *)
(* topics and designations as they are, each once, in the server's order,  *)
(* whatever order its changes and its reloads were answered in: only a     *)
(* reload that failed, which says so, and a change it was not told of      *)
(* leave it behind.                                                        *)
OwnChangesShown ==
  OnTopics /\ Quiet /\ topics.stage = "none" /\ ~topics.error /\ ~topics.behind
    => topics.list = TopicList

(* The answer of a creation or a designation closes the dialog it was      *)
(* asked in.                                                               *)
DialogsWait ==
  /\ topics.create.stage # "none" => topics.dialog
  /\ topics.add.stage # "none" => topics.smeTarget = topics.add.topic
=============================================================================
