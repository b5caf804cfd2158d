---------------------------- MODULE ConsoleProofs ----------------------------
(***************************************************************************)
(* The session, the review queue page and the topics page, for any number  *)
(* of users, documents and topics.  The cookie, what the client believes   *)
(* of it, and what each page was answered are three copies that change at  *)
(* different moments; the invariant says for each moment which of them     *)
(* agree.                                                                  *)
(***************************************************************************)
EXTENDS Console, OrderingProofs

-----------------------------------------------------------------------------
(* The session.                                                            *)

(* No login awaits the answer that says whose it was. *)
NoneRefreshing == \A i \in Logins : forms[i].stage # "refreshing"

(* An answer of getMe that is on its way, and not known to be late, names  *)
(* the owner of the cookie.                                                *)
GetMeInv ==
  /\ loading <=> probe.stage = "sent"
  /\ probe.stage = "sent" /\ ~probe.late => probe.as = cookie
  /\ \A i \in Logins : forms[i].stage = "refreshing" /\ ~forms[i].late => forms[i].as = cookie

(* What is believed of the cookie is true, or false in one of three ways.  *)
Agree ==
  \/ user = cookie
  \/ slip = "forgot" /\ user = NoUser
  \/ slip = "expired" /\ cookie = NoUser
  \/ slip = "late"

AgreeInv == ~loading /\ NoneRefreshing => Agree

(* The number of the shell, and the answer on its way to it, are of the    *)
(* user who is shown.                                                      *)
CountInv ==
  /\ shell # NoShell => InApp
  /\ NoneRefreshing /\ slip # "late" /\ shell.stage = "none" => shell.pendingFor \in {user, NoUser}
  /\ NoneRefreshing /\ slip # "late" /\ shell.stage = "served" => shell.answer \in {user, NoUser}

SessionInv == SessionTypeOK /\ GetMeInv /\ AgreeInv /\ CountInv

-----------------------------------------------------------------------------
(* The review queue page.                                                  *)

ReviewsPages ==
  [queue : Seq(Docs), loading : BOOLEAN, forbidden : BOOLEAN, error : BOOLEAN,
   stage : {"none", "sent", "served"}, items : Seq(Docs),
   detail : Docs \cup {NoDoc}, deleting : Docs \cup {NoDoc},
   target : Docs \cup {NoDoc}, decision : Decisions, noted : BOOLEAN,
   submit : {"none", "sent", "recorded"},
   submitted : [op : {"decide"}, doc : Docs \cup {NoDoc}, decision : Decisions, noted : BOOLEAN],
   loaded : SUBSET Docs, decided : SUBSET Docs]

ReviewsType == reviews \in ReviewsPages

(* The document was decided, or its decision is being sent.                *)
Taken(d) == d \in reviews.decided \/ (submitting /\ d = reviews.submitted.doc)

(* A document that was loaded is in the queue once until it is taken, and  *)
(* not at all from then on; so an optimistic removal and its restoration   *)
(* neither lose nor double one.                                            *)
QueueInv ==
  /\ reviews.stage # "none" => reviews.loading
  /\ reviews.loading \/ reviews.error \/ reviews.forbidden => reviews.target = NoDoc
  /\ submitting => reviews.target # NoDoc
  /\ DecidedAsShown
  /\ reviews.target # NoDoc => reviews.target \in reviews.loaded \ reviews.decided
  /\ \A i \in DOMAIN reviews.queue : reviews.queue[i] \in reviews.loaded
  /\ \A d \in reviews.loaded : IF Taken(d) THEN Never(reviews.queue, d) ELSE Once(reviews.queue, d)
  /\ \A d \in Docs : Once(reviews.items, d) \/ Never(reviews.items, d)

ReviewsInv == ReviewsType /\ QueueInv

-----------------------------------------------------------------------------
(* The topics page.                                                        *)

(* A change of kind op that is on its way, or none.                        *)
Asked(op, c) ==
  \/ c = NoChange
  \/ c \in [op : {op}, topic : Topics, sme : IF op = "create" THEN {NoUser} ELSE Candidates, stage : {"sent", "served"}]

TopicsPages ==
  [list : Seq(Shown) \cup {NoList}, loading : BOOLEAN, error : BOOLEAN,
   stage : {"none", "sent", "served"}, items : Seq(Shown),
   dialog : BOOLEAN, smeTarget : Topics \cup {NoTopic},
   create : Changes, add : Changes, remove : Changes, behind : BOOLEAN]

TopicsType ==
  /\ topics \in TopicsPages
  /\ Asked("create", topics.create) /\ Asked("add", topics.add) /\ Asked("remove", topics.remove)

(* The server has made no change that the page has not heard of.           *)
NoneServed == \A op \in {"create", "add", "remove"} : topics[op].stage # "served"

(* But for lists that are known to be behind, what is shown, or is on its  *)
(* way, is the server's list once every change has been answered for.      *)
ListInv ==
  /\ DialogsWait
  /\ topics.add.stage # "none" => topics.smeTarget # NoTopic
  /\ OnTopics /\ NoneServed /\ topics.stage = "none" /\ ~topics.error /\ ~topics.behind
       => topics.list = TopicList
  /\ OnTopics /\ NoneServed /\ topics.stage = "served" /\ ~topics.behind
       => topics.items = TopicList

-----------------------------------------------------------------------------
(* The server.                                                             *)

AgencyInv ==
  /\ review \in [Docs -> {"pending_sme", "decided", "deleted"}]
  /\ catalogue \subseteq Topics /\ smes \subseteq Topics \X Users
  /\ \A r \in orphans : \E op \in {"create", "add", "remove"} :
        r \in [op : {op}, topic : Topics, sme : IF op = "create" THEN {NoUser} ELSE Candidates, stage : {"none"}]

IInv == AgencyInv /\ SessionInv /\ ReviewsInv /\ TopicsType /\ ListInv

-----------------------------------------------------------------------------
(* The session. *)

LEMMA RedirectedIs ==
  ASSUME NEW r, NEW u, NEW checking \in BOOLEAN
  PROVE  /\ Redirected(r, u, FALSE) = IF u = NoUser THEN "login" ELSE IF r = "login" THEN "chat" ELSE r
         /\ Redirected(r, u, TRUE) = r
BY DEF Redirected

LEMMA CommitIs ==
  ASSUME SessionInv, NEW r \in Routes, NEW u \in Users \cup {NoUser}, NEW checking \in BOOLEAN,
         Commit(u, checking, r)
  PROVE  /\ user' = u /\ loading' = checking
         /\ checking = FALSE => route' = IF u = NoUser THEN "login" ELSE IF r = "login" THEN "chat" ELSE r
         /\ route' \in Routes
         /\ shell' \in [pendingFor : Users \cup {NoUser}, stage : {"none", "sent", "served"},
                        answer : Users \cup {NoUser}]
         /\ ~InApp' => shell' = NoShell
         /\ InApp' => shell'.stage = "sent" /\ shell'.answer = NoUser
<1> DEFINE to == Redirected(r, u, checking)
<1>1. user' = u /\ loading' = checking /\ route' = to /\ shell' = Probing(to, u, checking)
  BY DEF Commit
<1>2. /\ checking = TRUE => to = r
      /\ checking = FALSE => to = IF u = NoUser THEN "login" ELSE IF r = "login" THEN "chat" ELSE r
  BY RedirectedIs
<1>3. to \in Routes
  BY <1>2 DEF Routes
<1>4. InApp' <=> Within(to, u, checking)
  BY <1>1 DEF InApp, Within
<1>5. shell \in [pendingFor : Users \cup {NoUser}, stage : {"none", "sent", "served"},
                answer : Users \cup {NoUser}]
  BY DEF SessionInv, SessionTypeOK
<1>6. CASE Within(to, u, checking)
  <2>1. shell' = [shell EXCEPT !.stage = "sent", !.answer = NoUser]
    BY <1>1, <1>6 DEF Probing
  <2>2. shell'.stage = "sent" /\ shell'.answer = NoUser
    BY <1>5, <2>1
  <2> HIDE DEF to
  <2> QED BY <1>1, <1>2, <1>3, <1>4, <1>5, <1>6, <2>1, <2>2
<1>7. CASE ~Within(to, u, checking)
  <2>1. shell' = NoShell
    BY <1>1, <1>7 DEF Probing
  <2> HIDE DEF to
  <2> QED BY <1>1, <1>2, <1>3, <1>4, <1>7, <2>1 DEF NoShell
<1> QED BY <1>6, <1>7

(* A submission that is over leaves the others, in their order. *)
LEMMA OverIs ==
  ASSUME NEW Sub, Idle \in Sub, NEW subs \in [Logins -> Sub], NEW i \in Logins
  PROVE  /\ Over(subs, i) \in [Logins -> Sub]
         /\ \A j \in Logins : Over(subs, i)[j] = Idle \/ \E k \in Logins : Over(subs, i)[j] = subs[k]
         /\ \A k \in Logins \ {i} : \E j \in Logins : Over(subs, i)[j] = subs[k]
<1>1. \A j \in Logins : j < MaxLogins => (j + 1) \in Logins
  BY SessionAssumption DEF Logins
<1>2. \A j \in Logins :
        Over(subs, i)[j] = IF j < i THEN subs[j] ELSE IF j < MaxLogins THEN subs[j + 1] ELSE Idle
  BY DEF Over
<1>3. Over(subs, i) \in [Logins -> Sub]
  BY <1>1 DEF Over
<1>4. \A j \in Logins : Over(subs, i)[j] = Idle \/ \E k \in Logins : Over(subs, i)[j] = subs[k]
  BY <1>1, <1>2
<1>5. ASSUME NEW k \in Logins, k # i PROVE \E j \in Logins : Over(subs, i)[j] = subs[k]
  <2>1. CASE k < i
    BY <1>2, <2>1
  <2>2. CASE k > i
    <3>1. (k - 1) \in Logins /\ k - 1 < MaxLogins /\ ~(k - 1 < i) /\ (k - 1) + 1 = k
      BY <2>2, SessionAssumption DEF Logins
    <3> QED BY <1>2, <3>1
  <2> QED BY <1>5, <2>1, <2>2, SessionAssumption DEF Logins
<1> QED BY <1>3, <1>4, <1>5

Submissions ==
  [stage : {"idle", "sent", "refreshing"}, as : Users \cup {NoUser}, own : BOOLEAN, late : BOOLEAN]

(* Leaving the login page changes nobody's submission but its owner. *)
LEMMA DisownedIs ==
  ASSUME forms \in [Logins -> Submissions]
  PROVE  /\ Disowned \in [Logins -> Submissions]
         /\ \A i \in Logins : /\ Disowned[i].stage = forms[i].stage /\ Disowned[i].as = forms[i].as
                              /\ Disowned[i].late = forms[i].late
BY DEF Disowned, Submissions

(* A new cookie: what is not late is about it. *)
LEMMA OvertakenIs ==
  ASSUME forms \in [Logins -> Submissions], NEW c
  PROVE  /\ Overtaken(c) \in [Logins -> Submissions]
         /\ \A i \in Logins :
              /\ Overtaken(c)[i].stage = forms[i].stage /\ Overtaken(c)[i].as = forms[i].as
              /\ forms[i].stage = "refreshing" /\ ~Overtaken(c)[i].late => ~forms[i].late /\ c = cookie
BY DEF Overtaken, Submissions

LEMMA HandedIs ==
  ASSUME SessionInv, NEW c \in Users \cup {NoUser}, Handed(c)
  PROVE  /\ cookie' = c
         /\ probe' \in [stage : {"idle", "sent"}, as : Users \cup {NoUser}, late : BOOLEAN]
         /\ probe'.stage = probe.stage
         /\ probe'.stage = "sent" /\ ~probe'.late => probe'.as = c
BY DEF Handed, SessionInv, SessionTypeOK, GetMeInv

LEMMA SessionInitially == SessionInit => SessionInv
<1> SUFFICES ASSUME SessionInit PROVE SessionInv
  OBVIOUS
<1>1. SessionTypeOK
  BY DEF SessionInit, SessionTypeOK, NoProbe, Idle, NoShell, Routes
<1>2. GetMeInv /\ AgreeInv
  BY DEF SessionInit, GetMeInv, AgreeInv, NoProbe, Idle
<1>3. CountInv
  BY DEF SessionInit, CountInv, NoShell
<1> QED
  BY <1>1, <1>2, <1>3 DEF SessionInv

(* An answer of refresh, i's, ends its submission. *)
LEMMA Refreshed ==
  ASSUME SessionInv, NEW i \in Logins, forms' = Over(Disowned, i)
  PROVE  /\ forms' \in [Logins -> Submissions]
         /\ \A j \in Logins : forms'[j].stage = "refreshing" /\ ~forms'[j].late => forms'[j].as = cookie
<1>1. forms \in [Logins -> Submissions]
  BY DEF SessionInv, SessionTypeOK, Submissions
<1>2. Idle \in Submissions /\ Idle.stage = "idle"
  BY DEF Idle, Submissions
<1>3. Disowned \in [Logins -> Submissions]
  BY <1>1, DisownedIs
<1>4. /\ forms' \in [Logins -> Submissions]
      /\ \A j \in Logins : forms'[j] = Idle \/ \E k \in Logins : forms'[j] = Disowned[k]
  BY <1>2, <1>3, OverIs
<1>5. \A k \in Logins : Disowned[k].stage = "refreshing" /\ ~Disowned[k].late => Disowned[k].as = cookie
  BY <1>1, DisownedIs DEF SessionInv, GetMeInv
<1> QED BY <1>2, <1>4, <1>5

LEMMA SessionStep ==
  ASSUME AgencyAssumption, SessionInv, SessionNext
  PROVE  SessionInv'
<1> DEFINE Shells == [pendingFor : Users \cup {NoUser}, stage : {"none", "sent", "served"}, answer : Users \cup {NoUser}]
<1>0. /\ SessionTypeOK /\ GetMeInv /\ AgreeInv /\ CountInv
      /\ forms \in [Logins -> Submissions]
  BY DEF SessionInv, SessionTypeOK, Submissions
<1>a. NoUser \notin Users
  BY DEF AgencyAssumption
<1>b. NoShell \in Shells /\ NoShell.stage = "none" /\ NoShell.pendingFor = NoUser
  BY DEF NoShell
<1>c. /\ NoProbe \in [stage : {"idle", "sent"}, as : Users \cup {NoUser}, late : BOOLEAN]
      /\ NoProbe.stage = "idle"
  BY DEF NoProbe
<1>1. CASE ProbeReply
  <2>1. /\ probe.stage = "sent" /\ probe.as \in Users /\ probe.as # NoUser /\ route \in Routes
        /\ Commit(probe.as, FALSE, route) /\ probe' = NoProbe
        /\ slip' = (IF probe.late THEN "late" ELSE slip) /\ cookie' = cookie /\ forms' = Disowned
        /\ probe.late \in BOOLEAN
    BY <1>0, <1>1 DEF ProbeReply, SessionTypeOK
  <2>2. /\ user' = probe.as /\ loading' = FALSE /\ route' \in Routes /\ shell' \in Shells
        /\ InApp' /\ shell'.stage = "sent"
    <3>1. user' = probe.as /\ loading' = FALSE /\ route' = IF route = "login" THEN "chat" ELSE route
      BY <2>1, CommitIs
    <3>2. InApp'
      BY <3>1, <2>1 DEF InApp, Within
    <3> QED BY <3>1, <3>2, <2>1, CommitIs
  <2>3. /\ forms' \in [Logins -> Submissions]
        /\ \A i \in Logins : forms'[i].stage = forms[i].stage /\ forms'[i].as = forms[i].as /\ forms'[i].late = forms[i].late
    BY <1>0, <2>1, DisownedIs
  <2>4. SessionTypeOK'
    BY <1>0, <1>c, <2>1, <2>2, <2>3 DEF SessionTypeOK, Submissions
  <2>5. GetMeInv'
    BY <1>0, <1>c, <2>1, <2>2, <2>3 DEF GetMeInv
  <2>6. AgreeInv'
    BY <1>0, <2>1, <2>2 DEF AgreeInv, Agree, GetMeInv
  <2>7. CountInv'
    BY <2>2 DEF CountInv
  <2> QED BY <2>4, <2>5, <2>6, <2>7 DEF SessionInv
<1>2. CASE ProbeFails
  <2>1. /\ probe.stage = "sent" /\ route \in Routes
        /\ Commit(NoUser, FALSE, route) /\ probe' = NoProbe
        /\ slip' = (IF probe.as # NoUser \/ probe.late THEN "forgot" ELSE slip) /\ UNCHANGED <<cookie, forms>>
        /\ probe.late \in BOOLEAN
    BY <1>0, <1>2 DEF ProbeFails, SessionTypeOK
  <2>2. user' = NoUser /\ loading' = FALSE /\ route' = "login" /\ shell' = NoShell
    <3>1. user' = NoUser /\ loading' = FALSE /\ route' = "login"
      BY <2>1, CommitIs
    <3>2. ~InApp'
      BY <3>1 DEF InApp, Within
    <3> QED BY <3>1, <3>2, <2>1, CommitIs
  <2>3. SessionTypeOK'
    BY <1>0, <1>b, <1>c, <2>1, <2>2 DEF SessionTypeOK, Routes
  <2>4. GetMeInv'
    BY <1>0, <1>c, <2>1, <2>2 DEF GetMeInv
  <2>5. AgreeInv'
    BY <1>0, <2>1, <2>2 DEF AgreeInv, Agree, GetMeInv
  <2>6. CountInv'
    BY <1>b, <2>2 DEF CountInv
  <2> QED BY <2>3, <2>4, <2>5, <2>6 DEF SessionInv
<1>3. ASSUME NEW u \in Users, NEW i \in Logins, Submit(u, i) PROVE SessionInv'
  <2>1. InApp' <=> InApp
    BY <1>3 DEF Submit, InApp, Within
  <2> DEFINE sent == [stage |-> "sent", as |-> u, own |-> TRUE, late |-> FALSE]
  <2>2. /\ forms[i].stage = "idle" /\ forms' = [forms EXCEPT ![i] = sent]
        /\ UNCHANGED <<cookie, user, loading, probe, route, shell, slip>>
    BY <1>3 DEF Submit
  <2>3. sent \in Submissions /\ sent.stage = "sent"
    BY DEF Submissions
  <2> HIDE DEF sent
  <2>4. forms' \in [Logins -> Submissions] /\ \A j \in Logins : forms'[j] = IF j = i THEN sent ELSE forms[j]
    BY <1>0, <2>2, <2>3
  <2>5. NoneRefreshing' <=> NoneRefreshing
    BY <2>2, <2>3, <2>4 DEF NoneRefreshing
  <2>6. SessionTypeOK'
    BY <1>0, <2>2, <2>4 DEF SessionTypeOK, Submissions
  <2>7. GetMeInv'
    BY <1>0, <2>2, <2>3, <2>4 DEF GetMeInv
  <2>8. AgreeInv' /\ CountInv'
    BY <1>0, <2>1, <2>2, <2>5 DEF AgreeInv, Agree, CountInv
  <2> QED BY <2>6, <2>7, <2>8 DEF SessionInv
<1>4. ASSUME NEW i \in Logins, LoginReply(i) PROVE SessionInv'
  <2>1. InApp' <=> InApp
    BY <1>4 DEF LoginReply, InApp, Within
  <2>2. /\ forms[i].stage = "sent" /\ Handed(forms[i].as)
        /\ forms' = [Overtaken(forms[i].as) EXCEPT ![i] = [forms[i] EXCEPT !.stage = "refreshing"]]
        /\ UNCHANGED <<user, loading, route, shell, slip>>
        /\ forms[i].as \in Users \cup {NoUser}
    BY <1>0, <1>4 DEF LoginReply, Submissions
  <2>3. /\ cookie' = forms[i].as /\ probe'.stage = probe.stage
        /\ probe' \in [stage : {"idle", "sent"}, as : Users \cup {NoUser}, late : BOOLEAN]
        /\ probe'.stage = "sent" /\ ~probe'.late => probe'.as = cookie'
    BY <2>2, HandedIs
  <2>4. /\ forms' \in [Logins -> Submissions]
        /\ forms'[i].stage = "refreshing" /\ forms'[i].as = forms[i].as
        /\ \A j \in Logins : j # i => forms'[j] = Overtaken(forms[i].as)[j]
    <3>1. [forms[i] EXCEPT !.stage = "refreshing"] \in Submissions
      BY <1>0 DEF Submissions
    <3>2. Overtaken(forms[i].as) \in [Logins -> Submissions]
      BY <1>0, OvertakenIs
    <3> QED BY <1>0, <2>2, <3>1, <3>2 DEF Submissions
  <2>5. SessionTypeOK'
    BY <1>0, <2>2, <2>3, <2>4 DEF SessionTypeOK, Submissions
  <2>6. GetMeInv'
    <3>1. \A j \in Logins : forms'[j].stage = "refreshing" /\ ~forms'[j].late => forms'[j].as = cookie'
      BY <1>0, <2>3, <2>4, OvertakenIs DEF GetMeInv
    <3> QED BY <1>0, <2>2, <2>3, <3>1 DEF GetMeInv
  <2>7. ~NoneRefreshing'
    BY <2>4 DEF NoneRefreshing
  <2>8. AgreeInv' /\ CountInv'
    BY <1>0, <2>1, <2>2, <2>7 DEF AgreeInv, CountInv
  <2> QED BY <2>5, <2>6, <2>8 DEF SessionInv
<1>5. ASSUME NEW i \in Logins, LoginFails(i) PROVE SessionInv'
  <2>1. InApp' <=> InApp
    BY <1>5 DEF LoginFails, InApp, Within
  <2>2. /\ forms[i].stage = "sent" /\ forms' = Over(forms, i)
        /\ UNCHANGED <<cookie, user, loading, probe, route, shell, slip>>
    BY <1>5 DEF LoginFails
  <2>3. Idle \in Submissions /\ Idle.stage = "idle"
    BY DEF Idle, Submissions
  <2>4. /\ forms' \in [Logins -> Submissions]
        /\ \A j \in Logins : forms'[j] = Idle \/ \E k \in Logins : forms'[j] = forms[k]
        /\ \A k \in Logins \ {i} : \E j \in Logins : forms'[j] = forms[k]
    BY <1>0, <2>2, <2>3, OverIs
  <2>5. NoneRefreshing' => NoneRefreshing
    BY <2>2, <2>4 DEF NoneRefreshing
  <2>6. SessionTypeOK'
    BY <1>0, <2>2, <2>4 DEF SessionTypeOK, Submissions
  <2>7. GetMeInv'
    BY <1>0, <2>2, <2>3, <2>4 DEF GetMeInv
  <2>8. AgreeInv' /\ CountInv'
    BY <1>0, <2>1, <2>2, <2>5 DEF AgreeInv, Agree, CountInv
  <2> QED BY <2>6, <2>7, <2>8 DEF SessionInv
<1>6. ASSUME NEW i \in Logins, RefreshReply(i) PROVE SessionInv'
  <2>1. /\ forms[i].stage = "refreshing" /\ forms[i].as \in Users \cup {NoUser} /\ loading \in BOOLEAN
        /\ "chat" \in Routes /\ forms[i].late \in BOOLEAN
        /\ Commit(forms[i].as, loading, "chat") /\ forms' = Over(Disowned, i)
        /\ slip' = (IF forms[i].late THEN "late" ELSE "none") /\ UNCHANGED <<cookie, probe>>
    BY <1>0, <1>6 DEF RefreshReply, SessionTypeOK, Routes
  <2>2. /\ user' = forms[i].as /\ loading' = loading /\ route' \in Routes /\ shell' \in Shells
        /\ ~InApp' => shell' = NoShell
        /\ InApp' => shell'.stage = "sent"
    <3>1. CASE loading = TRUE
      <4>1. Commit(forms[i].as, TRUE, "chat")
        BY <2>1, <3>1, Zenon
      <4> QED BY <2>1, <3>1, <4>1, CommitIs
    <3>2. CASE loading = FALSE
      <4>1. Commit(forms[i].as, FALSE, "chat")
        BY <2>1, <3>2, Zenon
      <4> QED BY <2>1, <3>2, <4>1, CommitIs
    <3> QED BY <3>1, <3>2, <2>1
  <2>3. /\ forms' \in [Logins -> Submissions]
        /\ \A j \in Logins : forms'[j].stage = "refreshing" /\ ~forms'[j].late => forms'[j].as = cookie'
    BY <2>1, Refreshed
  <2>4. SessionTypeOK'
    BY <1>0, <2>1, <2>2, <2>3 DEF SessionTypeOK, Submissions
  <2>5. GetMeInv'
    BY <1>0, <2>1, <2>2, <2>3 DEF GetMeInv
  <2>6. AgreeInv'
    BY <1>0, <2>1, <2>2 DEF AgreeInv, Agree, GetMeInv
  <2>7. CountInv'
    BY <1>b, <2>2 DEF CountInv
  <2> QED BY <2>4, <2>5, <2>6, <2>7 DEF SessionInv
<1>7. ASSUME NEW i \in Logins, RefreshFails(i) PROVE SessionInv'
  <2>1. /\ loading \in BOOLEAN /\ "chat" \in Routes
        /\ Commit(NoUser, loading, "chat") /\ forms' = Over(Disowned, i)
        /\ slip' = "forgot" /\ UNCHANGED <<cookie, probe>>
    BY <1>0, <1>7 DEF RefreshFails, SessionTypeOK, Routes
  <2>2. /\ user' = NoUser /\ loading' = loading /\ route' \in Routes /\ shell' = NoShell /\ ~InApp'
    <3>1. /\ user' = NoUser /\ loading' = loading /\ route' \in Routes
          /\ ~InApp' => shell' = NoShell
      <4>1. CASE loading = TRUE
        <5>1. Commit(NoUser, TRUE, "chat")
          BY <2>1, <4>1, Zenon
        <5> QED BY <2>1, <4>1, <5>1, CommitIs
      <4>2. CASE loading = FALSE
        <5>1. Commit(NoUser, FALSE, "chat")
          BY <2>1, <4>2, Zenon
        <5> QED BY <2>1, <4>2, <5>1, CommitIs
      <4> QED BY <4>1, <4>2, <2>1
    <3>2. ~InApp'
      BY <3>1 DEF InApp, Within
    <3> QED BY <3>1, <3>2
  <2>3. /\ forms' \in [Logins -> Submissions]
        /\ \A j \in Logins : forms'[j].stage = "refreshing" /\ ~forms'[j].late => forms'[j].as = cookie'
    BY <2>1, Refreshed
  <2>4. SessionTypeOK'
    BY <1>0, <1>b, <2>1, <2>2, <2>3 DEF SessionTypeOK, Submissions
  <2>5. GetMeInv'
    BY <1>0, <2>1, <2>2, <2>3 DEF GetMeInv
  <2>6. AgreeInv' /\ CountInv'
    BY <1>b, <2>1, <2>2 DEF AgreeInv, Agree, CountInv
  <2> QED BY <2>4, <2>5, <2>6 DEF SessionInv
<1>8. ASSUME NEW r \in Routes, Navigate(r) PROVE SessionInv'
  <2>1. /\ InApp /\ r # "login" /\ loading = FALSE /\ user # NoUser /\ user \in Users \cup {NoUser}
        /\ Commit(user, FALSE, r)
        /\ UNCHANGED <<cookie, probe, forms, slip>>
    BY <1>0, <1>8 DEF Navigate, InApp, Within, nav, SessionTypeOK
  <2>2. /\ user' = user /\ loading' = FALSE /\ route' \in Routes /\ shell' \in Shells
        /\ InApp' /\ shell'.stage = "sent"
    <3>1. /\ user' = user /\ loading' = FALSE /\ route' = r
      BY <2>1, CommitIs
    <3>2. InApp'
      BY <3>1, <2>1 DEF InApp, Within
    <3> QED BY <3>1, <3>2, <2>1, CommitIs
  <2>3. SessionTypeOK'
    BY <1>0, <2>1, <2>2 DEF SessionTypeOK
  <2>4. GetMeInv'
    BY <1>0, <2>1, <2>2 DEF GetMeInv
  <2>5. AgreeInv'
    BY <1>0, <2>1, <2>2 DEF AgreeInv, Agree, NoneRefreshing
  <2>6. CountInv'
    BY <2>2 DEF CountInv
  <2> QED BY <2>3, <2>4, <2>5, <2>6 DEF SessionInv
<1>9. ASSUME InApp, Commit(NoUser, loading, "login") PROVE
        user' = NoUser /\ loading' = FALSE /\ loading = FALSE /\ route' = "login" /\ shell' = NoShell
  <2>1. loading = FALSE /\ "login" \in Routes
    BY <1>0, <1>9 DEF InApp, Within, Routes, SessionTypeOK
  <2>2. user' = NoUser /\ loading' = FALSE /\ route' = "login"
    BY <2>1, <1>9, CommitIs
  <2>3. ~InApp'
    BY <2>2 DEF InApp, Within
  <2> QED BY <2>1, <2>2, <2>3, <1>9, CommitIs
<1>10. CASE SignOut
  <2>1. /\ user' = NoUser /\ loading' = FALSE /\ loading = FALSE /\ route' = "login" /\ shell' = NoShell
        /\ Handed(NoUser) /\ forms' = Overtaken(NoUser) /\ slip' = "none"
    BY <1>9, <1>10 DEF SignOut
  <2>2. /\ cookie' = NoUser /\ probe'.stage = probe.stage
        /\ probe' \in [stage : {"idle", "sent"}, as : Users \cup {NoUser}, late : BOOLEAN]
        /\ probe'.stage = "sent" /\ ~probe'.late => probe'.as = cookie'
    BY <2>1, HandedIs
  <2>3. SessionTypeOK'
    BY <1>0, <1>b, <2>1, <2>2, OvertakenIs DEF SessionTypeOK, Submissions, Routes
  <2>4. GetMeInv'
    <3>1. \A j \in Logins : forms'[j].stage = "refreshing" /\ ~forms'[j].late => forms'[j].as = cookie'
      BY <1>0, <2>1, <2>2, OvertakenIs DEF GetMeInv
    <3> QED BY <1>0, <2>1, <2>2, <3>1 DEF GetMeInv
  <2>5. AgreeInv' /\ CountInv'
    BY <1>b, <2>1, <2>2 DEF AgreeInv, Agree, CountInv
  <2> QED BY <2>3, <2>4, <2>5 DEF SessionInv
<1>11. CASE SignOutFails
  <2>1. /\ user' = NoUser /\ loading' = FALSE /\ loading = FALSE /\ route' = "login" /\ shell' = NoShell
        /\ UNCHANGED <<cookie, probe, forms>> /\ slip' = "forgot"
    BY <1>9, <1>11 DEF SignOutFails
  <2>2. SessionTypeOK'
    BY <1>0, <1>b, <2>1 DEF SessionTypeOK, Routes
  <2>3. GetMeInv' /\ AgreeInv' /\ CountInv'
    BY <1>0, <1>b, <2>1 DEF GetMeInv, AgreeInv, Agree, CountInv
  <2> QED BY <2>2, <2>3 DEF SessionInv
<1>12. CASE ServeCount
  <2>1. InApp /\ InApp'
    BY <1>0, <1>12 DEF ServeCount, CountInv, InApp, Within, NoShell
  <2>2. /\ shell.stage = "sent" /\ cookie # NoUser
        /\ shell' \in Shells
        /\ shell'.stage = "served" /\ shell'.answer \in {cookie, NoUser}
        /\ UNCHANGED <<cookie, user, loading, probe, forms, route, slip>>
    BY <1>0, <1>12 DEF ServeCount, SessionTypeOK
  <2>3. user # NoUser /\ loading = FALSE
    BY <1>0, <2>1 DEF InApp, Within, SessionTypeOK
  <2>4. SessionTypeOK' /\ GetMeInv' /\ AgreeInv'
    BY <1>0, <2>2 DEF SessionTypeOK, GetMeInv, AgreeInv, Agree, NoneRefreshing
  <2>5. NoneRefreshing' /\ slip' # "late" => user = cookie
    BY <1>0, <2>2, <2>3 DEF AgreeInv, Agree, NoneRefreshing
  <2>6. CountInv'
    BY <2>1, <2>2, <2>5 DEF CountInv
  <2> QED BY <2>4, <2>6 DEF SessionInv
<1>13. CASE CountReply
  <2>1. InApp /\ InApp'
    BY <1>0, <1>13 DEF CountReply, CountInv, InApp, Within, NoShell
  <2>2. /\ shell.stage = "served" /\ shell' \in Shells
        /\ shell'.stage = "none" /\ shell'.pendingFor = shell.answer
        /\ UNCHANGED <<cookie, user, loading, probe, forms, route, slip>>
    BY <1>0, <1>13 DEF CountReply, SessionTypeOK, NoShell
  <2>3. SessionTypeOK' /\ GetMeInv' /\ AgreeInv'
    BY <1>0, <2>2 DEF SessionTypeOK, GetMeInv, AgreeInv, Agree, NoneRefreshing
  <2>4. CountInv'
    BY <1>0, <2>1, <2>2 DEF CountInv, NoneRefreshing
  <2> QED BY <2>3, <2>4 DEF SessionInv
<1>14. CASE CountFails
  <2>1. shell' = NoShell /\ UNCHANGED <<cookie, user, loading, probe, forms, route, slip>>
    BY <1>14 DEF CountFails
  <2>2. SessionTypeOK' /\ GetMeInv' /\ AgreeInv'
    BY <1>0, <1>b, <2>1 DEF SessionTypeOK, GetMeInv, AgreeInv, Agree, NoneRefreshing
  <2>3. CountInv'
    BY <1>b, <2>1 DEF CountInv
  <2> QED BY <2>2, <2>3 DEF SessionInv
<1>15. CASE Expire
  <2>1. InApp' <=> InApp
    BY <1>15 DEF Expire, InApp, Within
  <2>2. /\ Handed(NoUser) /\ forms' = Overtaken(NoUser)
        /\ slip' = (IF slip = "late" THEN slip ELSE "expired")
        /\ UNCHANGED <<user, loading, route, shell>>
    BY <1>15 DEF Expire
  <2>3. /\ cookie' = NoUser /\ probe'.stage = probe.stage
        /\ probe' \in [stage : {"idle", "sent"}, as : Users \cup {NoUser}, late : BOOLEAN]
        /\ probe'.stage = "sent" /\ ~probe'.late => probe'.as = cookie'
    BY <2>2, HandedIs
  <2>4. SessionTypeOK'
    BY <1>0, <2>2, <2>3, OvertakenIs DEF SessionTypeOK, Submissions
  <2>5. GetMeInv'
    <3>1. \A j \in Logins : forms'[j].stage = "refreshing" /\ ~forms'[j].late => forms'[j].as = cookie'
      BY <1>0, <2>2, <2>3, OvertakenIs DEF GetMeInv
    <3> QED BY <1>0, <2>2, <2>3, <3>1 DEF GetMeInv
  <2>6. NoneRefreshing' <=> NoneRefreshing
    BY <1>0, <2>2, OvertakenIs DEF NoneRefreshing
  <2>7. AgreeInv' /\ CountInv'
    BY <1>0, <2>1, <2>2, <2>3, <2>6 DEF AgreeInv, Agree, CountInv
  <2> QED BY <2>4, <2>5, <2>7 DEF SessionInv
<1> QED
  BY <1>1, <1>2, <1>3, <1>4, <1>5, <1>6, <1>7, <1>8, <1>10, <1>11, <1>12, <1>13, <1>14, <1>15 DEF SessionNext

-----------------------------------------------------------------------------
(* The review queue. *)

(* A failed decision puts its document back, once. *)
LEMMA RestoredIs ==
  ASSUME NEW S, S \subseteq Nat, NEW s \in Seq(S), NEW d \in S, Never(s, d)
  PROVE  /\ Restored(s, d) \in Seq(S) /\ Once(Restored(s, d), d)
         /\ \A y : y # d /\ Once(s, y) => Once(Restored(s, d), y)
         /\ \A y : y # d /\ Never(s, y) => Never(Restored(s, d), y)
<1> DEFINE l == <<d>> \o s
<1>1. l \in Seq(S) /\ Restored(s, d) = Sorted(l)
  BY DEF Restored
<1>2. /\ Len(s) \in Nat /\ DOMAIN s = 1..Len(s) /\ DOMAIN l = 1..(Len(s) + 1) /\ l[1] = d
      /\ \A i \in 2..(Len(s) + 1) : l[i] = s[i - 1] /\ (i - 1) \in DOMAIN s
      /\ \A i \in DOMAIN s : l[i + 1] = s[i] /\ (i + 1) \in DOMAIN l
  OBVIOUS
<1> HIDE DEF l
<1>3. \A i \in DOMAIN l : i = 1 \/ i \in 2..(Len(s) + 1)
  BY <1>2
<1>4. Once(l, d)
  <2>1. \A j \in DOMAIN l : l[j] = d => j = 1
    BY <1>2, <1>3 DEF Never
  <2> QED BY <1>2, <2>1 DEF Once
<1>5. ASSUME NEW y, y # d, Once(s, y) PROVE Once(l, y)
  <2>1. PICK i \in DOMAIN s : s[i] = y /\ \A j \in DOMAIN s : s[j] = y => j = i
    BY <1>5 DEF Once
  <2>2. l[i + 1] = y /\ (i + 1) \in DOMAIN l
    BY <1>2, <2>1
  <2>3. ASSUME NEW j \in DOMAIN l, l[j] = y PROVE j = i + 1
    <3>1. j \in 2..(Len(s) + 1)
      BY <1>2, <1>3, <1>5, <2>3
    <3>2. (j - 1) \in DOMAIN s /\ s[j - 1] = y
      BY <3>1, <1>2, <2>3
    <3>3. j - 1 = i
      BY <3>2, <2>1
    <3> QED BY <3>1, <3>3, <1>2
  <2> QED BY <2>2, <2>3 DEF Once
<1>6. ASSUME NEW y, y # d, Never(s, y) PROVE Never(l, y)
  BY <1>2, <1>3, <1>6 DEF Never
<1> QED
  BY <1>1, <1>4, <1>5, <1>6, SortedKeeps

LEMMA ReviewsOffIs ==
  /\ ReviewsOff \in ReviewsPages
  /\ ReviewsOff.queue = <<>> /\ ReviewsOff.items = <<>> /\ ReviewsOff.loaded = {}
  /\ ReviewsOff.target = NoDoc /\ ReviewsOff.submit = "none" /\ ReviewsOff.stage = "none"
<1>1. <<>> \in Seq(Docs)
  OBVIOUS
<1> QED BY <1>1 DEF ReviewsOff, ReviewsPages, Decisions, NoRequest

LEMMA ReviewsAtFirst == reviews \in {ReviewsOff, ReviewsMount} => ReviewsInv
<1> SUFFICES ASSUME reviews \in {ReviewsOff, ReviewsMount} PROVE ReviewsInv
  OBVIOUS
<1>1. ReviewsMount = [ReviewsOff EXCEPT !.loading = TRUE, !.stage = "sent"]
  BY DEF ReviewsMount
<1>2. ReviewsType
  <2>1. ReviewsOff \in ReviewsPages
    BY ReviewsOffIs
  <2>2. ReviewsMount \in ReviewsPages
    BY <1>1, <2>1 DEF ReviewsPages
  <2> QED BY <2>1, <2>2 DEF ReviewsType
<1>3. /\ reviews.queue = <<>> /\ reviews.items = <<>> /\ reviews.loaded = {}
      /\ reviews.target = NoDoc /\ reviews.submit = "none"
      /\ reviews.stage # "none" => reviews.loading
  <2>1. CASE reviews = ReviewsOff
    BY <2>1, ReviewsOffIs
  <2>2. CASE reviews = ReviewsMount
    BY <1>1, <2>2, ReviewsOffIs DEF ReviewsPages
  <2> QED BY <2>1, <2>2
<1>4. QueueInv
  <2>1. \A d : Never(<<>>, d)
    BY DEF Never
  <2> QED BY <1>3, <2>1 DEF QueueInv, DecidedAsShown, submitting
<1> QED BY <1>2, <1>4 DEF ReviewsInv

LEMMA ReviewsStep ==
  ASSUME AgencyAssumption, AgencyInv, ReviewsInv, ReviewsNext
  PROVE  ReviewsInv'
<1>0. ReviewsType /\ QueueInv
  BY DEF ReviewsInv
<1>a. Docs \subseteq Nat \ {0} /\ NoDoc \notin Docs /\ IsFiniteSet(Docs)
  BY DEF AgencyAssumption, NoDoc
<1>1. ASSUME ServeQueue PROVE ReviewsInv'
  <2> DEFINE l == Listed(PendingFor(cookie))
  <2>1. PendingFor(cookie) \subseteq Docs /\ PendingFor(cookie) \subseteq Nat /\ IsFiniteSet(PendingFor(cookie))
    <3>1. PendingFor(cookie) \subseteq Docs
      BY DEF PendingFor
    <3> QED BY <3>1, <1>a, FS_Subset
  <2>2. l \in Seq(Docs) /\ \A d \in Docs : Once(l, d) \/ Never(l, d)
    <3>1. l \in Seq(PendingFor(cookie)) /\ \A d \in PendingFor(cookie) : Once(l, d)
      BY <2>1, ListedIs
    <3>2. l \in Seq(Docs)
      BY <2>1, <3>1
    <3>3. \A d : d \notin PendingFor(cookie) => Never(l, d)
      BY <3>1 DEF Never
    <3> QED BY <3>1, <3>2, <3>3
  <2> HIDE DEF l
  <2>3. reviews' = [reviews EXCEPT !.stage = "served", !.items = l] /\ reviews.stage = "sent"
    BY <1>1 DEF ServeQueue, l
  <2>4. ReviewsType'
    BY <1>0, <2>2, <2>3 DEF ReviewsType, ReviewsPages
  <2>5. QueueInv'
    BY <1>0, <2>2, <2>3 DEF QueueInv, ReviewsType, ReviewsPages, DecidedAsShown, submitting, Taken
  <2> QED BY <2>4, <2>5 DEF ReviewsInv
<1>2. ASSUME QueueReply PROVE ReviewsInv'
  <2>1. /\ reviews.stage = "served"
        /\ reviews' = [reviews EXCEPT !.stage = "none", !.items = <<>>, !.loading = FALSE,
                         !.queue = reviews.items, !.loaded = Range(reviews.items), !.decided = {}]
    BY <1>2 DEF QueueReply
  <2>2. Range(reviews.items) \subseteq Docs /\ <<>> \in Seq(Docs) /\ \A d : Never(<<>>, d)
    BY <1>0 DEF Range, ReviewsType, ReviewsPages, Never
  <2>3. ReviewsType'
    BY <1>0, <2>1, <2>2 DEF ReviewsType, ReviewsPages
  <2>4. /\ reviews'.stage = "none" /\ reviews'.items = <<>> /\ reviews'.loading = FALSE
        /\ reviews'.queue = reviews.items /\ reviews'.loaded = Range(reviews.items) /\ reviews'.decided = {}
        /\ reviews'.target = NoDoc /\ reviews'.submit = "none"
    BY <1>0, <2>1 DEF ReviewsType, ReviewsPages, QueueInv, submitting
  <2>5. \A d \in Range(reviews.items) : Once(reviews.items, d)
    BY <1>0, <2>2 DEF QueueInv, Never, Range
  <2>6. \A i \in DOMAIN reviews.items : reviews.items[i] \in Range(reviews.items)
    BY DEF Range
  <2>7. QueueInv'
    BY <2>2, <2>4, <2>5, <2>6 DEF QueueInv, DecidedAsShown, submitting, Taken
  <2> QED BY <2>3, <2>7 DEF ReviewsInv
<1>3. ASSUME QueueFails PROVE ReviewsInv'
  <2>1. ReviewsType'
    <3>1. \/ reviews' = [reviews EXCEPT !.stage = "none", !.loading = FALSE, !.forbidden = TRUE]
          \/ reviews' = [reviews EXCEPT !.stage = "none", !.loading = FALSE, !.error = TRUE]
      BY <1>3 DEF QueueFails
    <3>2. CASE reviews' = [reviews EXCEPT !.stage = "none", !.loading = FALSE, !.forbidden = TRUE]
      BY <1>0, <3>2 DEF ReviewsType, ReviewsPages
    <3>3. CASE reviews' = [reviews EXCEPT !.stage = "none", !.loading = FALSE, !.error = TRUE]
      BY <1>0, <3>3 DEF ReviewsType, ReviewsPages
    <3> QED BY <3>1, <3>2, <3>3
  <2>2. QueueInv'
    <3>1. reviews.stage # "none" /\ reviews \in ReviewsPages
      BY <1>0, <1>3 DEF QueueFails, ReviewsType
    <3>2. reviews.loading /\ reviews.target = NoDoc /\ reviews.submit = "none"
      BY <1>0, <3>1 DEF QueueInv, submitting
    <3>3. /\ reviews'.stage = "none"
          /\ reviews'.queue = reviews.queue /\ reviews'.items = reviews.items
          /\ reviews'.loaded = reviews.loaded /\ reviews'.decided = reviews.decided
          /\ reviews'.target = NoDoc /\ reviews'.submit = "none"
      <4>1. CASE reviews' = [reviews EXCEPT !.stage = "none", !.loading = FALSE, !.forbidden = TRUE]
        BY <3>1, <3>2, <4>1 DEF ReviewsPages
      <4>2. CASE reviews' = [reviews EXCEPT !.stage = "none", !.loading = FALSE, !.error = TRUE]
        BY <3>1, <3>2, <4>2 DEF ReviewsPages
      <4> QED BY <1>3, <4>1, <4>2 DEF QueueFails
    <3> QED BY <1>0, <3>2, <3>3 DEF QueueInv, DecidedAsShown, submitting, Taken
  <2> QED BY <2>1, <2>2 DEF ReviewsInv
<1>4. ASSUME TryAgain PROVE ReviewsInv'
  <2>1. ReviewsType'
    BY <1>0, <1>4 DEF ReviewsType, ReviewsPages, TryAgain
  <2>2. QueueInv'
    BY <1>0, <1>4 DEF TryAgain, QueueInv, ReviewsType, ReviewsPages, DecidedAsShown, submitting, Taken
  <2> QED BY <2>1, <2>2 DEF ReviewsInv
<1>5. ASSUME NEW x, NEW y, reviews' = [reviews EXCEPT !.detail = x, !.deleting = y],
             x \in Docs \cup {NoDoc}, y \in Docs \cup {NoDoc}
      PROVE  ReviewsInv'
  <2>1. ReviewsType'
    BY <1>0, <1>5 DEF ReviewsType, ReviewsPages
  <2>2. QueueInv'
    BY <1>0, <1>5 DEF QueueInv, ReviewsType, ReviewsPages, DecidedAsShown, submitting, Taken
  <2> QED BY <2>1, <2>2 DEF ReviewsInv
<1>6. ASSUME NEW d \in Docs, OpenDetail(d) \/ CloseDetail \/ Delete(d) \/ DeleteReply \/ DeleteFails
      PROVE  ReviewsInv'
  <2>1. \E x, y \in Docs \cup {NoDoc} : reviews' = [reviews EXCEPT !.detail = x, !.deleting = y]
    <3>1. /\ reviews.detail \in Docs \cup {NoDoc} /\ reviews.deleting \in Docs \cup {NoDoc}
          /\ \A x : [reviews EXCEPT !.detail = x] = [reviews EXCEPT !.detail = x, !.deleting = reviews.deleting]
          /\ \A y : [reviews EXCEPT !.deleting = y] = [reviews EXCEPT !.detail = reviews.detail, !.deleting = y]
      BY <1>0 DEF ReviewsType, ReviewsPages
    <3>2. CASE OpenDetail(d)
      BY <3>1, <3>2 DEF OpenDetail
    <3>3. CASE CloseDetail
      BY <3>1, <3>3 DEF CloseDetail
    <3>4. CASE Delete(d)
      BY <3>1, <3>4 DEF Delete
    <3>5. CASE DeleteReply
      BY <3>5 DEF DeleteReply
    <3>6. CASE DeleteFails
      BY <3>1, <3>6 DEF DeleteFails
    <3> QED BY <1>6, <3>2, <3>3, <3>4, <3>5, <3>6
  <2> QED BY <2>1, <1>5
<1>7. ASSUME NEW d \in Docs, NEW x \in Decisions, OpenDecision(d, x) PROVE ReviewsInv'
  <2>1. /\ reviews' = [reviews EXCEPT !.target = d, !.decision = x, !.noted = FALSE]
        /\ ~reviews.loading /\ ~reviews.forbidden /\ ~reviews.error
        /\ d \in Range(reviews.queue) /\ reviews.target = NoDoc
    BY <1>7 DEF OpenDecision, ShowsCard, Dialogs
  <2>2. ReviewsType'
    BY <1>0, <1>7, <2>1 DEF ReviewsType, ReviewsPages
  <2>3. ~submitting
    BY <1>0, <2>1 DEF QueueInv
  <2>4. d \in reviews.loaded \ reviews.decided
    BY <1>0, <2>1 DEF QueueInv, Range, Never, Taken
  <2>5. /\ reviews'.target = d /\ reviews'.submit = "none"
        /\ reviews'.stage = reviews.stage /\ reviews'.loading = reviews.loading
        /\ reviews'.error = reviews.error /\ reviews'.forbidden = reviews.forbidden
        /\ reviews'.queue = reviews.queue /\ reviews'.items = reviews.items
        /\ reviews'.loaded = reviews.loaded /\ reviews'.decided = reviews.decided
        /\ reviews'.submitted = reviews.submitted
    BY <1>0, <2>1, <2>3 DEF ReviewsType, ReviewsPages, submitting
  <2>6. QueueInv'
    BY <1>0, <1>a, <2>1, <2>3, <2>4, <2>5 DEF QueueInv, DecidedAsShown, submitting, Taken
  <2> QED BY <2>2, <2>6 DEF ReviewsInv
<1>8. ASSUME EditNote PROVE ReviewsInv'
  <2>1. ReviewsType'
    BY <1>0, <1>8 DEF ReviewsType, ReviewsPages, EditNote
  <2>2. QueueInv'
    BY <1>0, <1>8 DEF EditNote, QueueInv, ReviewsType, ReviewsPages, DecidedAsShown, submitting, Taken
  <2> QED BY <2>1, <2>2 DEF ReviewsInv
<1>9. ASSUME CloseDecision PROVE ReviewsInv'
  <2>1. ReviewsType'
    BY <1>0, <1>9 DEF ReviewsType, ReviewsPages, CloseDecision
  <2>2. QueueInv'
    BY <1>0, <1>9 DEF CloseDecision, QueueInv, ReviewsType, ReviewsPages, DecidedAsShown, submitting, Taken
  <2> QED BY <2>1, <2>2 DEF ReviewsInv
<1>10. ASSUME SubmitDecision PROVE ReviewsInv'
  <2> DEFINE q == Dropped(reviews.queue, reviews.target)
             t == reviews.target
  <2>1. /\ t # NoDoc /\ ~submitting /\ (reviews.decision = "rejected" => reviews.noted)
        /\ reviews' = [reviews EXCEPT !.submit = "sent", !.submitted = Submitted, !.queue = q]
    BY <1>10 DEF SubmitDecision, noteRequired
  <2>2. /\ q \in Seq(Docs) /\ Never(q, t)
        /\ \A y : y # t /\ Once(reviews.queue, y) => Once(q, y)
        /\ \A y : Never(reviews.queue, y) => Never(q, y)
    BY <1>0, DroppedIs DEF ReviewsType, ReviewsPages
  <2> HIDE DEF q
  <2>3. /\ Submitted \in [op : {"decide"}, doc : Docs \cup {NoDoc}, decision : Decisions, noted : BOOLEAN]
        /\ Submitted.doc = t /\ Submitted.decision = reviews.decision /\ Submitted.noted = reviews.noted
    BY <1>0 DEF Submitted, NoRequest, ReviewsType, ReviewsPages
  <2>4. ReviewsType'
    BY <1>0, <2>1, <2>2, <2>3 DEF ReviewsType, ReviewsPages
  <2>5. /\ reviews'.target = t /\ reviews'.submit = "sent" /\ reviews'.submitted = Submitted
        /\ reviews'.stage = reviews.stage /\ reviews'.loading = reviews.loading
        /\ reviews'.error = reviews.error /\ reviews'.forbidden = reviews.forbidden
        /\ reviews'.queue = q /\ reviews'.items = reviews.items
        /\ reviews'.loaded = reviews.loaded /\ reviews'.decided = reviews.decided
        /\ reviews'.decision = reviews.decision
    BY <1>0, <2>1 DEF ReviewsType, ReviewsPages
  <2>6. \A i \in DOMAIN q : q[i] \in reviews.loaded
    <3>1. ASSUME NEW i \in DOMAIN q, q[i] \notin reviews.loaded PROVE FALSE
      <4>1. Never(reviews.queue, q[i])
        BY <1>0, <3>1 DEF QueueInv, Never
      <4> QED BY <4>1, <2>2 DEF Never
    <3> QED BY <3>1
  <2>7. \A d \in reviews.loaded : IF d \in reviews.decided \/ d = t THEN Never(q, d) ELSE Once(q, d)
    BY <1>0, <2>1, <2>2 DEF QueueInv, Taken
  <2>8. QueueInv'
    BY <1>0, <2>1, <2>3, <2>5, <2>6, <2>7 DEF QueueInv, DecidedAsShown, submitting, Taken
  <2> QED BY <2>4, <2>8 DEF ReviewsInv
<1>11. ASSUME ServeDecision PROVE ReviewsInv'
  <2>1. ReviewsType'
    BY <1>0, <1>11 DEF ReviewsType, ReviewsPages, ServeDecision
  <2>2. QueueInv'
    BY <1>0, <1>11 DEF ServeDecision, QueueInv, ReviewsType, ReviewsPages, DecidedAsShown, submitting, Taken
  <2> QED BY <2>1, <2>2 DEF ReviewsInv
<1>12. ASSUME DecisionReply PROVE ReviewsInv'
  <2> DEFINE t == reviews.submitted.doc
             x == IF reviews.detail = t THEN NoDoc ELSE reviews.detail
  <2>1. /\ submitting /\ t = reviews.target /\ t \in reviews.loaded
        /\ reviews' = [reviews EXCEPT !.submit = "none", !.submitted = NoRequest, !.target = NoDoc,
                          !.detail = x, !.decided = @ \cup {t}]
    BY <1>0, <1>12 DEF DecisionReply, submitting, QueueInv, DecidedAsShown
  <2>2. NoRequest \in [op : {"decide"}, doc : Docs \cup {NoDoc}, decision : Decisions, noted : BOOLEAN]
    BY DEF NoRequest, Decisions
  <2>3. x \in Docs \cup {NoDoc} /\ t \in Docs
    BY <1>0, <2>1 DEF ReviewsType, ReviewsPages
  <2> HIDE DEF x
  <2>4. ReviewsType'
    BY <1>0, <2>1, <2>2, <2>3 DEF ReviewsType, ReviewsPages
  <2>5. /\ reviews'.target = NoDoc /\ reviews'.submit = "none"
        /\ reviews'.stage = reviews.stage /\ reviews'.loading = reviews.loading
        /\ reviews'.error = reviews.error /\ reviews'.forbidden = reviews.forbidden
        /\ reviews'.queue = reviews.queue /\ reviews'.items = reviews.items
        /\ reviews'.loaded = reviews.loaded /\ reviews'.decided = reviews.decided \cup {t}
    BY <1>0, <2>1 DEF ReviewsType, ReviewsPages
  <2>6. QueueInv'
    BY <1>0, <2>1, <2>5 DEF QueueInv, DecidedAsShown, submitting, Taken
  <2> QED BY <2>4, <2>6 DEF ReviewsInv
<1>13. ASSUME DecisionFails PROVE ReviewsInv'
  <2> DEFINE t == reviews.submitted.doc
             q == Restored(reviews.queue, t)
  <2>1. /\ submitting /\ t = reviews.target /\ t \in reviews.loaded \ reviews.decided /\ t \in Docs
        /\ reviews' = [reviews EXCEPT !.submit = "none", !.submitted = NoRequest, !.queue = q]
    BY <1>0, <1>13 DEF DecisionFails, QueueInv, DecidedAsShown, ReviewsType, ReviewsPages
  <2>2. NoRequest \in [op : {"decide"}, doc : Docs \cup {NoDoc}, decision : Decisions, noted : BOOLEAN]
    BY DEF NoRequest, Decisions
  <2>3. Never(reviews.queue, t) /\ reviews.queue \in Seq(Docs)
    BY <1>0, <2>1 DEF QueueInv, Taken, ReviewsType, ReviewsPages
  <2>4. /\ q \in Seq(Docs) /\ Once(q, t)
        /\ \A y : y # t /\ Once(reviews.queue, y) => Once(q, y)
        /\ \A y : y # t /\ Never(reviews.queue, y) => Never(q, y)
    <3>1. Docs \subseteq Nat
      BY <1>a
    <3> HIDE DEF t
    <3> QED BY <2>1, <2>3, <3>1, RestoredIs
  <2> HIDE DEF q
  <2>5. ReviewsType'
    BY <1>0, <2>1, <2>2, <2>4 DEF ReviewsType, ReviewsPages
  <2>6. /\ reviews'.target = reviews.target /\ reviews'.submit = "none"
        /\ reviews'.stage = reviews.stage /\ reviews'.loading = reviews.loading
        /\ reviews'.error = reviews.error /\ reviews'.forbidden = reviews.forbidden
        /\ reviews'.queue = q /\ reviews'.items = reviews.items
        /\ reviews'.loaded = reviews.loaded /\ reviews'.decided = reviews.decided
    BY <1>0, <2>1 DEF ReviewsType, ReviewsPages
  <2>7. \A i \in DOMAIN q : q[i] \in reviews.loaded
    <3>1. ASSUME NEW i \in DOMAIN q, q[i] \notin reviews.loaded PROVE FALSE
      <4>1. Never(reviews.queue, q[i]) /\ q[i] # t
        BY <1>0, <2>1, <3>1 DEF QueueInv, Never
      <4> QED BY <4>1, <2>4 DEF Never
    <3> QED BY <3>1
  <2>8. \A d \in reviews.loaded : IF d \in reviews.decided THEN Never(q, d) ELSE Once(q, d)
    BY <1>0, <2>1, <2>4 DEF QueueInv, Taken
  <2>9. QueueInv'
    BY <1>0, <2>1, <2>6, <2>7, <2>8 DEF QueueInv, DecidedAsShown, submitting, Taken
  <2> QED BY <2>5, <2>9 DEF ReviewsInv
<1>14. CASE \E d \in Docs : OpenDetail(d) \/ Delete(d) \/ \E x \in Decisions : OpenDecision(d, x)
  BY <1>14, <1>6, <1>7
<1>15. CASE CloseDetail \/ DeleteReply \/ DeleteFails
  <2>1. \E d : d \in Docs
    <3>1. reviews.detail \in Docs \/ reviews.deleting \in Docs
      BY <1>0, <1>15 DEF CloseDetail, DeleteReply, DeleteFails, ReviewsType, ReviewsPages
    <3> QED BY <3>1
  <2> QED BY <1>15, <2>1, <1>6
<1> QED
  BY <1>1, <1>2, <1>3, <1>4, <1>8, <1>9, <1>10, <1>11, <1>12, <1>13, <1>14, <1>15 DEF ReviewsNext

-----------------------------------------------------------------------------
(* The server. *)

(* What a decision or a deletion leaves alone. *)
LEMMA ReviewsApply ==
  ASSUME AgencyInv, NEW r, r.op \in {"decide", "delete"}, Apply(r)
  PROVE  /\ review' \in [Docs -> {"pending_sme", "decided", "deleted"}]
         /\ catalogue' = catalogue /\ smes' = smes
BY DEF Apply, Decided, Deleted, AgencyInv

LEMMA TopicsApply ==
  ASSUME AgencyAssumption, AgencyInv, NEW op \in {"create", "add", "remove"}, NEW r,
         r.op = op, r.topic \in Topics, op # "create" => r.sme \in Candidates, Apply(r)
  PROVE  review' = review /\ catalogue' \subseteq Topics /\ smes' \subseteq Topics \X Users
<1>1. review' = review /\ catalogue' \subseteq Topics
  BY DEF Apply, AgencyInv
<1>2. smes' \subseteq Topics \X Users
  <2>1. smes \subseteq Topics \X Users
    BY DEF AgencyInv
  <2>2. CASE op = "create"
    BY <2>1, <2>2 DEF Apply
  <2>3. CASE op = "add"
    <3>1. smes' = smes \cup {<<r.topic, r.sme>>} /\ r.sme \in Users
      BY <2>3 DEF Apply, AgencyAssumption
    <3> QED BY <2>1, <3>1
  <2>4. CASE op = "remove"
    <3>1. smes' = smes \ {<<r.topic, r.sme>>}
      BY <2>4 DEF Apply
    <3> QED BY <2>1, <3>1
  <2> QED BY <2>2, <2>3, <2>4
<1> QED BY <1>1, <1>2

LEMMA TopicListIs ==
  ASSUME AgencyAssumption, AgencyInv
  PROVE  TopicList \in Seq(Shown)
<1> DEFINE l == Listed(catalogue)
<1>1. catalogue \subseteq Nat /\ catalogue \subseteq Topics /\ IsFiniteSet(catalogue)
  <2>1. catalogue \subseteq Topics /\ Topics \subseteq Nat /\ IsFiniteSet(Topics)
    BY DEF AgencyAssumption, AgencyInv
  <2> QED BY <2>1, FS_Subset
<1>2. l \in Seq(catalogue)
  BY <1>1, ListedIs
<1>3. TopicList = [i \in DOMAIN l |-> [id |-> l[i], smes |-> {u \in Candidates : <<l[i], u>> \in smes}]]
  BY DEF TopicList
<1> HIDE DEF l
<1>4. DOMAIN l = 1..Len(l) /\ Len(l) \in Nat /\ \A i \in DOMAIN l : l[i] \in Topics
  <2>1. DOMAIN l = 1..Len(l) /\ Len(l) \in Nat /\ \A i \in 1..Len(l) : l[i] \in catalogue
    BY <1>2
  <2> QED BY <1>1, <2>1
<1>5. \A i \in 1..Len(l) : [id |-> l[i], smes |-> {u \in Candidates : <<l[i], u>> \in smes}] \in Shown
  BY <1>4 DEF Shown
<1> QED BY <1>3, <1>4, <1>5

-----------------------------------------------------------------------------
(* The topics page. *)

TopicsStarts == topics \in {TopicsOff, TopicsMount(user)} /\ (OnTopics => topics = TopicsMount(user))

LEMMA TopicsAtFirst == TopicsStarts => TopicsType /\ ListInv
<1> SUFFICES ASSUME TopicsStarts PROVE TopicsType /\ ListInv
  OBVIOUS
<1> USE DEF TopicsStarts
<1>1. TopicsMount(user) = [TopicsOff EXCEPT !.stage = IF user \in Admins THEN "sent" ELSE "none"]
  BY DEF TopicsMount
<1>2. TopicsType
  <2>1. <<>> \in Seq(Shown) /\ NoChange \in Changes
    BY DEF NoChange, Changes
  <2>2. TopicsOff \in TopicsPages
    BY <2>1 DEF TopicsOff, TopicsPages
  <2>3. TopicsOff.create = NoChange /\ TopicsOff.add = NoChange /\ TopicsOff.remove = NoChange
    BY DEF TopicsOff
  <2> QED BY <1>1, <2>2, <2>3 DEF TopicsType, TopicsPages, Asked
<1>3. ListInv
  <2>1. /\ topics.add = NoChange /\ topics.create = NoChange
        /\ OnTopics => topics.stage = "sent"
    BY <1>1 DEF TopicsOff, OnTopics
  <2> QED BY <2>1 DEF ListInv, DialogsWait, NoChange
<1> QED BY <1>2, <1>3

(* The type of the page, and what its requests are. *)
LEMMA TopicsRequests ==
  ASSUME TopicsType, NEW op \in {"create", "add", "remove"}, topics[op].stage # "none"
  PROVE  /\ topics[op].op = op /\ topics[op].topic \in Topics
         /\ op # "create" => topics[op].sme \in Candidates
         /\ topics[op].stage \in {"sent", "served"}
         /\ topics[op] \in [op : {op}, topic : Topics, sme : IF op = "create" THEN {NoUser} ELSE Candidates, stage : {"sent", "served"}]
<1>1. Asked(op, topics[op])
  BY DEF TopicsType, TopicsPages
<1> QED BY <1>1 DEF Asked, NoChange

LEMMA SameTopicList ==
  ASSUME catalogue' = catalogue, smes' = smes
  PROVE  TopicList' = TopicList
BY DEF TopicList

LEMMA SameOnTopics ==
  ASSUME UNCHANGED sessionVars
  PROVE  OnTopics' <=> OnTopics
BY DEF OnTopics, InApp, Within, sessionVars

(* A reload asks again, whatever was shown or on its way. *)
LEMMA ReloadKeeps ==
  ASSUME TopicsType, ListInv, NEW page, topics' = Reload(page),
         page \in TopicsPages,
         page.create \in {topics.create, NoChange}, page.add \in {topics.add, NoChange},
         page.remove \in {topics.remove, NoChange},
         page.create.stage # "none" => page.dialog,
         page.add.stage # "none" => page.smeTarget = page.add.topic /\ page.smeTarget # NoTopic
  PROVE  TopicsType' /\ ListInv'
<1>1. topics' = [page EXCEPT !.stage = "sent", !.items = <<>>, !.behind = FALSE]
  BY DEF Reload
<1>2. TopicsType'
  <2>1. <<>> \in Seq(Shown)
    OBVIOUS
  <2>2. /\ topics'.create = page.create /\ topics'.add = page.add /\ topics'.remove = page.remove
        /\ Asked("create", page.create) /\ Asked("add", page.add) /\ Asked("remove", page.remove)
    BY <1>1 DEF TopicsType, TopicsPages, Asked
  <2> QED BY <1>1, <2>1, <2>2 DEF TopicsType, TopicsPages
<1>3. /\ topics'.stage = "sent" /\ topics'.create = page.create /\ topics'.add = page.add
      /\ topics'.dialog = page.dialog /\ topics'.smeTarget = page.smeTarget
  BY <1>1
<1>4. ListInv'
  BY <1>3 DEF ListInv, DialogsWait
<1> QED BY <1>2, <1>4

LEMMA TopicsStep ==
  ASSUME AgencyAssumption, AgencyInv, TopicsType, ListInv, TopicsNext
  PROVE  TopicsType' /\ ListInv'
<1>a. NoChange \in Changes /\ NoChange.stage = "none" /\ <<>> \in Seq(Shown)
  BY DEF NoChange, Changes
<1>b. NoTopic \notin Topics
  BY DEF AgencyAssumption, NoTopic
<1>1. ASSUME ServeTopics PROVE TopicsType' /\ ListInv'
  <2>1. topics' = [topics EXCEPT !.stage = "served", !.items = TopicList] /\ UNCHANGED <<agency, sessionVars>>
    BY <1>1 DEF ServeTopics, Same
  <2>2. TopicList \in Seq(Shown) /\ TopicList' = TopicList
    BY <2>1, TopicListIs, SameTopicList DEF agency
  <2>3. TopicsType'
    BY <2>1, <2>2 DEF TopicsType, TopicsPages
  <2>4. /\ topics'.stage = "served" /\ topics'.items = TopicList' /\ topics'.add = topics.add
        /\ topics'.create = topics.create /\ topics'.dialog = topics.dialog /\ topics'.smeTarget = topics.smeTarget
    BY <2>1, <2>2 DEF TopicsType, TopicsPages
  <2>5. ListInv'
    BY <2>4 DEF ListInv, DialogsWait
  <2> QED BY <2>3, <2>5
<1>2. ASSUME TopicsReply PROVE TopicsType' /\ ListInv'
  <2>1. /\ topics.stage = "served" /\ UNCHANGED <<agency, sessionVars>>
        /\ topics' = [topics EXCEPT !.stage = "none", !.items = <<>>, !.list = topics.items,
                              !.error = FALSE, !.loading = FALSE]
    BY <1>2 DEF TopicsReply, Same
  <2>2. TopicList' = TopicList /\ (OnTopics' <=> OnTopics)
    BY <2>1, SameOnTopics, SameTopicList DEF agency
  <2>3. TopicsType'
    BY <1>a, <2>1 DEF TopicsType, TopicsPages
  <2>4. /\ topics'.stage = "none" /\ topics'.list = topics.items /\ topics'.behind = topics.behind
        /\ topics'.create = topics.create /\ topics'.dialog = topics.dialog /\ topics'.smeTarget = topics.smeTarget
        /\ topics'.add = topics.add /\ topics'.remove = topics.remove
    BY <2>1 DEF TopicsType, TopicsPages
  <2>5. NoneServed' => NoneServed
    BY <2>4 DEF NoneServed
  <2>6. ListInv'
    BY <2>1, <2>2, <2>4, <2>5 DEF ListInv, DialogsWait
  <2> QED BY <2>3, <2>6
<1>3. ASSUME TopicsFail PROVE TopicsType' /\ ListInv'
  <2>1. topics' = [topics EXCEPT !.stage = "none", !.error = TRUE, !.loading = FALSE]
    BY <1>3 DEF TopicsFail
  <2>2. TopicsType'
    BY <2>1 DEF TopicsType, TopicsPages
  <2>3. /\ topics'.error = TRUE /\ topics'.stage = "none"
        /\ topics'.create = topics.create /\ topics'.dialog = topics.dialog /\ topics'.smeTarget = topics.smeTarget
        /\ topics'.add = topics.add
    BY <2>1 DEF TopicsType, TopicsPages
  <2>4. ListInv'
    BY <2>3 DEF ListInv, DialogsWait
  <2> QED BY <2>2, <2>4
<1>4. ASSUME Refresh \/ Retry PROVE TopicsType' /\ ListInv'
  <2>1. CASE Refresh
    <3> DEFINE p == [topics EXCEPT !.error = FALSE]
    <3>1. topics' = Reload(p)
      BY <2>1 DEF Refresh
    <3> QED BY <3>1, ReloadKeeps DEF TopicsType, TopicsPages, ListInv, DialogsWait
  <2>2. CASE Retry
    <3> DEFINE p == [topics EXCEPT !.error = FALSE, !.loading = TRUE]
    <3>1. topics' = Reload(p)
      BY <2>2 DEF Retry
    <3> QED BY <3>1, ReloadKeeps DEF TopicsType, TopicsPages, ListInv, DialogsWait
  <2> QED BY <1>4, <2>1, <2>2
<1>5. ASSUME NEW op \in {"create", "add", "remove"}, Serve(op) PROVE TopicsType' /\ ListInv'
  <2>1. /\ topics[op].stage = "sent"
        /\ topics' = [topics EXCEPT ![op].stage = "served"]
    BY <1>5 DEF Serve
  <2>2. /\ [topics[op] EXCEPT !.stage = "served"] \in Changes
        /\ Asked(op, [topics[op] EXCEPT !.stage = "served"])
        /\ [topics[op] EXCEPT !.stage = "served"].topic = topics[op].topic
        /\ [topics[op] EXCEPT !.stage = "served"].stage = "served"
    BY <2>1, TopicsRequests DEF Asked, Changes
  <2> DEFINE c == [topics[op] EXCEPT !.stage = "served"]
  <2>3. topics' = [topics EXCEPT ![op] = c]
    BY <2>1
  <2> HIDE DEF c
  <2>4. TopicsType'
    BY <2>2, <2>3 DEF TopicsType, TopicsPages, c
  <2>5. /\ topics'[op].stage = "served" /\ topics'.dialog = topics.dialog /\ topics'.smeTarget = topics.smeTarget
        /\ topics'.create.stage # "none" => topics.create.stage # "none"
        /\ topics'.add.stage # "none" => topics.add.stage # "none" /\ topics'.add.topic = topics.add.topic
    BY <2>1, <2>2, <2>3 DEF TopicsType, TopicsPages, c
  <2>6. ListInv'
    BY <2>5 DEF ListInv, DialogsWait, NoneServed
  <2> QED BY <2>4, <2>6
<1>6. ASSUME NEW op \in {"create", "add", "remove"}, Fails(op) PROVE TopicsType' /\ ListInv'
  <2>1. /\ topics' = [topics EXCEPT ![op] = NoChange, !.behind = @ \/ topics[op].stage = "served"]
        /\ UNCHANGED <<agency, sessionVars>>
    BY <1>6 DEF Fails, Same
  <2>2. TopicList' = TopicList /\ (OnTopics' <=> OnTopics)
    BY <2>1, SameOnTopics, SameTopicList DEF agency
  <2> DEFINE b == topics.behind \/ topics[op].stage = "served"
  <2>3. topics' = [[topics EXCEPT ![op] = NoChange] EXCEPT !.behind = b] /\ b \in BOOLEAN
    BY <2>1 DEF TopicsType, TopicsPages
  <2>4. b = TRUE <=> (topics.behind \/ topics[op].stage = "served")
    OBVIOUS
  <2> HIDE DEF b
  <2>5. TopicsType'
    BY <1>a, <2>3 DEF TopicsType, TopicsPages, Asked
  <2>6. /\ topics'[op] = NoChange /\ topics'.behind = b
        /\ \A o \in {"create", "add", "remove"} : o # op => topics'[o] = topics[o]
        /\ topics'.dialog = topics.dialog /\ topics'.smeTarget = topics.smeTarget
        /\ topics'.stage = topics.stage /\ topics'.error = topics.error /\ topics'.list = topics.list
        /\ topics'.items = topics.items
    BY <2>3 DEF TopicsType, TopicsPages
  <2>7. topics'.behind # TRUE /\ NoneServed' => ~topics.behind /\ NoneServed
    BY <2>4, <2>6 DEF NoneServed
  <2>8. /\ topics'.create.stage # "none" => topics.create.stage # "none"
        /\ topics'.add.stage # "none" => topics.add.stage # "none" /\ topics'.add.topic = topics.add.topic
    BY <1>a, <2>6
  <2>9. ListInv'
    BY <2>2, <2>6, <2>7, <2>8 DEF ListInv, DialogsWait
  <2> QED BY <2>5, <2>9
(* A step of the dialogs: a request is made, or nothing but what is open changes. *)
<1>7. ASSUME UNCHANGED <<agency, sessionVars>>, TopicsType',
             topics'.list = topics.list, topics'.items = topics.items, topics'.stage = topics.stage,
             topics'.error = topics.error, topics'.behind = topics.behind,
             NoneServed' => NoneServed, DialogsWait',
             topics'.add.stage # "none" => topics'.smeTarget # NoTopic
      PROVE  TopicsType' /\ ListInv'
  <2>1. TopicList' = TopicList /\ (OnTopics' <=> OnTopics)
    BY <1>7, SameOnTopics, SameTopicList DEF agency
  <2> QED BY <1>7, <2>1 DEF ListInv
<1>8. ASSUME NEW x \in BOOLEAN, topics' = [topics EXCEPT !.dialog = x],
             topics.create.stage = "none", UNCHANGED <<agency, sessionVars>>
      PROVE  TopicsType' /\ ListInv'
  <2>1. TopicsType'
    BY <1>8 DEF TopicsType, TopicsPages
  <2>2. /\ topics'.list = topics.list /\ topics'.items = topics.items /\ topics'.stage = topics.stage
        /\ topics'.error = topics.error /\ topics'.behind = topics.behind
        /\ topics'.create = topics.create /\ topics'.add = topics.add /\ topics'.remove = topics.remove
        /\ topics'.smeTarget = topics.smeTarget
    BY <1>8 DEF TopicsType, TopicsPages
  <2>3. DialogsWait' /\ (NoneServed' => NoneServed)
    BY <1>8, <2>2 DEF ListInv, DialogsWait, NoneServed
  <2> QED BY <2>1, <2>2, <2>3, <1>7, <1>8 DEF ListInv
<1>9. CASE OpenTopicDialog \/ CloseTopicDialog
  <2>1. CASE OpenTopicDialog
    <3>1. topics.create.stage = "none" /\ topics' = [topics EXCEPT !.dialog = TRUE]
      BY <2>1 DEF OpenTopicDialog, Clickable, ListInv, DialogsWait, TopicsType, TopicsPages
    <3> QED BY <2>1, <3>1, <1>8 DEF OpenTopicDialog, Same
  <2>2. CASE CloseTopicDialog
    BY <2>2, <1>8 DEF CloseTopicDialog, Same
  <2> QED BY <1>9, <2>1, <2>2
<1>10. ASSUME NEW x \in Topics \cup {NoTopic}, topics' = [topics EXCEPT !.smeTarget = x],
              topics.add.stage = "none", UNCHANGED <<agency, sessionVars>>
       PROVE  TopicsType' /\ ListInv'
  <2>1. TopicsType'
    BY <1>10 DEF TopicsType, TopicsPages
  <2>2. /\ topics'.list = topics.list /\ topics'.items = topics.items /\ topics'.stage = topics.stage
        /\ topics'.error = topics.error /\ topics'.behind = topics.behind
        /\ topics'.create = topics.create /\ topics'.add = topics.add /\ topics'.remove = topics.remove
        /\ topics'.dialog = topics.dialog
    BY <1>10 DEF TopicsType, TopicsPages
  <2>3. DialogsWait' /\ (NoneServed' => NoneServed)
    BY <1>10, <2>2 DEF ListInv, DialogsWait, NoneServed
  <2> QED BY <2>1, <2>2, <2>3, <1>7, <1>10
<1>11. ASSUME NEW t \in Topics, OpenSmeDialog(t) PROVE TopicsType' /\ ListInv'
  <2>1. topics.add.stage = "none"
    BY <1>11 DEF OpenSmeDialog, Clickable, ListInv
  <2> QED BY <1>11, <2>1, <1>10 DEF OpenSmeDialog, Same
<1>12. ASSUME CloseSmeDialog PROVE TopicsType' /\ ListInv'
  BY <1>12, <1>10 DEF CloseSmeDialog, Same
<1>13. ASSUME NEW op \in {"create", "add", "remove"}, NEW c, topics' = [topics EXCEPT ![op] = c],
              c \in [op : {op}, topic : Topics, sme : IF op = "create" THEN {NoUser} ELSE Candidates, stage : {"sent"}],
              topics[op].stage = "none",
              op = "create" => topics.dialog,
              op = "add" => topics.smeTarget = c.topic,
              UNCHANGED <<agency, sessionVars>>
       PROVE  TopicsType' /\ ListInv'
  <2>1. c \in Changes /\ Asked(op, c) /\ c.stage = "sent" /\ c.topic # NoTopic
    BY <1>b, <1>13 DEF Changes, Asked
  <2>2. TopicsType'
    BY <1>13, <2>1 DEF TopicsType, TopicsPages
  <2>3. /\ topics'.list = topics.list /\ topics'.items = topics.items /\ topics'.stage = topics.stage
        /\ topics'.error = topics.error /\ topics'.behind = topics.behind
        /\ topics'[op] = c
        /\ \A o \in {"create", "add", "remove"} : o # op => topics'[o] = topics[o]
        /\ topics'.smeTarget = topics.smeTarget /\ topics'.dialog = topics.dialog
    BY <1>13 DEF TopicsType, TopicsPages
  <2>4. NoneServed' => NoneServed
    BY <1>13, <2>3 DEF NoneServed
  <2>5. DialogsWait' /\ (topics'.add.stage # "none" => topics'.smeTarget # NoTopic)
    BY <1>13, <2>1, <2>3 DEF ListInv, DialogsWait
  <2> QED BY <1>13, <2>2, <2>3, <2>4, <2>5, <1>7
<1>14. ASSUME NEW t \in Topics, SubmitTopic(t) PROVE TopicsType' /\ ListInv'
  <2> DEFINE c == Change("create", t, NoUser)
  <2>1. topics' = [topics EXCEPT !["create"] = c]
    BY <1>14 DEF SubmitTopic
  <2>2. c \in [op : {"create"}, topic : Topics, sme : {NoUser}, stage : {"sent"}]
    BY DEF Change
  <2> QED BY <1>14, <2>1, <2>2, <1>13 DEF SubmitTopic, Same
<1>15. ASSUME NEW u \in Candidates, SubmitSme(u) PROVE TopicsType' /\ ListInv'
  <2> DEFINE c == Change("add", topics.smeTarget, u)
  <2>1. topics' = [topics EXCEPT !["add"] = c] /\ topics.smeTarget \in Topics
    BY <1>15 DEF SubmitSme, TopicsType, TopicsPages
  <2>2. c \in [op : {"add"}, topic : Topics, sme : Candidates, stage : {"sent"}] /\ c.topic = topics.smeTarget
    BY <2>1 DEF Change
  <2> QED BY <1>15, <2>1, <2>2, <1>13 DEF SubmitSme, Same
<1>16. ASSUME NEW t \in Topics, NEW u \in Candidates, RemoveSme(t, u) PROVE TopicsType' /\ ListInv'
  <2> DEFINE c == Change("remove", t, u)
  <2>1. topics' = [topics EXCEPT !["remove"] = c]
    BY <1>16 DEF RemoveSme
  <2>2. c \in [op : {"remove"}, topic : Topics, sme : Candidates, stage : {"sent"}]
    BY DEF Change
  <2> QED BY <1>16, <2>1, <2>2, <1>13 DEF RemoveSme, Same
<1>17. ASSUME TopicCreated PROVE TopicsType' /\ ListInv'
  <2> DEFINE l == Prepended(topics.create.topic)
             p == [topics EXCEPT !.list = l, !.dialog = FALSE, !.create = NoChange]
  <2>1. l \in Seq(Shown)
    <3>1. [id |-> topics.create.topic, smes |-> {}] \in Shown
      <4>1. topics["create"].stage # "none"
        BY <1>17 DEF TopicCreated
      <4>2. topics.create.topic \in Topics
        BY <4>1, TopicsRequests
      <4> QED BY <4>2 DEF Shown
    <3>2. topics.list \in Seq(Shown) \cup {NoList}
      BY DEF TopicsType, TopicsPages
    <3> QED BY <3>1, <3>2 DEF Prepended
  <2> HIDE DEF l
  <2>2. topics' = Reload(p)
    BY <1>17 DEF TopicCreated, l
  <2> QED BY <1>a, <2>1, <2>2, ReloadKeeps DEF TopicsType, TopicsPages, ListInv, DialogsWait
<1>18. ASSUME SmeAdded PROVE TopicsType' /\ ListInv'
  <2> DEFINE p == [topics EXCEPT !.smeTarget = NoTopic, !.add = NoChange]
  <2>1. topics' = Reload(p)
    BY <1>18 DEF SmeAdded
  <2> QED BY <1>a, <2>1, ReloadKeeps DEF TopicsType, TopicsPages, ListInv, DialogsWait
<1>19. ASSUME SmeRemoved PROVE TopicsType' /\ ListInv'
  <2> DEFINE p == [topics EXCEPT !.remove = NoChange]
  <2>1. topics' = Reload(p)
    BY <1>19 DEF SmeRemoved
  <2> QED BY <1>a, <2>1, ReloadKeeps DEF TopicsType, TopicsPages, ListInv, DialogsWait
<1> QED
  BY <1>1, <1>2, <1>3, <1>4, <1>5, <1>6, <1>9, <1>11, <1>12, <1>14, <1>15, <1>16, <1>17, <1>18, <1>19
     DEF TopicsNext

-----------------------------------------------------------------------------
(* The console. *)

LEMMA Initially == AgencyAssumption /\ Init => IInv
<1> SUFFICES ASSUME AgencyAssumption, Init PROVE IInv
  OBVIOUS
<1>1. AgencyInv
  BY DEF Init, AgencyInit, AgencyInv, AgencyAssumption, Range
<1>2. SessionInv
  BY SessionInitially DEF Init
<1>3. ReviewsInv
  BY ReviewsAtFirst DEF Init
<1>4. TopicsType /\ ListInv
  <2>1. ~OnTopics
    BY DEF Init, SessionInit, OnTopics, InApp, Within
  <2> QED BY <2>1, TopicsAtFirst DEF Init, TopicsStarts
<1> QED BY <1>1, <1>2, <1>3, <1>4 DEF IInv

LEMMA NextReviews ==
  ASSUME ReviewsInv, reviews' = reviews
  PROVE  ReviewsInv'
BY DEF ReviewsInv, ReviewsType, QueueInv, DecidedAsShown, submitting, Taken

LEMMA NextTopics ==
  ASSUME TopicsType, ListInv, topics' = topics, catalogue' = catalogue, smes' = smes, OnTopics' => OnTopics
  PROVE  TopicsType' /\ ListInv'
<1>1. TopicList' = TopicList
  BY SameTopicList
<1>2. TopicsType'
  BY DEF TopicsType
<1>3. ListInv'
  BY <1>1 DEF ListInv, DialogsWait, NoneServed
<1> QED BY <1>2, <1>3

LEMMA NextSession ==
  ASSUME SessionInv, UNCHANGED sessionVars
  PROVE  SessionInv'
BY DEF SessionInv, SessionTypeOK, GetMeInv, AgreeInv, Agree, CountInv, NoneRefreshing, InApp, Within,
       sessionVars, NoShell

(* What a page leaves behind is one of its requests. *)
LEMMA NextOrphans ==
  ASSUME AgencyInv, TopicsType, orphans' \subseteq orphans \cup TopicsOrphans,
         review' \in [Docs -> {"pending_sme", "decided", "deleted"}],
         catalogue' \subseteq Topics, smes' \subseteq Topics \X Users
  PROVE  AgencyInv'
<1>1. ASSUME NEW r \in TopicsOrphans
      PROVE  \E op \in {"create", "add", "remove"} :
               r \in [op : {op}, topic : Topics, sme : IF op = "create" THEN {NoUser} ELSE Candidates, stage : {"none"}]
  <2>1. PICK op \in {"create", "add", "remove"} :
          topics[op].stage = "sent" /\ r = [topics[op] EXCEPT !.stage = "none"]
    BY DEF TopicsOrphans
  <2>2. topics[op] \in [op : {op}, topic : Topics, sme : IF op = "create" THEN {NoUser} ELSE Candidates, stage : {"sent", "served"}]
    BY <2>1, TopicsRequests
  <2> DEFINE c == topics[op]
  <2> HIDE DEF c
  <2>3. r = [c EXCEPT !.stage = "none"] /\ c \in [op : {op}, topic : Topics, sme : IF op = "create" THEN {NoUser} ELSE Candidates, stage : {"sent", "served"}]
    BY <2>1, <2>2 DEF c
  <2>4. r \in [op : {op}, topic : Topics, sme : IF op = "create" THEN {NoUser} ELSE Candidates, stage : {"none"}]
    BY <2>3
  <2> QED BY <2>4
<1> QED BY <1>1 DEF AgencyInv

LEMMA SessionSteps ==
  ASSUME AgencyAssumption, IInv, SessionNext, PagesFollow, UNCHANGED <<review, catalogue, smes, changes>>
  PROVE  IInv'
<1>0. AgencyInv /\ SessionInv /\ ReviewsInv /\ TopicsType /\ ListInv
  BY DEF IInv
<1>1. SessionInv'
  BY <1>0, SessionStep
<1>2. CASE InApp /\ <<route', user'>> = <<route, user>>
  <2>1. UNCHANGED <<reviews, topics, orphans>>
    BY <1>2 DEF PagesFollow
  <2>2. OnTopics' => OnTopics
    BY <1>2 DEF OnTopics
  <2>3. AgencyInv'
    BY <1>0, <2>1 DEF AgencyInv
  <2> QED BY <1>0, <1>1, <2>1, <2>2, <2>3, NextReviews, NextTopics DEF IInv
<1>3. CASE ~(InApp /\ <<route', user'>> = <<route, user>>)
  <2> DEFINE mounted == Within(route', user', loading')
  <2>1. /\ reviews' = IF mounted /\ route' = "reviews" THEN ReviewsMount ELSE ReviewsOff
        /\ topics'  = IF mounted /\ route' = "topics" THEN TopicsMount(user') ELSE TopicsOff
        /\ orphans' \in {orphans, orphans \cup TopicsOrphans}
    BY <1>3 DEF PagesFollow
  <2>2. OnTopics' => mounted /\ route' = "topics"
    BY DEF OnTopics, InApp, Within
  <2> HIDE DEF mounted
  <2>3. ReviewsInv'
    <3>1. reviews' \in {ReviewsOff, ReviewsMount}
      BY <2>1
    <3>2. (reviews \in {ReviewsOff, ReviewsMount} => ReviewsInv)'
      BY ReviewsAtFirst, PTL
    <3>3. ReviewsOff' = ReviewsOff /\ ReviewsMount' = ReviewsMount
      BY DEF ReviewsOff, ReviewsMount, NoRequest
    <3> QED BY <3>1, <3>2, <3>3
  <2>4. TopicsType' /\ ListInv'
    <3>1. (TopicsStarts => TopicsType /\ ListInv)'
      BY TopicsAtFirst, PTL
    <3>2. TopicsStarts'
      BY <2>1, <2>2 DEF TopicsStarts
    <3> QED BY <3>1, <3>2
  <2>5. AgencyInv'
    <3>1. orphans' \subseteq orphans \cup TopicsOrphans
      BY <2>1
    <3> QED BY <1>0, <3>1, NextOrphans DEF AgencyInv
  <2> QED BY <1>1, <2>3, <2>4, <2>5 DEF IInv
<1> QED BY <1>2, <1>3

LEMMA ReviewsSteps ==
  ASSUME AgencyAssumption, IInv, ReviewsNext, UNCHANGED topics
  PROVE  IInv'
<1>0. AgencyInv /\ SessionInv /\ ReviewsInv /\ TopicsType /\ ListInv
  BY DEF IInv
<1>1. ReviewsInv'
  BY <1>0, ReviewsStep
<1>2. /\ review' \in [Docs -> {"pending_sme", "decided", "deleted"}]
      /\ catalogue' = catalogue /\ smes' = smes
      /\ orphans' = orphans /\ UNCHANGED sessionVars
  <2>1. CASE ServeDecision
    <3>1. reviews.submitted.op = "decide"
      BY <1>0 DEF ReviewsInv, ReviewsType, ReviewsPages
    <3> QED BY <1>0, <2>1, <3>1, ReviewsApply DEF ServeDecision
  <2>2. CASE DeleteReply
    <3> DEFINE r == [op |-> "delete", doc |-> reviews.deleting]
    <3>1. Apply(r) /\ r.op = "delete" /\ UNCHANGED <<orphans, sessionVars>>
      BY <2>2 DEF DeleteReply
    <3> HIDE DEF r
    <3> QED BY <1>0, <3>1, ReviewsApply
  <2>3. ASSUME ~ServeDecision, ~DeleteReply PROVE UNCHANGED <<agency, sessionVars>>
    BY <2>3 DEF ReviewsNext, ServeQueue, QueueReply, QueueFails, TryAgain, OpenDetail, Delete, OpenDecision,
       CloseDetail, DeleteFails, EditNote, CloseDecision, SubmitDecision, DecisionReply, DecisionFails, Unchanged
  <2>4. UNCHANGED <<agency, sessionVars>> =>
          /\ review' \in [Docs -> {"pending_sme", "decided", "deleted"}]
          /\ catalogue' = catalogue /\ smes' = smes
          /\ orphans' = orphans /\ UNCHANGED sessionVars
    BY <1>0 DEF agency, AgencyInv
  <2> QED BY <2>1, <2>2, <2>3, <2>4
<1>3. AgencyInv'
  BY <1>0, <1>2 DEF AgencyInv
<1>4. TopicsType' /\ ListInv'
  BY <1>0, <1>2, SameOnTopics, NextTopics
<1> QED BY <1>0, <1>1, <1>2, <1>3, <1>4, NextSession DEF IInv

LEMMA TopicsSteps ==
  ASSUME AgencyAssumption, IInv, TopicsNext, UNCHANGED reviews
  PROVE  IInv'
<1>0. AgencyInv /\ SessionInv /\ ReviewsInv /\ TopicsType /\ ListInv
  BY DEF IInv
<1>1. TopicsType' /\ ListInv'
  BY <1>0, TopicsStep
<1>2. /\ review' = review /\ catalogue' \subseteq Topics /\ smes' \subseteq Topics \X Users
      /\ orphans' = orphans /\ UNCHANGED sessionVars
  <2>1. ASSUME NEW op \in {"create", "add", "remove"}, Serve(op)
        PROVE  /\ review' = review /\ catalogue' \subseteq Topics /\ smes' \subseteq Topics \X Users
               /\ orphans' = orphans /\ UNCHANGED sessionVars
    <3> DEFINE r == topics[op]
    <3>1. r.stage # "none" /\ Apply(r) /\ UNCHANGED <<orphans, sessionVars>>
      BY <2>1 DEF Serve
    <3>2. r.op = op /\ r.topic \in Topics /\ (op # "create" => r.sme \in Candidates)
      BY <1>0, <3>1, TopicsRequests
    <3> HIDE DEF r
    <3> QED BY <1>0, <3>1, <3>2, TopicsApply
  <2>2. ASSUME \A op \in {"create", "add", "remove"} : ~Serve(op) PROVE UNCHANGED <<agency, sessionVars>>
    BY <2>2 DEF TopicsNext, ServeTopics, TopicsReply, TopicsFail, Refresh, Retry, Fails, OpenTopicDialog,
       CloseTopicDialog, TopicCreated, CloseSmeDialog, SmeAdded, SmeRemoved, SubmitTopic, OpenSmeDialog,
       RemoveSme, SubmitSme, Same
  <2>3. UNCHANGED <<agency, sessionVars>> =>
          /\ review' = review /\ catalogue' \subseteq Topics /\ smes' \subseteq Topics \X Users
          /\ orphans' = orphans /\ UNCHANGED sessionVars
    BY <1>0 DEF agency, AgencyInv
  <2> QED BY <2>1, <2>2, <2>3
<1>3. AgencyInv'
  BY <1>0, <1>2 DEF AgencyInv
<1> QED BY <1>0, <1>1, <1>2, <1>3, NextReviews, NextSession DEF IInv

LEMMA OrphanSteps ==
  ASSUME AgencyAssumption, IInv, NEW r \in orphans, ServeOrphan(r)
  PROVE  IInv'
<1>0. AgencyInv /\ SessionInv /\ ReviewsInv /\ TopicsType /\ ListInv
  BY DEF IInv
<1>1. /\ Apply(r) /\ orphans' = orphans \ {r}
      /\ topics' = [topics EXCEPT !.behind = @ \/ (OnTopics /\ topics.stage # "sent")]
      /\ UNCHANGED sessionVars /\ reviews' = reviews
  BY DEF ServeOrphan
<1>2. AgencyInv'
  <2>1. PICK op \in {"create", "add", "remove"} :
          r \in [op : {op}, topic : Topics, sme : IF op = "create" THEN {NoUser} ELSE Candidates, stage : {"none"}]
    BY <1>0 DEF AgencyInv
  <2>2. r.op = op /\ r.topic \in Topics /\ (op # "create" => r.sme \in Candidates)
    BY <2>1
  <2>3. review' = review /\ catalogue' \subseteq Topics /\ smes' \subseteq Topics \X Users
    BY <1>0, <1>1, <2>2, TopicsApply
  <2> QED BY <1>0, <1>1, <2>3 DEF AgencyInv
<1> DEFINE b == topics.behind \/ (OnTopics /\ topics.stage # "sent")
<1>3. topics' = [topics EXCEPT !.behind = b] /\ b \in BOOLEAN
  BY <1>0, <1>1 DEF TopicsType, TopicsPages
<1>4. OnTopics /\ topics.stage # "sent" => b = TRUE
  OBVIOUS
<1> HIDE DEF b
<1>5. TopicsType'
  BY <1>0, <1>3 DEF TopicsType, TopicsPages
<1>6. ListInv'
  <2>1. OnTopics' <=> OnTopics
    BY <1>1, SameOnTopics
  <2>2. /\ topics'.behind = b /\ topics'.stage = topics.stage
        /\ topics'.create = topics.create /\ topics'.add = topics.add
        /\ topics'.dialog = topics.dialog /\ topics'.smeTarget = topics.smeTarget
    BY <1>0, <1>3 DEF TopicsType, TopicsPages
  <2> QED BY <1>0, <1>4, <2>1, <2>2 DEF ListInv, DialogsWait
<1> QED BY <1>0, <1>1, <1>2, <1>5, <1>6, NextReviews, NextSession DEF IInv

LEMMA ElsewhereSteps ==
  ASSUME AgencyAssumption, IInv, NEW d \in Docs, DecidedElsewhere(d), UNCHANGED <<sessionVars, reviews, topics>>
  PROVE  IInv'
<1>0. AgencyInv /\ SessionInv /\ ReviewsInv /\ TopicsType /\ ListInv
  BY DEF IInv
<1> DEFINE r == [op |-> "decide", doc |-> d]
<1>1. Apply(r) /\ r.op = "decide" /\ orphans' = orphans
  BY DEF DecidedElsewhere
<1> HIDE DEF r
<1>2. /\ review' \in [Docs -> {"pending_sme", "decided", "deleted"}]
      /\ catalogue' = catalogue /\ smes' = smes
  BY <1>0, <1>1, ReviewsApply
<1>3. AgencyInv'
  BY <1>0, <1>1, <1>2 DEF AgencyInv
<1>4. UNCHANGED sessionVars /\ reviews' = reviews /\ topics' = topics
  OBVIOUS
<1> QED BY <1>0, <1>2, <1>3, <1>4, SameOnTopics, NextReviews, NextTopics, NextSession DEF IInv

LEMMA Inductive == AgencyAssumption /\ IInv /\ [Next]_consoleVars => IInv'
<1> SUFFICES ASSUME AgencyAssumption, IInv, [Next]_consoleVars PROVE IInv'
  OBVIOUS
<1>1. CASE UNCHANGED consoleVars
  <2>1. AgencyInv /\ SessionInv /\ ReviewsInv /\ TopicsType /\ ListInv
    BY DEF IInv
  <2>2. UNCHANGED <<agency, sessionVars, reviews, topics>>
    BY <1>1 DEF consoleVars
  <2>3. UNCHANGED sessionVars /\ reviews' = reviews /\ topics' = topics /\ catalogue' = catalogue /\ smes' = smes
        /\ review' = review /\ orphans' = orphans
    BY <2>2 DEF agency
  <2>4. AgencyInv'
    BY <2>1, <2>3 DEF AgencyInv
  <2> QED BY <2>1, <2>3, <2>4, SameOnTopics, NextReviews, NextTopics, NextSession DEF IInv
<1>2. CASE SessionNext /\ PagesFollow /\ UNCHANGED <<review, catalogue, smes, changes>>
  BY <1>2, SessionSteps
<1>3. CASE ReviewsNext /\ UNCHANGED topics
  BY <1>3, ReviewsSteps
<1>4. CASE TopicsNext /\ UNCHANGED reviews
  BY <1>4, TopicsSteps
<1>5. CASE \E r \in orphans : ServeOrphan(r)
  BY <1>5, OrphanSteps
<1>6. CASE \E d \in Docs : DecidedElsewhere(d) /\ UNCHANGED <<sessionVars, reviews, topics>>
  BY <1>6, ElsewhereSteps
<1> QED BY <1>1, <1>2, <1>3, <1>4, <1>5, <1>6 DEF Next

LEMMA Invariance == Spec => []IInv
<1>1. Init => IInv
  BY Initially, AgencyAssumption
<1>2. IInv /\ [Next]_consoleVars => IInv'
  BY Inductive, AgencyAssumption
<1> QED BY <1>1, <1>2, PTL DEF Spec

-----------------------------------------------------------------------------
(* The state is of its types. *)
THEOREM TypeCorrect == Spec => []TypeOK
<1>1. IInv => TypeOK
  <2> SUFFICES ASSUME IInv PROVE TypeOK
    OBVIOUS
  <2>1. AgencyInv /\ SessionInv /\ ReviewsInv /\ TopicsType
    BY DEF IInv
  <2>2. ReviewsTypeOK
    <3>1. reviews \in ReviewsPages
      BY <2>1 DEF ReviewsInv, ReviewsType
    <3>2. Range(reviews.queue) \subseteq Docs /\ Range(reviews.items) \subseteq Docs
      BY <3>1 DEF Range, ReviewsPages
    <3> QED BY <3>1, <3>2 DEF ReviewsTypeOK, ReviewsPages
  <2>3. TopicsTypeOK
    <3>1. topics \in TopicsPages
      BY <2>1 DEF TopicsType
    <3>2. Range(topics.items) \subseteq Shown /\ (topics.list = NoList \/ Range(topics.list) \subseteq Shown)
      BY <3>1 DEF Range, TopicsPages
    <3> QED BY <3>1, <3>2 DEF TopicsTypeOK, TopicsPages
  <2> QED BY <2>1, <2>2, <2>3 DEF TypeOK, AgencyInv, SessionInv
<1> QED BY <1>1, Invariance, PTL

(* Whoever signs in, out or over, and whatever is still on its way then:   *)
(* once all of it is answered, the client and the cookie agree on the      *)
(* user, or one of them knows of none after a lost answer or an expiry, or *)
(* an answer about a former cookie came last; and the number of pending    *)
(* reviews is that user's own.                                             *)
THEOREM ClientIsCookie == Spec => []SameUser
<1>1. IInv => SameUser
  <2>1. Answered /\ GetMeInv => NoneRefreshing /\ loading # TRUE
    BY DEF Answered, NoneRefreshing, GetMeInv
  <2> QED BY <2>1 DEF IInv, SessionInv, SessionTypeOK, AgreeInv, Agree, CountInv, SameUser, CountIsOwn
<1> QED BY <1>1, Invariance, PTL

(* A failed decision neither loses a document of the queue nor doubles it, *)
(* however many documents there are and however often decisions fail.      *)
THEOREM QueueIsKept == Spec => []QueueKeepsLoaded
<1>1. IInv => QueueKeepsLoaded
  <2> SUFFICES ASSUME IInv, NEW d \in reviews.loaded
               PROVE  Cardinality({i \in DOMAIN reviews.queue : reviews.queue[i] = d})
                        = IF Taken(d) THEN 0 ELSE 1
    BY DEF QueueKeepsLoaded, Taken
  <2>1. IF Taken(d) THEN Never(reviews.queue, d) ELSE Once(reviews.queue, d)
    BY DEF IInv, ReviewsInv, QueueInv
  <2> QED BY <2>1, OnceIsOne
<1> QED BY <1>1, Invariance, PTL

(* An answer meets the dialog its request was sent from.                   *)
THEOREM DialogsAreMet == Spec => []AnswersMeetTheirDialog
<1>1. IInv => AnswersMeetTheirDialog
  BY DEF IInv, ReviewsInv, QueueInv, ListInv, AnswersMeetTheirDialog
<1> QED BY <1>1, Invariance, PTL

(* In whatever order its changes and its reloads are answered, the topics  *)
(* page ends up with the server's list.                                    *)
THEOREM ChangesAreShown == Spec => []OwnChangesShown
<1>1. IInv => OwnChangesShown
  BY DEF IInv, ListInv, OwnChangesShown, NoneServed, Quiet
<1> QED BY <1>1, Invariance, PTL
=============================================================================
