------------------------------ MODULE Session -------------------------------
(***************************************************************************)
(* Who is signed in, as the client sees it: AuthProvider, the guard of the *)
(* (app) layout, the login page and the application shell.  The initial    *)
(* probe of the session, a login and the re-probe it ends with, a logout   *)
(* and the shell's probe of the review queue overlap; each of them carries *)
(* the cookie the browser had when it was sent.                            *)
(***************************************************************************)
EXTENDS Agency

CONSTANT MaxLogins   \* bound on the submissions of the login form at a time

ASSUME SessionAssumption == MaxLogins \in Nat \ {0}

VARIABLES
  cookie,    \* the user of the live session whose cookie the browser has
  user, loading,
  probe,     \* the initial getMe: on its way or not, and the cookie it carries
  forms,     \* the submissions of the login form, in the order they were made;
             \* "own" is that of the form that is mounted: they outlive it
  route,
  shell,     \* of the mounted shell: the user for whom pendingReviews is not
             \* 0, and the request that counts them anew
  slip       \* history: what may have set user and cookie apart

\* "late", of probe and forms, is history too: the cookie was changed since.

sessionVars == <<cookie, user, loading, probe, forms, route, shell, slip>>

Routes == {"login", "chat", "reviews", "topics"}   \* "chat" stands for the other pages

NoShell == [pendingFor |-> NoUser, stage |-> "none", answer |-> NoUser]
NoProbe == [stage |-> "idle", as |-> NoUser, late |-> FALSE]
Idle    == [stage |-> "idle", as |-> NoUser, own |-> FALSE, late |-> FALSE]

Logins == 1..MaxLogins

(* The browser opens any page of the client, with any cookie. *)
SessionInit ==
  /\ cookie \in Users \cup {NoUser}
  /\ user = NoUser /\ loading = TRUE
  /\ probe = [NoProbe EXCEPT !.stage = "sent", !.as = cookie]
  /\ forms = [i \in Logins |-> Idle]
  /\ route \in Routes
  /\ shell = NoShell
  /\ slip = "none"

-----------------------------------------------------------------------------
(* The shell and its page are there for a known user only; until the probe *)
(* is answered the layout says "Checking your session".                    *)
Within(r, u, checking) == r # "login" /\ ~checking /\ u # NoUser

InApp == Within(route, user, loading)

(* The pages the navigation offers. *)
nav ==
  {"chat"} \cup (IF user \in Admins \/ shell.pendingFor # NoUser THEN {"reviews"} ELSE {})
           \cup (IF user \in Admins THEN {"topics"} ELSE {})

(* Where the layout or the login page send the user on. *)
Redirected(r, u, checking) ==
  CASE ~checking /\ u = NoUser               -> "login"
    [] ~checking /\ u # NoUser /\ r = "login" -> "chat"
    [] OTHER                                 -> r

(* Variant: the request is not cancelled when the shell goes. *)
Probing_KeepsRequest(r, u, checking) ==
  CASE shell.stage # "none"     -> [shell EXCEPT !.pendingFor = NoUser]
    [] shell.stage = "none" /\ Within(r, u, checking) -> [NoShell EXCEPT !.stage = "sent"]
    [] OTHER                    -> NoShell

(* The shell's effect.  What leads here sets another user object, the same *)
(* user's or not, or another page: the request is cancelled and sent anew; *)
(* the number stays, until the shell goes.                                 *)
Probing(r, u, checking) ==
  IF Within(r, u, checking) THEN [shell EXCEPT !.stage = "sent", !.answer = NoUser] ELSE NoShell

(* The state of AuthProvider and the route, with the render that follows.  *)
Commit(u, checking, r) ==
  LET to == Redirected(r, u, checking)
  IN  /\ user' = u /\ loading' = checking /\ route' = to
      /\ shell' = Probing(to, u, checking)

(* The login page is left, and its form with it.                           *)
Disowned == [i \in Logins |-> [forms[i] EXCEPT !.own = FALSE]]

(* Submission i is over: those made after it move up.                      *)
Over(subs, i) ==
  [j \in Logins |-> IF j < i THEN subs[j] ELSE IF j < MaxLogins THEN subs[j + 1] ELSE Idle]

(* The browser's cookie becomes c's: a getMe that is on its way carries    *)
(* the one before.                                                         *)
Handed(c) ==
  /\ cookie' = c
  /\ probe' = [probe EXCEPT !.late = @ \/ (probe.stage = "sent" /\ c # cookie)]

Overtaken(c) ==
  [i \in Logins |-> [forms[i] EXCEPT !.late = @ \/ (forms[i].stage = "refreshing" /\ c # cookie)]]

-----------------------------------------------------------------------------
(* The initial probe. *)

ProbeReply ==
  /\ probe.stage = "sent" /\ probe.as # NoUser
  /\ probe' = NoProbe
  /\ Commit(probe.as, FALSE, route)
  /\ forms' = Disowned
  /\ slip' = IF probe.late THEN "late" ELSE slip
  /\ UNCHANGED cookie

(* Not signed in, by then or when it was sent, or not answered. *)
ProbeFails ==
  /\ probe.stage = "sent"
  /\ probe' = NoProbe
  /\ Commit(NoUser, FALSE, route)
  /\ slip' = IF probe.as # NoUser \/ probe.late THEN "forgot" ELSE slip
  /\ UNCHANGED <<cookie, forms>>

-----------------------------------------------------------------------------
(* handleSubmit: the form is there before the probe is answered, and is    *)
(* busy with its own submission only.                                      *)

FormOffered == route = "login" /\ \A i \in Logins : ~forms[i].own

Submit(u, i) ==
  /\ FormOffered
  /\ forms[i].stage = "idle" /\ \A j \in 1..(i - 1) : forms[j].stage # "idle"
  /\ forms' = [forms EXCEPT ![i] = [stage |-> "sent", as |-> u, own |-> TRUE, late |-> FALSE]]
  /\ UNCHANGED <<cookie, user, loading, probe, route, shell, slip>>

(* The cookie is set, and refresh sends it. *)
LoginReply(i) ==
  /\ forms[i].stage = "sent"
  /\ Handed(forms[i].as)
  /\ forms' = [Overtaken(forms[i].as) EXCEPT ![i] = [forms[i] EXCEPT !.stage = "refreshing"]]
  /\ UNCHANGED <<user, loading, route, shell, slip>>

LoginFails(i) ==
  /\ forms[i].stage = "sent"
  /\ forms' = Over(forms, i)
  /\ UNCHANGED <<cookie, user, loading, probe, route, shell, slip>>

(* Whatever page is open by then is left for the chat. *)
RefreshReply(i) ==
  /\ forms[i].stage = "refreshing"
  /\ forms' = Over(Disowned, i)
  /\ Commit(forms[i].as, loading, "chat")
  /\ slip' = IF forms[i].late THEN "late" ELSE "none"
  /\ UNCHANGED <<cookie, probe>>

(* refresh does not throw: the page is left for the layout to send back.   *)
RefreshFails(i) ==
  /\ forms[i].stage = "refreshing"
  /\ forms' = Over(Disowned, i)
  /\ Commit(NoUser, loading, "chat")
  /\ slip' = "forgot"
  /\ UNCHANGED <<cookie, probe>>

-----------------------------------------------------------------------------
(* The shell. *)

Navigate(r) ==
  /\ InApp /\ r \in nav \ {route}
  /\ Commit(user, loading, r)
  /\ UNCHANGED <<cookie, probe, forms, slip>>

(* handleSignOut and signOut: until the answer nothing but a busy menu     *)
(* entry tells of the request, so it is taken with its answer.             *)
SignOut ==
  /\ InApp
  /\ Handed(NoUser) /\ forms' = Overtaken(NoUser)
  /\ Commit(NoUser, loading, "login")
  /\ slip' = "none"

(* A failure is swallowed: the client forgets a user whose session lives.  *)
SignOutFails ==
  /\ InApp
  /\ Commit(NoUser, loading, "login")
  /\ slip' = "forgot"
  /\ UNCHANGED <<cookie, probe, forms>>

ServeCount ==
  /\ shell.stage = "sent" /\ cookie # NoUser
  /\ shell' = [shell EXCEPT !.stage = "served",
                            !.answer = IF PendingFor(cookie) = {} THEN NoUser ELSE cookie]
  /\ UNCHANGED <<cookie, user, loading, probe, forms, route, slip>>

CountReply ==
  /\ shell.stage = "served"
  /\ shell' = [NoShell EXCEPT !.pendingFor = shell.answer]
  /\ UNCHANGED <<cookie, user, loading, probe, forms, route, slip>>

CountFails ==
  /\ shell.stage \in {"sent", "served"}
  /\ shell' = NoShell
  /\ UNCHANGED <<cookie, user, loading, probe, forms, route, slip>>

(* The session ends on the server, after its 30 days. *)
Expire ==
  /\ cookie # NoUser
  /\ Handed(NoUser) /\ forms' = Overtaken(NoUser)
  /\ slip' = IF slip = "late" THEN slip ELSE "expired"
  /\ UNCHANGED <<user, loading, route, shell>>

SessionNext ==
  \/ ProbeReply \/ ProbeFails
  \/ \E i \in Logins :
       \/ \E u \in Users : Submit(u, i)
       \/ LoginReply(i) \/ LoginFails(i) \/ RefreshReply(i) \/ RefreshFails(i)
  \/ \E r \in Routes : Navigate(r)
  \/ SignOut \/ SignOutFails
  \/ ServeCount \/ CountReply \/ CountFails
  \/ Expire

-----------------------------------------------------------------------------
SessionTypeOK ==
  /\ {cookie, user} \subseteq Users \cup {NoUser}
  /\ loading \in BOOLEAN
  /\ probe \in [stage : {"idle", "sent"}, as : Users \cup {NoUser}, late : BOOLEAN]
  /\ forms \in [Logins -> [stage : {"idle", "sent", "refreshing"}, as : Users \cup {NoUser},
                           own : BOOLEAN, late : BOOLEAN]]
  /\ route \in Routes
  /\ shell \in [pendingFor : Users \cup {NoUser}, stage : {"none", "sent", "served"},
                answer : Users \cup {NoUser}]
  /\ slip \in {"none", "forgot", "late", "expired"}

Answered == probe.stage = "idle" /\ \A i \in Logins : forms[i].stage = "idle"

(* Once the shell's request is answered, the number of pending reviews,    *)
(* and with it the Reviews entry offered to a member, come from that       *)
(* user's own queue, not from the queue of whoever used the browser        *)
(* before: also after an answer was lost, or the session expired.          *)
CountIsOwn ==
  Answered /\ shell.stage = "none" /\ slip # "late" => shell.pendingFor \in {user, NoUser}

(* Once everything that was asked has been answered, the client and the    *)
(* browser's cookie agree on who is signed in: nobody who logged in is     *)
(* sent back to the login page, nobody is shown another one's console or   *)
(* count.  A lost answer makes the client forget a user at most, and an    *)
(* expired session leaves nobody else signed in; only an answer about a    *)
(* cookie that is no more (auth-provider.tsx:37) makes it take somebody    *)
(* for another, until an answer about the present one.                     *)
SameUser ==
  /\ Answered => \/ user = cookie
                 \/ slip = "forgot" /\ user = NoUser
                 \/ slip = "expired" /\ cookie = NoUser
                 \/ slip = "late"
  /\ CountIsOwn
=============================================================================
