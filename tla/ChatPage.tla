------------------------------ MODULE ChatPage ------------------------------
(***************************************************************************)
(* The chat page of the client (app/(app)/chat/page.tsx) against a server  *)
(* that stores conversations.  Three kinds of requests overlap: the list   *)
(* of conversations, the transcript of the selected one, and one streamed  *)
(* answer per question; all of them end in updates of the same messages.   *)
(*                                                                         *)
(* A step is one task of the browser: a click or a reply, what it awaits   *)
(* that is already there, and the render and effects that follow.          *)
(* Conversations are numbered in the order of their creation; a question   *)
(* is a turn, and so is its answer.                                        *)
(***************************************************************************)
EXTENDS ChatStream

CONSTANTS
  MaxConvs,     \* bound on conversations
  MaxTurns,     \* bound on questions asked
  MaxSelects,   \* bound on the selections counted by selectionNonce
  Bodies,       \* the bodies a server may answer with
  IsAdmin       \* whether the user is an admin

ASSUME ChatAssumption ==
  /\ MaxConvs \in Nat \ {0} /\ MaxTurns \in Nat \ {0} /\ MaxSelects \in Nat
  /\ Bodies \subseteq Seq(Symbols)
  /\ IsAdmin \in BOOLEAN

Convs  == 1..MaxConvs
Turns  == 1..MaxTurns
NoConv == 0
NoTurn == 0
Scopes == {"personal", "admin"}

VARIABLES
  stored,      \* server: the conversations, each with its transcript
  scopeOf,     \* server: the scope of a conversation
  sessions,    \* the list in the sidebar
  listing,     \* the request for it: "sent", "served" or "failed", "idle"
  listReply,   \* the list the server has answered with
  activeId, selectionNonce,
  transcript,  \* the transcript request whose effect has not been cleaned up
  messages, messagesLoading,
  streaming, abortRef,
  sends,       \* the calls of send
  creates,     \* the requests for a new conversation
  signedIn,
  overlapped,  \* history: a stream was started while another one was alive
  lateList     \* history: a list arrived when a conversation was selected

server  == <<stored, scopeOf>>
sidebar == <<sessions, listing, listReply>>
view    == <<activeId, selectionNonce, transcript, messages, messagesLoading>>
stream  == <<streaming, abortRef, sends>>
history == <<overlapped, lateList>>
vars    == <<server, sidebar, view, stream, creates, signedIn, history>>

-----------------------------------------------------------------------------
(* Messages.                                                               *)

Stored(t, role) == [turn |-> t, role |-> role]

(* A message as the page holds it: from the server, or put there by send;  *)
(* "conv" and "events" are what it stands for, the page does not know.     *)
Loaded(c, m)   == [turn |-> m.turn, role |-> m.role, conv |-> c, local |-> FALSE, events |-> <<>>]
Question(c, t) == [turn |-> t, role |-> "user", conv |-> c, local |-> TRUE, events |-> <<>>]

(* Variant: a role nobody else knows. *)
Answer_Misspelt(c, t, events) ==
  [turn |-> t, role |-> "model", conv |-> c, local |-> TRUE, events |-> events]

Answer(c, t, events) ==
  [turn |-> t, role |-> "assistant", conv |-> c, local |-> TRUE, events |-> events]

HasText(events) == "delta" \in Range(events)

-----------------------------------------------------------------------------
(* What is rendered decides what can be clicked.                           *)

SidebarOffers ==
  {"new"} \cup (IF IsAdmin THEN {"new_admin"} ELSE {})
          \cup (IF listing = "failed" THEN {"retry"} ELSE {})

Selectable == IF listing = "idle" THEN Range(sessions) ELSE {}

(* A conversation that is not in the list counts as personal. *)
ShownScope == IF activeId \in Range(sessions) THEN scopeOf[activeId] ELSE "personal"

ShowWelcome == ~messagesLoading /\ messages = <<>> /\ ~streaming

Pane == CASE messagesLoading -> "loading"
          [] ShowWelcome     -> "welcome"
          [] OTHER           -> "messages"

ComposerOffers == IF streaming THEN "stop" ELSE "send"

-----------------------------------------------------------------------------
NoTranscript == [conv |-> NoConv, stage |-> "none", items |-> <<>>]

NoSend == [phase |-> "idle", conv |-> NoConv, fresh |-> FALSE, body |-> <<>>, pos |-> 0,
           reader |-> NewReader, saved |-> FALSE]

Alive(t) == sends[t].phase \in {"posting", "reading"}

(* The first conversation exists and holds an answered question, turn 0.   *)
Init ==
  /\ stored = <<<<Stored(NoTurn, "user"), Stored(NoTurn, "assistant")>>>>
  /\ scopeOf = <<"personal">>
  /\ sessions = <<>> /\ listing = "sent" /\ listReply = <<>>
  /\ activeId = NoConv /\ selectionNonce = 0
  /\ transcript = NoTranscript
  /\ messages = <<>> /\ messagesLoading = FALSE
  /\ streaming = FALSE /\ abortRef = NoTurn
  /\ sends = [t \in Turns |-> NoSend]
  /\ creates = {}
  /\ signedIn = TRUE
  /\ overlapped = FALSE /\ lateList = FALSE

-----------------------------------------------------------------------------
(* The list of conversations.                                              *)

ServeList ==
  /\ listing = "sent"
  /\ listing' = "served"
  /\ listReply' = Reverse([c \in DOMAIN stored |-> c])
  /\ UNCHANGED <<server, sessions, view, stream, creates, signedIn, history>>

(* The effect of a changed selection: the request before is cleaned up,    *)
(* whatever its stage, and a new one sent.                                 *)
Fetch(c) == transcript' = [conv |-> c, stage |-> "sent", items |-> <<>>]

ListReply ==
  /\ listing = "served"
  /\ listing' = "idle" /\ listReply' = <<>>
  /\ sessions' = listReply
  /\ messagesLoading' = (messagesLoading \/ listReply # <<>>)
  /\ IF activeId = NoConv /\ listReply # <<>>
     THEN activeId' = Head(listReply) /\ Fetch(Head(listReply))
     ELSE UNCHANGED <<activeId, transcript>>
  /\ lateList' = (lateList \/ activeId # NoConv)
  /\ UNCHANGED <<server, selectionNonce, messages, stream, creates, signedIn, overlapped>>

ListFails ==
  /\ listing \in {"sent", "served"}
  /\ listing' = "failed" /\ listReply' = <<>>
  /\ UNCHANGED <<server, sessions, view, stream, creates, signedIn, history>>

Retry ==
  /\ "retry" \in SidebarOffers
  /\ listing' = "sent"
  /\ UNCHANGED <<server, sessions, listReply, view, stream, creates, signedIn, history>>

-----------------------------------------------------------------------------
(* The transcript of the selected conversation.                            *)

ServeTranscript ==
  /\ transcript.stage = "sent"
  /\ transcript' = [transcript EXCEPT !.stage = "served", !.items = stored[transcript.conv]]
  /\ UNCHANGED <<server, sidebar, activeId, selectionNonce, messages, messagesLoading,
                 stream, creates, signedIn, history>>

TranscriptReply ==
  /\ transcript.stage = "served"
  /\ messages' = [i \in DOMAIN transcript.items |-> Loaded(transcript.conv, transcript.items[i])]
  /\ messagesLoading' = FALSE
  /\ transcript' = NoTranscript
  /\ UNCHANGED <<server, sidebar, activeId, selectionNonce, stream, creates, signedIn, history>>

TranscriptFails ==
  /\ transcript # NoTranscript
  /\ messagesLoading' = FALSE
  /\ transcript' = NoTranscript
  /\ UNCHANGED <<server, sidebar, activeId, selectionNonce, messages, stream, creates,
                 signedIn, history>>

-----------------------------------------------------------------------------
(* send: what its try and finally blocks leave behind.                     *)

(* Variant: the stop button is left with a stream that is over. *)
Close_KeepsRef(t, phase, r) ==
  /\ sends' = [sends EXCEPT ![t].phase = phase, ![t].pos = 0, ![t].reader = r]
  /\ streaming' = FALSE
  /\ UNCHANGED abortRef

(* Variant: an error event leaves the page streaming. *)
Close_KeepsStreaming(t, phase, r) ==
  /\ sends' = [sends EXCEPT ![t].phase = phase, ![t].pos = 0, ![t].reader = r]
  /\ streaming' = (streaming /\ r.terminal)
  /\ abortRef'  = NoTurn

Close(t, phase, r) ==
  /\ sends' = [sends EXCEPT ![t].phase = phase, ![t].pos = 0, ![t].reader = r]
  /\ streaming' = FALSE
  /\ abortRef'  = NoTurn

(* What an aborted stream has delivered. *)
Partial(t) ==
  IF HasText(sends[t].reader.events)
  THEN <<Answer(sends[t].conv, t, sends[t].reader.events)>> ELSE <<>>

(* The stream the stop button would stop is aborted; its text is kept at   *)
(* the end of whatever messages are shown by then.                         *)
AbortInto(shown) ==
  IF abortRef = NoTurn
  THEN messages' = shown /\ UNCHANGED stream
  ELSE /\ messages' = shown \o Partial(abortRef)
       /\ Close(abortRef, "stopped", NewReader)

Begin(t, c, shown) ==
  /\ messages' = Append(shown, Question(c, t))
  /\ sends' = [sends EXCEPT ![t].phase = "posting", ![t].conv = c,
                            ![t].fresh = (sends[t].phase = "creating")]
  /\ streaming' = TRUE
  /\ abortRef' = t
  /\ overlapped' = (overlapped \/ \E o \in Turns : Alive(o))

Unasked == {t \in Turns : sends[t].phase = "idle"}

(* Variant: the request for the transcript is left alone. *)
SendNow_NoAbort(t) == Begin(t, activeId, messages) /\ UNCHANGED <<transcript, messagesLoading>>

(* With a conversation: a transcript request that is there is aborted, and *)
(* its end ends the loading state.                                         *)
SendNow(t) ==
  /\ Begin(t, activeId, messages)
  /\ transcript' = NoTranscript
  /\ messagesLoading' = (messagesLoading /\ transcript = NoTranscript)

(* A question from the composer or, in an empty conversation, one of the   *)
(* suggested ones.  Without a conversation the call waits for one.         *)
Send(t) ==
  /\ ComposerOffers = "send" \/ Pane = "welcome"
  /\ t \in Unasked /\ \A o \in Unasked : t <= o
  /\ \/ activeId # NoConv /\ SendNow(t) /\ UNCHANGED creates
     \/ /\ activeId = NoConv
        /\ sends' = [sends EXCEPT ![t].phase = "creating"]
        /\ creates' = creates \cup {[by |-> t, scope |-> "personal", conv |-> NoConv]}
        /\ UNCHANGED <<transcript, messages, messagesLoading, streaming, abortRef, overlapped>>
  /\ UNCHANGED <<server, sidebar, activeId, selectionNonce, signedIn, lateList>>

-----------------------------------------------------------------------------
(* New conversations.                                                      *)

Pending == Cardinality({r \in creates : r.conv = NoConv})

(* One click on a New button at a time is modelled. *)
New(scope) ==
  /\ (IF scope = "admin" THEN "new_admin" ELSE "new") \in SidebarOffers
  /\ \A r \in creates : r.by # NoTurn
  /\ Len(stored) + Pending < MaxConvs
  /\ creates' = creates \cup {[by |-> NoTurn, scope |-> scope, conv |-> NoConv]}
  /\ UNCHANGED <<server, sidebar, view, stream, signedIn, history>>

ServeCreate(r) ==
  /\ r.conv = NoConv /\ Len(stored) < MaxConvs
  /\ stored'  = Append(stored, <<>>)
  /\ scopeOf' = Append(scopeOf, r.scope)
  /\ creates' = (creates \ {r}) \cup {[r EXCEPT !.conv = Len(stored) + 1]}
  /\ UNCHANGED <<sidebar, view, stream, signedIn, history>>

ListFirst(c) == sessions' = <<c>> \o sessions

(* ensureSession, and the rest of the call of send that waits for it; the  *)
(* effect of the new selection runs after both.  A list may have arrived   *)
(* before, and have selected the new conversation already.                 *)
CreateReply(r) ==
  /\ r.conv # NoConv
  /\ creates' = creates \ {r}
  /\ ListFirst(r.conv)
  /\ activeId' = r.conv
  /\ messagesLoading' = FALSE
  /\ \/ r.by = NoTurn /\ messages' = <<>> /\ UNCHANGED <<stream, overlapped>>
     \/ r.by # NoTurn /\ Begin(r.by, r.conv, <<>>)
  /\ CASE activeId # r.conv -> Fetch(r.conv)
       [] activeId = r.conv /\ r.by = NoTurn -> UNCHANGED transcript
       [] activeId = r.conv /\ r.by # NoTurn -> transcript' = NoTranscript
  /\ UNCHANGED <<server, listing, listReply, selectionNonce, signedIn, lateList>>

CreateFails(r) ==
  /\ creates' = creates \ {r}
  /\ sends' = IF r.by = NoTurn THEN sends ELSE [sends EXCEPT ![r.by].phase = "failed"]
  /\ UNCHANGED <<server, sidebar, view, streaming, abortRef, signedIn, history>>

-----------------------------------------------------------------------------
(* Variant: the request for the conversation before is left alone. *)
Select_KeepsRequest(c) ==
  /\ c \in Selectable /\ selectionNonce < MaxSelects
  /\ AbortInto(<<>>)
  /\ messagesLoading' = TRUE
  /\ activeId' = c /\ selectionNonce' = selectionNonce + 1
  /\ IF transcript = NoTranscript THEN Fetch(c) ELSE UNCHANGED transcript
  /\ UNCHANGED <<server, sidebar, creates, signedIn, history>>

Select(c) ==
  /\ c \in Selectable /\ selectionNonce < MaxSelects
  /\ AbortInto(<<>>)
  /\ messagesLoading' = TRUE
  /\ activeId' = c /\ selectionNonce' = selectionNonce + 1
  /\ Fetch(c)
  /\ UNCHANGED <<server, sidebar, creates, signedIn, history>>

Stop ==
  /\ ComposerOffers = "stop" /\ abortRef # NoTurn
  /\ AbortInto(messages)
  /\ UNCHANGED <<server, sidebar, activeId, selectionNonce, transcript, messagesLoading,
                 creates, signedIn, history>>

-----------------------------------------------------------------------------
(* The streamed answer.                                                    *)

(* The question is stored before anything is answered. *)
ServePost(t) ==
  /\ sends[t].phase = "posting"
  /\ stored' = [stored EXCEPT ![sends[t].conv] = Append(@, Stored(t, "user"))]
  /\ \E b \in Bodies : sends' = [sends EXCEPT ![t].phase = "reading", ![t].body = b]
  /\ UNCHANGED <<scopeOf, sidebar, view, streaming, abortRef, creates, signedIn, history>>

(* Only a body that is complete is stored as an answer, and only then. *)
SaveAnswer(t) ==
  /\ ~sends[t].saved /\ "done" \in Range(sends[t].body)
  /\ stored' = [stored EXCEPT ![sends[t].conv] = Append(@, Stored(t, "assistant"))]
  /\ sends'  = [sends EXCEPT ![t].saved = TRUE]
  /\ UNCHANGED <<scopeOf, sidebar, view, streaming, abortRef, creates, signedIn, history>>

Remaining(t) == SubSeq(sends[t].body, sends[t].pos + 1, Len(sends[t].body))

(* A chunk without an error event. *)
Chunk(t) ==
  /\ sends[t].phase = "reading"
  /\ \E n \in DOMAIN Remaining(t) :
       LET r == Consume(sends[t].reader, SubSeq(Remaining(t), 1, n))
       IN  /\ ~r.terminal
           /\ sends' = [sends EXCEPT ![t].pos = @ + n, ![t].reader = r]
  /\ UNCHANGED <<server, sidebar, view, streaming, abortRef, creates, signedIn, history>>

(* The stream resolves, by the first error event or the end of the body:   *)
(* the answer is appended in either case, even an empty one.               *)
StreamEnds(t) ==
  /\ sends[t].phase = "reading"
  /\ \E r \in {Consume(sends[t].reader, SubSeq(Remaining(t), 1, n)) : n \in DOMAIN Remaining(t)}
               \cup (IF Remaining(t) = <<>> THEN {Flush(sends[t].reader)} ELSE {}) :
       /\ r.terminal \/ Remaining(t) = <<>>
       /\ messages' = Append(messages, Answer(sends[t].conv, t, r.events))
       /\ Close(t, "answered", r)
  /\ UNCHANGED <<server, sidebar, activeId, selectionNonce, transcript, messagesLoading,
                 creates, signedIn, history>>

(* The request is refused, is not answered by an event stream, or the      *)
(* connection breaks: nothing of the answer is kept.                       *)
StreamFails(t) ==
  /\ Alive(t)
  /\ Close(t, "failed", NewReader)
  /\ UNCHANGED <<server, sidebar, view, creates, signedIn, history>>

(* Answered 401: the page is left. *)
SessionExpired(t) ==
  /\ sends[t].phase = "posting"
  /\ signedIn' = FALSE
  /\ Close(t, "failed", NewReader)
  /\ UNCHANGED <<server, sidebar, view, creates, history>>

-----------------------------------------------------------------------------
User ==
  \/ Retry \/ Stop
  \/ \E c \in Convs : Select(c)
  \/ \E s \in Scopes : New(s)
  \/ \E t \in Turns : Send(t)

Creation(r) == CreateReply(r) \/ CreateFails(r)

(* A signed-out page is left for the login page. *)
Next ==
  /\ signedIn
  /\ \/ User
     \/ ServeList \/ ListReply \/ ListFails
     \/ ServeTranscript \/ TranscriptReply \/ TranscriptFails
     \/ \E r \in creates : ServeCreate(r) \/ Creation(r)
     \/ \E t \in Turns : \/ ServePost(t) \/ SaveAnswer(t) \/ Chunk(t)
                         \/ StreamEnds(t) \/ StreamFails(t) \/ SessionExpired(t)

Spec == Init /\ [][Next]_vars

(* The server answers, and the browser runs what has arrived.  Neither a   *)
(* click nor a failure is owed.                                            *)
NetworkFairness ==
  \A t \in Turns : WF_vars(signedIn /\ (ServePost(t) \/ Chunk(t) \/ StreamEnds(t)))

FairSpec == Spec /\ NetworkFairness

-----------------------------------------------------------------------------
(* Properties.                                                             *)

StoredMessages == [turn : Turns \cup {NoTurn}, role : {"user", "assistant"}]
Messages ==
  [turn : Turns \cup {NoTurn}, role : {"user", "assistant"}, conv : Convs, local : BOOLEAN,
   events : Seq({"delta", "citations", "done", "error"})]
Sends ==
  [phase  : {"idle", "creating", "posting", "reading", "answered", "stopped", "failed"},
   conv   : Convs \cup {NoConv}, fresh : BOOLEAN, body : Bodies \cup {<<>>}, pos : Nat,
   reader : [buffer : Seq(Symbols), events : Seq({"delta", "citations", "done", "error"}),
             terminal : BOOLEAN],
   saved  : BOOLEAN]

TypeOK ==
  /\ stored \in Seq(Seq(StoredMessages)) /\ Len(stored) <= MaxConvs
  /\ scopeOf \in Seq(Scopes) /\ Len(scopeOf) = Len(stored)
  /\ sessions \in Seq(Convs) /\ listReply \in Seq(Convs)
  /\ listing \in {"sent", "served", "failed", "idle"}
  /\ activeId \in Convs \cup {NoConv} /\ selectionNonce \in 0..MaxSelects
  /\ transcript \in [conv : Convs \cup {NoConv}, stage : {"none", "sent", "served"},
                     items : Seq(StoredMessages)]
  /\ messages \in Seq(Messages)
  /\ abortRef \in Turns \cup {NoTurn}
  /\ sends \in [Turns -> Sends]
  /\ creates \subseteq [by : Turns \cup {NoTurn}, scope : Scopes, conv : Convs \cup {NoConv}]
  /\ {messagesLoading, streaming, signedIn, overlapped, lateList} \subseteq BOOLEAN

(* However the network cuts the body, the events passed on are those of    *)
(* the lines received so far, none after an error and none twice; and an   *)
(* answer that has ended has all of them, the last line included           *)
(* (api.test.ts:34-79).                                                    *)
EventsAsSent ==
  \A t \in Turns :
    LET s == sends[t]
    IN  /\ s.phase = "reading" =>
             s.reader.events = EventsDue(SubSeq(s.body, 1, s.pos))
        /\ s.phase = "answered" => s.reader.events = EventsDue(Append(s.body, LF))

(* The badge names the scope questions are answered in, as long as no list *)
(* that was asked for before has replaced the sidebar's.                   *)
BadgeShowsScope == activeId # NoConv /\ ~lateList => ShownScope = scopeOf[activeId]

(* What is shown belongs to the selected conversation, whatever replies    *)
(* were on their way when it was selected, and so does the badge; only a   *)
(* streamed answer may be shown elsewhere: New does not stop a stream, and *)
(* stopping it by selecting keeps its text (page.tsx:210, 226).            *)
ShownBelongs ==
  /\ transcript # NoTranscript => transcript.conv = activeId
  /\ \A m \in Range(messages) : m.conv = activeId \/ (m.local /\ m.role = "assistant")
  /\ BadgeShowsScope

(* Two streams are alive at once only if one of them had to wait for its   *)
(* conversation, which the guard of send does not see; until then what is  *)
(* streaming is what the stop button and the selection abort.              *)
StopReaches ==
  IF overlapped
  THEN \E t \in Turns : sends[t].fresh
  ELSE /\ {t \in Turns : Alive(t)} = IF streaming THEN {abortRef} ELSE {}
       /\ streaming <=> abortRef # NoTurn

(* A conversation that is shown as loading is being loaded, so that it     *)
(* does not stay so.  A list that arrives when a conversation is selected  *)
(* puts the page there with no request to end it (page.tsx:78).            *)
LoadingIsLoading == messagesLoading => transcript # NoTranscript \/ lateList

(* Nothing stays busy: what is shown as loading or streaming has a request *)
(* behind it that ends it, and that the stop button or a selection reaches. *)
BusyIsBusy == LoadingIsLoading /\ StopReaches

(* Once shown, a question asked in a conversation stays until another one  *)
(* is selected or created, whatever transcript was on its way; but the     *)
(* question that created its conversation (FirstMessageKept).              *)
Selected == <<activeId, selectionNonce, creates>>

Keeps(m) ==
  (m.local /\ m.role = "user" /\ Selected' = Selected)
    => \E n \in Range(messages') : n.turn = m.turn /\ n.role = "user"

QuestionKept ==
  [][\A m \in Range(messages) : Keeps(m) \/ sends[m.turn].fresh]_vars

(* page.tsx:58-61: "a late response for the current selection would        *)
(* otherwise wipe a first message sent right after the conversation was    *)
(* created".                                                               *)
FirstMessageKept == [][\A m \in Range(messages) : Keeps(m)]_vars

(* No turn is shown twice, as the server's copy and as the local one.      *)
ShownOnce ==
  \A i, j \in DOMAIN messages :
    /\ i < j /\ messages[i].turn = messages[j].turn /\ messages[i].role = messages[j].role
    => overlapped \/ sends[messages[i].turn].fresh

(* The composer comes back. *)
StreamingEnds == streaming ~> ~streaming
=============================================================================
