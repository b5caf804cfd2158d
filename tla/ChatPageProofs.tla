--------------------------- MODULE ChatPageProofs ---------------------------
(***************************************************************************)
(* The chat page, for any number of conversations, questions and           *)
(* selections, and whatever bodies a server answers with: what is shown    *)
(* belongs to the selection, nothing stays busy, and a question that is    *)
(* shown stays.                                                            *)
(*                                                                         *)
(* The proof has three layers.  ViewInv is about what is shown: it holds   *)
(* whatever the streams do, since all a stream adds is an answer.          *)
(* StreamInv is about the calls of send alone.  QuestionInv ties the two:  *)
(* while a transcript is on its way, the only questions it could wipe are  *)
(* those that created their conversation.                                  *)
(***************************************************************************)
EXTENDS ChatPage, ChatStreamProofs

-----------------------------------------------------------------------------
(* What sequences hold.                                                    *)

LEMMA NoneHeld == <<>> \in Seq(Range(<<>>)) /\ Range(<<>>) = {}
BY DEF Range

LEMMA AppendHolds ==
  ASSUME NEW S, NEW s \in Seq(S), NEW x
  PROVE  /\ Append(s, x) \in Seq(S \cup {x})
         /\ Range(Append(s, x)) = Range(s) \cup {x}
         /\ s \o <<x>> = Append(s, x)
<1>1. s \in Seq(S \cup {x}) /\ <<x>> \in Seq(S \cup {x})
  BY SeqMonotonic
<1>2. Append(s, x) = s \o <<x>>
  BY <1>1, AppendIsConcat
<1>3. Range(<<x>>) = {x}
  BY DEF Range
<1>4. Range(s \o <<x>>) = Range(s) \cup Range(<<x>>)
  <2> DEFINE one == <<x>>
             T == S \cup {x}
  <2>1. s \in Seq(T) /\ one \in Seq(T)
    BY <1>1
  <2> HIDE DEF one, T
  <2>2. Range(s \o one) = Range(s) \cup Range(one)
    BY <2>1, RangeConcatenation
  <2> QED
    BY <2>2 DEF one
<1>5. s \o <<x>> \in Seq(S \cup {x})
  BY <1>1, ConcatProperties
<1> QED
  BY <1>2, <1>3, <1>4, <1>5

(* A sequence of its own elements is one with another element. *)
LEMMA OwnElements ==
  ASSUME NEW s, s \in Seq(Range(s)), NEW x
  PROVE  /\ Append(s, x) \in Seq(Range(Append(s, x)))
         /\ Range(Append(s, x)) = Range(s) \cup {x}
         /\ s \o <<x>> = Append(s, x)
<1> DEFINE R == Range(s)
<1>1. s \in Seq(R)
  OBVIOUS
<1> HIDE DEF R
<1>2. /\ Append(s, x) \in Seq(R \cup {x})
      /\ Range(Append(s, x)) = Range(s) \cup {x}
      /\ s \o <<x>> = Append(s, x)
  BY <1>1, AppendHolds
<1> QED
  BY <1>2 DEF R

-----------------------------------------------------------------------------
(* The invariant.                                                          *)

Known == 1..Len(stored)

IsAnswer(m) == m.local /\ m.role = "assistant"
IsQuestion(m) == m.local /\ m.role = "user"

(* The types that the argument needs: every conversation the page knows of *)
(* exists on the server.                                                   *)
Shape ==
  /\ stored \in Seq(Seq(StoredMessages)) /\ scopeOf \in Seq(Scopes)
  /\ Len(scopeOf) = Len(stored)
  /\ sessions \in Seq(Known) /\ listReply \in Seq(Known)
  /\ activeId \in {NoConv} \cup Known
  /\ transcript \in [conv : {NoConv} \cup Known, stage : {"none", "sent", "served"},
                     items : Seq(StoredMessages)]
  /\ messages \in Seq(Range(messages))
  /\ \A r \in creates :
       /\ r = [by |-> r.by, scope |-> r.scope, conv |-> r.conv]
       /\ r.conv \in {NoConv} \cup Known /\ r.scope \in Scopes

(* Messages that are no answers belong to a selected conversation, and so  *)
(* does a transcript on its way.                                           *)
Belonging ==
  /\ transcript # NoTranscript => transcript.conv = activeId /\ activeId # NoConv
  /\ \A m \in Range(messages) : IsAnswer(m) \/ (m.conv = activeId /\ activeId # NoConv)

Listing == activeId # NoConv /\ ~lateList => activeId \in Range(sessions)

ViewInv == Shape /\ Belonging /\ Listing /\ LoadingIsLoading

(* A call of send holds its fields, whatever is in them. *)
IsCall(s) ==
  s = [phase |-> s.phase, conv |-> s.conv, fresh |-> s.fresh, body |-> s.body, pos |-> s.pos,
       reader |-> s.reader, saved |-> s.saved]

SendsAre(s) == s = [t \in Turns |-> s[t]] /\ \A t \in Turns : IsCall(s[t])

(* A call that has not begun has shown nothing; a creation belongs to one  *)
(* call, which waits for it.                                               *)
Waiting == {"idle", "creating"}

Calls ==
  /\ SendsAre(sends)
  /\ \A t \in Turns : sends[t].fresh \in BOOLEAN /\ (sends[t].fresh => sends[t].phase \notin Waiting)
  /\ \A r \in creates : /\ r = [by |-> r.by, scope |-> r.scope, conv |-> r.conv]
                        /\ r.by \in Turns \cup {NoTurn}
                        /\ r.by # NoTurn => sends[r.by].phase = "creating"
  /\ \A r, o \in creates : r.by = o.by /\ r.by # NoTurn => r = o

Streaming ==
  /\ abortRef \in Turns \cup {NoTurn} /\ streaming \in BOOLEAN /\ overlapped \in BOOLEAN
  /\ abortRef # NoTurn => sends[abortRef].phase \notin Waiting
  /\ StopReaches

StreamInv == Calls /\ Streaming

QuestionInv ==
  /\ selectionNonce \in Nat
  /\ \A m \in Range(messages) : IsQuestion(m) =>
       /\ m.turn \in Turns /\ sends[m.turn].phase \notin Waiting
       /\ transcript # NoTranscript => sends[m.turn].fresh

IndInv == ViewInv /\ StreamInv /\ QuestionInv

-----------------------------------------------------------------------------
(* What is shown.                                                          *)

OnlyAnswersAdded(shown) ==
  /\ messages' \in Seq(Range(messages'))
  /\ Range(shown) \subseteq Range(messages')
  /\ \A m \in Range(messages') : m \in Range(shown) \/ IsAnswer(m)

(* A stopped stream adds its answer, or nothing. *)
LEMMA AbortAddsAnswers ==
  ASSUME NEW shown, shown \in Seq(Range(shown)), AbortInto(shown)
  PROVE  OnlyAnswersAdded(shown)
<1>1. CASE abortRef = NoTurn
  BY <1>1 DEF AbortInto, OnlyAnswersAdded
<1>2. CASE abortRef # NoTurn
  <2>1. messages' = shown \o Partial(abortRef)
    BY <1>2 DEF AbortInto
  <2>2. CASE Partial(abortRef) = <<>>
    <3>1. messages' = shown
      BY <2>1, <2>2, ConcatEmptySeq
    <3> QED
      BY <3>1 DEF OnlyAnswersAdded
  <2>3. CASE Partial(abortRef) # <<>>
    <3> DEFINE a == Answer(sends[abortRef].conv, abortRef, sends[abortRef].reader.events)
    <3>1. Partial(abortRef) = <<a>> /\ IsAnswer(a)
      BY <2>3 DEF Partial, IsAnswer, Answer
    <3> HIDE DEF a
    <3>2. messages' = Append(shown, a)
      BY <2>1, <3>1, OwnElements
    <3>3. messages' \in Seq(Range(messages')) /\ Range(messages') = Range(shown) \cup {a}
      BY <3>2, OwnElements
    <3> QED
      BY <3>1, <3>3 DEF OnlyAnswersAdded
  <2> QED
    BY <2>2, <2>3
<1> QED
  BY <1>1, <1>2

(* So does one that has ended. *)
LEMMA StreamEndAddsAnswer ==
  ASSUME messages \in Seq(Range(messages)), NEW t, StreamEnds(t)
  PROVE  OnlyAnswersAdded(messages)
<1>1. PICK e : messages' = Append(messages, Answer(sends[t].conv, t, e))
  BY DEF StreamEnds
<1> DEFINE a == Answer(sends[t].conv, t, e)
<1>2. IsAnswer(a)
  BY DEF IsAnswer, Answer
<1> HIDE DEF a
<1>3. messages' = Append(messages, a)
  BY <1>1 DEF a
<1>4. messages' \in Seq(Range(messages')) /\ Range(messages') = Range(messages) \cup {a}
  BY <1>3, OwnElements
<1> QED
  BY <1>2, <1>4 DEF OnlyAnswersAdded

LEMMA NothingAdded ==
  ASSUME messages \in Seq(Range(messages)), UNCHANGED messages
  PROVE  OnlyAnswersAdded(messages)
BY DEF OnlyAnswersAdded

(* Where only answers are added, and no conversation is lost. *)
LEMMA ViewKept ==
  ASSUME ViewInv, OnlyAnswersAdded(messages),
         UNCHANGED <<sessions, activeId, transcript, messagesLoading, lateList>>,
         listReply' \in Seq(Known),
         stored' \in Seq(Seq(StoredMessages)), scopeOf' \in Seq(Scopes),
         Len(stored') = Len(stored), Len(scopeOf') = Len(scopeOf),
         \A r \in creates' :
           /\ r = [by |-> r.by, scope |-> r.scope, conv |-> r.conv]
           /\ r.conv \in {NoConv} \cup Known /\ r.scope \in Scopes
  PROVE  ViewInv'
<1> USE DEF ViewInv, OnlyAnswersAdded
<1>1. Shape'
  BY DEF Shape, Known
<1>2. Belonging'
  BY DEF Belonging, NoTranscript, IsAnswer
<1>3. Listing' /\ LoadingIsLoading'
  BY DEF Listing, LoadingIsLoading, NoTranscript
<1> QED
  BY <1>1, <1>2, <1>3

(* A reply is stored with a conversation that exists. *)
LEMMA StoredGrows ==
  ASSUME stored \in Seq(Seq(StoredMessages)), NEW c, NEW m \in StoredMessages,
         stored' = [stored EXCEPT ![c] = Append(@, m)]
  PROVE  stored' \in Seq(Seq(StoredMessages)) /\ Len(stored') = Len(stored)
<1>1. CASE c \in 1..Len(stored)
  <2>1. Append(stored[c], m) \in Seq(StoredMessages)
    BY <1>1
  <2> QED
    BY <1>1, <2>1, ExceptSeq
<1>2. CASE c \notin 1..Len(stored)
  <2>1. stored' = stored
    BY <1>2
  <2> QED
    BY <2>1
<1> QED
  BY <1>1, <1>2

(* The steps that add answers at most: what a stream does, and what does   *)
(* not concern the view.                                                   *)
LEMMA StreamsKeepView ==
  ASSUME ViewInv, NEW t \in Turns,
         ServePost(t) \/ SaveAnswer(t) \/ Chunk(t) \/ StreamEnds(t) \/ StreamFails(t)
           \/ SessionExpired(t) \/ Stop
  PROVE  ViewInv'
<1> USE DEF sidebar, view, server, history
<1>0. ViewInv /\ Shape /\ messages \in Seq(Range(messages)) /\ listReply \in Seq(Known)
  BY DEF ViewInv, Shape
<1>1. CASE UNCHANGED server
  <2>1. OnlyAnswersAdded(messages)
    <3>1. CASE StreamEnds(t)
      BY <1>0, <3>1, StreamEndAddsAnswer
    <3>2. CASE Stop
      BY <1>0, <3>2, AbortAddsAnswers DEF Stop
    <3>3. CASE Chunk(t) \/ StreamFails(t) \/ SessionExpired(t) \/ ServePost(t) \/ SaveAnswer(t)
      BY <1>0, <3>3, NothingAdded DEF Chunk, StreamFails, SessionExpired, ServePost, SaveAnswer
    <3> QED
      BY <3>1, <3>2, <3>3
  <2>2. UNCHANGED <<sessions, activeId, transcript, messagesLoading, lateList, listReply, creates>>
    BY DEF ServePost, SaveAnswer, Chunk, StreamEnds, StreamFails, SessionExpired, Stop
  <2> QED
    BY <1>0, <1>1, <2>1, <2>2, ViewKept DEF Shape
<1>2. CASE ServePost(t) \/ SaveAnswer(t)
  <2>1. /\ Stored(t, "user") \in StoredMessages
        /\ Stored(t, "assistant") \in StoredMessages
    BY DEF Stored, StoredMessages
  <2>2. stored' \in Seq(Seq(StoredMessages)) /\ Len(stored') = Len(stored)
    <3>1. CASE ServePost(t)
      BY <1>0, <2>1, <3>1, StoredGrows DEF ServePost, Shape
    <3>2. CASE SaveAnswer(t)
      BY <1>0, <2>1, <3>2, StoredGrows DEF SaveAnswer, Shape
    <3> QED
      BY <1>2, <3>1, <3>2
  <2>3. UNCHANGED <<sessions, activeId, transcript, messages, messagesLoading, lateList, listReply,
                    creates, scopeOf>>
    BY <1>2 DEF ServePost, SaveAnswer
  <2>4. OnlyAnswersAdded(messages)
    BY <1>0, <2>3, NothingAdded
  <2> QED
    BY <1>0, <2>2, <2>3, <2>4, ViewKept DEF Shape
<1> QED
  BY <1>1, <1>2 DEF Chunk, StreamEnds, StreamFails, SessionExpired, Stop

LEMMA ListKeepsView ==
  ASSUME ViewInv, ServeList \/ ListFails \/ Retry
  PROVE  ViewInv'
<1>1. ViewInv /\ Shape /\ OnlyAnswersAdded(messages)
  BY NothingAdded DEF ViewInv, Shape, ServeList, ListFails, Retry, view
<1>2. UNCHANGED <<sessions, activeId, transcript, messagesLoading, lateList, stored, scopeOf, creates>>
  BY DEF ServeList, ListFails, Retry, view, server, history
<1>3. listReply' \in Seq(Known)
  <2>1. CASE ServeList
    <3> DEFINE all == [c \in DOMAIN stored |-> c]
    <3>1. DOMAIN stored = Known /\ Len(stored) \in Nat
      BY <1>1 DEF Shape, Known
    <3>2. all \in Seq(Known)
      BY <3>1 DEF Known
    <3>3. Reverse(all) \in Seq(Known)
      BY <3>2 DEF Reverse
    <3> QED
      BY <2>1, <3>3 DEF ServeList
  <2>2. CASE ListFails
    BY <2>2, EmptySeq DEF ListFails
  <2>3. CASE Retry
    BY <1>1, <2>3 DEF Retry, Shape
  <2> QED
    BY <2>1, <2>2, <2>3
<1> QED
  BY <1>1, <1>2, <1>3, ViewKept DEF Shape

(* A list that arrives selects its first conversation if none is selected. *)
LEMMA ListReplyKeepsView ==
  ASSUME ViewInv, ListReply
  PROVE  ViewInv'
<1>1. ViewInv /\ Shape /\ NoConv \notin Known
  BY DEF ViewInv, Known, NoConv
<1>2. /\ sessions' = listReply /\ listReply' = <<>>
      /\ UNCHANGED <<stored, scopeOf, messages, creates>>
  BY DEF ListReply, server
<1>3. CASE activeId = NoConv /\ listReply # <<>>
  <2> DEFINE first == Head(listReply)
  <2>1. first \in Known /\ first \in Range(listReply)
    <3>1. 1 \in DOMAIN listReply /\ first = listReply[1] /\ listReply[1] \in Known
      BY <1>1, <1>3 DEF Shape
    <3> QED
      BY <3>1 DEF Range
  <2>2. activeId' = first /\ transcript' = [conv |-> first, stage |-> "sent", items |-> <<>>]
    BY <1>3 DEF ListReply, Fetch
  <2> HIDE DEF first
  <2>3. transcript' \in [conv : {NoConv} \cup Known, stage : {"none", "sent", "served"},
                         items : Seq(StoredMessages)]
    BY <2>1, <2>2, EmptySeq
  <2>4. Shape'
    BY <1>1, <1>2, <2>1, <2>2, <2>3, EmptySeq DEF Shape, Known
  <2>5. Belonging'
    BY <1>1, <1>2, <1>3, <2>1, <2>2 DEF ViewInv, Belonging, IsAnswer
  <2>6. Listing' /\ LoadingIsLoading'
    BY <1>2, <2>1, <2>2 DEF Listing, LoadingIsLoading, NoTranscript
  <2> QED
    BY <2>4, <2>5, <2>6 DEF ViewInv
<1>4. CASE activeId # NoConv \/ listReply = <<>>
  <2>1. UNCHANGED <<activeId, transcript>>
    BY <1>4 DEF ListReply
  <2>2. Shape'
    BY <1>1, <1>2, <2>1, EmptySeq DEF Shape, Known
  <2>3. Belonging'
    BY <1>1, <1>2, <2>1 DEF ViewInv, Belonging, IsAnswer, NoTranscript
  <2>4. CASE activeId # NoConv
    <3>1. lateList'
      BY <2>4, Zenon DEF ListReply
    <3> QED
      BY <2>2, <2>3, <3>1 DEF ViewInv, Listing, LoadingIsLoading
  <2>5. CASE activeId = NoConv
    <3>1. (messagesLoading' => messagesLoading) /\ (lateList => lateList')
      BY <1>4, <2>5, Zenon DEF ListReply
    <3>2. Listing' /\ LoadingIsLoading'
      BY <1>1, <2>1, <2>5, <3>1 DEF ViewInv, Listing, LoadingIsLoading, NoTranscript
    <3> QED
      BY <2>2, <2>3, <3>2 DEF ViewInv
  <2> QED
    BY <2>4, <2>5
<1> QED
  BY <1>3, <1>4

(* A transcript is one of the conversation that is selected. *)
LEMMA TranscriptKeepsView ==
  ASSUME ViewInv, ServeTranscript \/ TranscriptReply \/ TranscriptFails
  PROVE  ViewInv'
<1>1. ViewInv /\ Shape /\ UNCHANGED <<stored, scopeOf, sessions, listReply, activeId, creates, lateList>>
  BY DEF ViewInv, ServeTranscript, TranscriptReply, TranscriptFails, server, sidebar, history
<1>2. /\ <<>> \in Seq(StoredMessages) /\ NoConv \in {NoConv} \cup Known
      /\ NoTranscript \in [conv : {NoConv} \cup Known, stage : {"none", "sent", "served"},
                           items : Seq(StoredMessages)]
  BY EmptySeq DEF NoTranscript
<1>3. CASE ServeTranscript
  <2>1. /\ transcript.conv \in Known
        /\ transcript' = [conv |-> transcript.conv, stage |-> "served", items |-> stored[transcript.conv]]
    <3>1. transcript # NoTranscript
      BY <1>3 DEF ServeTranscript, NoTranscript
    <3>2. transcript.conv \in Known
      BY <1>1, <3>1 DEF ViewInv, Belonging, Shape
    <3>3. transcript' = [transcript EXCEPT !.stage = "served", !.items = stored[transcript.conv]]
      BY <1>3 DEF ServeTranscript
    <3>4. transcript = [conv |-> transcript.conv, stage |-> transcript.stage, items |-> transcript.items]
      BY <1>1 DEF Shape
    <3> QED
      BY <3>2, <3>3, <3>4
  <2>2. stored[transcript.conv] \in Seq(StoredMessages)
    BY <1>1, <2>1 DEF Shape, Known
  <2>3. UNCHANGED <<messages, messagesLoading>> /\ transcript # NoTranscript
    BY <1>3 DEF ServeTranscript, NoTranscript
  <2>4. Shape'
    BY <1>1, <2>1, <2>2, <2>3 DEF Shape, Known
  <2>5. Belonging' /\ Listing' /\ LoadingIsLoading'
    BY <1>1, <2>1, <2>3 DEF ViewInv, Belonging, Listing, LoadingIsLoading, NoTranscript, IsAnswer
  <2> QED
    BY <2>4, <2>5 DEF ViewInv
<1>4. CASE TranscriptReply
  <2> DEFINE shown == [i \in DOMAIN transcript.items |-> Loaded(transcript.conv, transcript.items[i])]
  <2>1. transcript' = NoTranscript /\ messages' = shown /\ messagesLoading' = FALSE
    BY <1>4 DEF TranscriptReply
  <2>2. transcript # NoTranscript /\ transcript.conv = activeId /\ activeId # NoConv
    BY <1>1, <1>4 DEF TranscriptReply, NoTranscript, ViewInv, Belonging
  <2>3. shown \in Seq(Range(shown))
    <3>1. Len(transcript.items) \in Nat /\ DOMAIN shown = 1..Len(transcript.items)
      BY <1>1 DEF Shape
    <3> HIDE DEF shown
    <3>2. shown = [i \in 1..Len(transcript.items) |-> shown[i]] /\ \A i \in DOMAIN shown : shown[i] \in Range(shown)
      BY <3>1 DEF shown, Range
    <3> QED
      BY <3>1, <3>2
  <2>4. \A m \in Range(shown) : m.conv = activeId
    <3>1. ASSUME NEW m \in Range(shown) PROVE m.conv = activeId
      <4>1. PICK i \in DOMAIN transcript.items : m = Loaded(transcript.conv, transcript.items[i])
        BY <3>1 DEF Range
      <4> QED
        BY <4>1, <2>2 DEF Loaded
    <3> QED
      BY <3>1
  <2> HIDE DEF shown
  <2>5. Shape'
    BY <1>1, <1>2, <2>1, <2>3 DEF Shape, Known
  <2>6. Belonging' /\ Listing' /\ LoadingIsLoading'
    BY <1>1, <2>1, <2>2, <2>4 DEF ViewInv, Belonging, Listing, LoadingIsLoading
  <2> QED
    BY <2>5, <2>6 DEF ViewInv
<1>5. CASE TranscriptFails
  <2>1. transcript' = NoTranscript /\ UNCHANGED messages /\ messagesLoading' = FALSE
    BY <1>5 DEF TranscriptFails
  <2>2. Shape'
    BY <1>1, <1>2, <2>1 DEF Shape, Known
  <2>3. Belonging' /\ Listing' /\ LoadingIsLoading'
    BY <1>1, <2>1 DEF ViewInv, Belonging, Listing, LoadingIsLoading, IsAnswer
  <2> QED
    BY <2>2, <2>3 DEF ViewInv
<1> QED
  BY <1>3, <1>4, <1>5

(* A question belongs to the conversation that is selected when it is      *)
(* shown.                                                                  *)
LEMMA BeginShowsQuestion ==
  ASSUME NEW t, NEW c, NEW shown, shown \in Seq(Range(shown)), Begin(t, c, shown)
  PROVE  /\ messages' \in Seq(Range(messages'))
         /\ Range(messages') = Range(shown) \cup {Question(c, t)}
         /\ Question(c, t).conv = c /\ Question(c, t).turn = t /\ IsQuestion(Question(c, t))
<1>1. Question(c, t).conv = c /\ Question(c, t).turn = t /\ IsQuestion(Question(c, t))
  BY DEF Question, IsQuestion
<1>2. messages' = Append(shown, Question(c, t))
  BY DEF Begin
<1> DEFINE q == Question(c, t)
<1> HIDE DEF q
<1>3. messages' \in Seq(Range(messages')) /\ Range(messages') = Range(shown) \cup {q}
  BY <1>2, OwnElements DEF q
<1> QED
  BY <1>1, <1>3 DEF q

LEMMA SendKeepsView ==
  ASSUME ViewInv, NEW t \in Turns, Send(t)
  PROVE  ViewInv'
<1>1. ViewInv /\ Shape
      /\ UNCHANGED <<stored, scopeOf, sessions, listReply, activeId, lateList>>
  BY DEF ViewInv, Send, server, sidebar
<1>2. CASE activeId # NoConv
  <2>1. SendNow(t) /\ UNCHANGED creates
    BY <1>2 DEF Send
  <2>2. /\ messages' \in Seq(Range(messages'))
        /\ Range(messages') = Range(messages) \cup {Question(activeId, t)}
        /\ Question(activeId, t).conv = activeId
    BY <1>1, <2>1, BeginShowsQuestion DEF SendNow, Shape
  <2>3. transcript' = NoTranscript /\ messagesLoading' = (messagesLoading /\ transcript = NoTranscript)
    BY <2>1 DEF SendNow
  <2>4. NoTranscript \in [conv : {NoConv} \cup Known, stage : {"none", "sent", "served"},
                         items : Seq(StoredMessages)]
    BY EmptySeq DEF NoTranscript
  <2>5. Shape'
    BY <1>1, <2>1, <2>2, <2>3, <2>4 DEF Shape, Known
  <2>6. Belonging'
    BY <1>1, <1>2, <2>2, <2>3 DEF ViewInv, Belonging, IsAnswer
  <2>7. messagesLoading' => messagesLoading /\ transcript = NoTranscript
    BY <2>3, Zenon
  <2>8. Listing' /\ LoadingIsLoading'
    BY <1>1, <2>7 DEF ViewInv, Listing, LoadingIsLoading
  <2> QED
    BY <2>5, <2>6, <2>8 DEF ViewInv
<1>3. CASE activeId = NoConv
  <2>1. /\ UNCHANGED <<transcript, messages, messagesLoading>>
        /\ creates' = creates \cup {[by |-> t, scope |-> "personal", conv |-> NoConv]}
    BY <1>3 DEF Send
  <2>2. OnlyAnswersAdded(messages)
    BY <1>1, <2>1, NothingAdded DEF Shape
  <2> QED
    BY <1>1, <2>1, <2>2, ViewKept DEF Shape, Scopes
<1> QED
  BY <1>2, <1>3

(* A conversation that is created is a new one. *)
LEMMA CreationKeepsView ==
  ASSUME ViewInv, NEW r \in creates, ServeCreate(r) \/ CreateFails(r)
  PROVE  ViewInv'
<1>1. ViewInv /\ Shape
      /\ UNCHANGED <<sessions, listReply, activeId, transcript, messages, messagesLoading, lateList>>
  BY DEF ViewInv, ServeCreate, CreateFails, sidebar, view, history
<1>2. CASE ServeCreate(r)
  <2>1. /\ stored' \in Seq(Seq(StoredMessages)) /\ Len(stored') = Len(stored) + 1
        /\ scopeOf' = Append(scopeOf, r.scope)
        /\ creates' = (creates \ {r}) \cup {[r EXCEPT !.conv = Len(stored) + 1]}
    BY <1>1, <1>2, EmptySeq DEF ServeCreate, Shape
  <2>2. r.scope \in Scopes
    BY <1>1 DEF Shape
  <2>3. scopeOf' \in Seq(Scopes) /\ Len(scopeOf') = Len(stored')
    BY <1>1, <2>1, <2>2, AppendProperties DEF Shape
  <2>4. Known \subseteq Known' /\ Len(stored) + 1 \in Known'
    BY <1>1, <2>1 DEF Shape, Known
  <2>5. sessions' \in Seq(Known') /\ listReply' \in Seq(Known')
    BY <1>1, <2>4, SeqMonotonic DEF Shape
  <2>6. ASSUME NEW o \in creates'
        PROVE  o.conv \in {NoConv} \cup Known' /\ o.scope \in Scopes
    <3>1. CASE o \in creates
      BY <1>1, <2>4, <3>1 DEF Shape
    <3>2. CASE o = [r EXCEPT !.conv = Len(stored) + 1]
      <4>1. r = [by |-> r.by, scope |-> r.scope, conv |-> r.conv]
        BY <1>1 DEF Shape
      <4> QED
        BY <2>2, <2>4, <3>2, <4>1
    <3> QED
      BY <2>1, <3>1, <3>2
  <2>7. Shape'
    BY <1>1, <2>1, <2>3, <2>4, <2>5, <2>6 DEF Shape
  <2>8. Belonging' /\ Listing' /\ LoadingIsLoading'
    BY <1>1 DEF ViewInv, Belonging, Listing, LoadingIsLoading, NoTranscript, IsAnswer
  <2> QED
    BY <2>7, <2>8 DEF ViewInv
<1>3. CASE CreateFails(r)
  <2>1. UNCHANGED <<stored, scopeOf>> /\ creates' \subseteq creates
    BY <1>3 DEF CreateFails, server
  <2>2. OnlyAnswersAdded(messages)
    BY <1>1, NothingAdded DEF Shape
  <2> QED
    BY <1>1, <2>1, <2>2, ViewKept DEF Shape
<1> QED
  BY <1>2, <1>3

LEMMA NewKeepsView ==
  ASSUME ViewInv, NEW s \in Scopes, New(s)
  PROVE  ViewInv'
<1>1. ViewInv /\ Shape
      /\ UNCHANGED <<stored, scopeOf, sessions, listReply, activeId, transcript, messages,
                     messagesLoading, lateList>>
      /\ creates' = creates \cup {[by |-> NoTurn, scope |-> s, conv |-> NoConv]}
  BY DEF ViewInv, New, server, sidebar, view, history
<1>2. OnlyAnswersAdded(messages)
  BY <1>1, NothingAdded DEF Shape
<1> QED
  BY <1>1, <1>2, ViewKept DEF Shape

LEMMA CreateReplyKeepsView ==
  ASSUME ViewInv, NEW r \in creates, CreateReply(r)
  PROVE  ViewInv'
<1> DEFINE c == r.conv
<1>1. ViewInv /\ Shape /\ c \in Known /\ c # NoConv
  BY DEF ViewInv, CreateReply, Shape
<1>2. /\ activeId' = c /\ sessions' = <<c>> \o sessions /\ messagesLoading' = FALSE
      /\ creates' = creates \ {r}
      /\ UNCHANGED <<stored, scopeOf, listReply>>
  BY DEF CreateReply, ListFirst, server
<1>3. sessions' \in Seq(Known) /\ Range(sessions') = Range(sessions) \cup {c}
  <2>1. <<c>> \in Seq(Known) /\ sessions \in Seq(Known) /\ Range(<<c>>) = {c}
    BY <1>1 DEF Shape, Range
  <2> DEFINE one == <<c>>
  <2>2. one \in Seq(Known) /\ Range(one) = {c} /\ sessions' = one \o sessions
    BY <1>2, <2>1
  <2> HIDE DEF c, one
  <2>3. Range(one \o sessions) = Range(one) \cup Range(sessions) /\ one \o sessions \in Seq(Known)
    BY <2>1, <2>2, RangeConcatenation, ConcatProperties
  <2> QED
    BY <2>2, <2>3
<1>4. /\ messages' \in Seq(Range(messages'))
      /\ \A m \in Range(messages') : m.conv = c
  <2>1. CASE r.by = NoTurn /\ messages' = <<>>
    BY <2>1, NoneHeld
  <2>2. CASE Begin(r.by, c, <<>>)
    <3> DEFINE none == <<>>
    <3>1. none \in Seq(Range(none)) /\ Range(none) = {} /\ Begin(r.by, c, none)
      BY <2>2, NoneHeld
    <3> HIDE DEF none, c
    <3>2. /\ messages' \in Seq(Range(messages'))
          /\ Range(messages') = Range(none) \cup {Question(c, r.by)}
          /\ Question(c, r.by).conv = c
      BY <3>1, BeginShowsQuestion
    <3> QED
      BY <3>1, <3>2
  <2> QED
    BY <2>1, <2>2 DEF CreateReply
<1>5. /\ transcript' \in [conv : {NoConv} \cup Known, stage : {"none", "sent", "served"},
                          items : Seq(StoredMessages)]
      /\ transcript' # NoTranscript => transcript'.conv = c
  <2>1. CASE Fetch(c)
    BY <1>1, <2>1, EmptySeq DEF Fetch
  <2>2. CASE UNCHANGED transcript /\ activeId = c
    BY <1>1, <2>2 DEF Shape, ViewInv, Belonging
  <2>3. CASE transcript' = NoTranscript
    BY <2>3, EmptySeq DEF NoTranscript
  <2> QED
    BY <2>1, <2>2, <2>3 DEF CreateReply
<1> HIDE DEF c
<1>6. Shape'
  BY <1>1, <1>2, <1>3, <1>4, <1>5 DEF Shape, Known
<1>7. Belonging' /\ Listing' /\ LoadingIsLoading'
  BY <1>1, <1>2, <1>3, <1>4, <1>5 DEF Belonging, Listing, LoadingIsLoading, NoTranscript
<1> QED
  BY <1>6, <1>7 DEF ViewInv

LEMMA SelectKeepsView ==
  ASSUME ViewInv, NEW c, Select(c)
  PROVE  ViewInv'
<1>1. ViewInv /\ Shape
      /\ UNCHANGED <<stored, scopeOf, sessions, listReply, creates, lateList>>
      /\ activeId' = c /\ transcript' = [conv |-> c, stage |-> "sent", items |-> <<>>]
  BY DEF ViewInv, Select, Fetch, server, sidebar, history
<1>2. c \in Range(sessions) /\ c \in Known /\ c # NoConv
  <2>1. c \in Range(sessions)
    BY DEF Select, Selectable
  <2>2. PICK i \in DOMAIN sessions : c = sessions[i]
    BY <2>1 DEF Range
  <2>3. sessions[i] \in Known
    BY <1>1 DEF Shape
  <2> QED
    BY <2>1, <2>2, <2>3 DEF Known, NoConv
<1>3. OnlyAnswersAdded(<<>>)
  BY NoneHeld, AbortAddsAnswers DEF Select
<1>4. Shape'
  BY <1>1, <1>2, <1>3, EmptySeq DEF Shape, Known, OnlyAnswersAdded
<1>5. Belonging' /\ Listing' /\ LoadingIsLoading'
  BY <1>1, <1>2, <1>3, NoneHeld
     DEF ViewInv, Belonging, Listing, LoadingIsLoading, NoTranscript, OnlyAnswersAdded, IsAnswer
<1> QED
  BY <1>4, <1>5 DEF ViewInv

LEMMA ViewStep == ViewInv /\ [Next]_vars => ViewInv'
<1> SUFFICES ASSUME ViewInv, [Next]_vars PROVE ViewInv'
  OBVIOUS
<1>1. CASE UNCHANGED vars
  <2>1. UNCHANGED <<stored, scopeOf, sessions, listReply, activeId, transcript, messages,
                    messagesLoading, creates, lateList>>
    BY <1>1 DEF vars, server, sidebar, view, history
  <2> QED
    BY <2>1 DEF ViewInv, Shape, Known, Belonging, Listing, LoadingIsLoading, NoTranscript, IsAnswer
<1>2. CASE User
  <2>1. CASE Retry
    BY <2>1, ListKeepsView
  <2>2. CASE Stop
    <3>1. 1 \in Turns
      BY ChatAssumption DEF Turns
    <3> QED
      BY <2>2, <3>1, StreamsKeepView
  <2>3. CASE \E c \in Convs : Select(c)
    BY <2>3, SelectKeepsView
  <2>4. CASE \E s \in Scopes : New(s)
    BY <2>4, NewKeepsView
  <2>5. CASE \E t \in Turns : Send(t)
    BY <2>5, SendKeepsView
  <2> QED
    BY <1>2, <2>1, <2>2, <2>3, <2>4, <2>5 DEF User
<1>3. CASE ServeList \/ ListFails
  BY <1>3, ListKeepsView
<1>4. CASE ListReply
  BY <1>4, ListReplyKeepsView
<1>5. CASE ServeTranscript \/ TranscriptReply \/ TranscriptFails
  BY <1>5, TranscriptKeepsView
<1>6. ASSUME NEW r \in creates, ServeCreate(r) \/ Creation(r) PROVE ViewInv'
  BY <1>6, CreationKeepsView, CreateReplyKeepsView DEF Creation
<1>7. ASSUME NEW t \in Turns,
             ServePost(t) \/ SaveAnswer(t) \/ Chunk(t) \/ StreamEnds(t) \/ StreamFails(t)
               \/ SessionExpired(t)
      PROVE  ViewInv'
  BY <1>7, StreamsKeepView
<1> QED
  BY <1>1, <1>2, <1>3, <1>4, <1>5, <1>6, <1>7 DEF Next

-----------------------------------------------------------------------------
(* The calls of send.                                                      *)

(* One call moves to another phase. *)
Moves(t, phase, fresh) ==
  /\ SendsAre(sends')
  /\ sends'[t].phase = phase /\ sends'[t].fresh = fresh
  /\ \A o \in Turns \ {t} : sends'[o] = sends[o]

LEMMA UpdateMoves ==
  ASSUME SendsAre(sends), NEW t \in Turns, NEW s, IsCall(s), sends' = [sends EXCEPT ![t] = s]
  PROVE  Moves(t, s.phase, s.fresh)
<1>1. sends' = [o \in Turns |-> IF o = t THEN s ELSE sends[o]]
  BY DEF SendsAre
<1>2. \A o \in Turns : sends'[o] = IF o = t THEN s ELSE sends[o]
  BY <1>1
<1>3. sends' = [o \in Turns |-> sends'[o]]
  BY <1>1, <1>2
<1>4. \A o \in Turns : IsCall(sends'[o])
  BY <1>2 DEF SendsAre
<1>5. SendsAre(sends')
  BY <1>3, <1>4 DEF SendsAre
<1> QED
  BY <1>2, <1>5 DEF Moves

(* Updates of single fields. *)
LEMMA FieldUpdates ==
  ASSUME NEW s, IsCall(s), NEW x
  PROVE  /\ IsCall([s EXCEPT !.phase = x]) /\ IsCall([s EXCEPT !.conv = x])
         /\ IsCall([s EXCEPT !.fresh = x]) /\ IsCall([s EXCEPT !.body = x])
         /\ IsCall([s EXCEPT !.pos = x])   /\ IsCall([s EXCEPT !.reader = x])
         /\ IsCall([s EXCEPT !.saved = x])
<1>1. IsCall([s EXCEPT !.phase = x])
  BY DEF IsCall
<1>2. IsCall([s EXCEPT !.conv = x])
  BY DEF IsCall
<1>3. IsCall([s EXCEPT !.fresh = x])
  BY DEF IsCall
<1>4. IsCall([s EXCEPT !.body = x])
  BY DEF IsCall
<1>5. IsCall([s EXCEPT !.pos = x])
  BY DEF IsCall
<1>6. IsCall([s EXCEPT !.reader = x])
  BY DEF IsCall
<1>7. IsCall([s EXCEPT !.saved = x])
  BY DEF IsCall
<1> QED
  BY <1>1, <1>2, <1>3, <1>4, <1>5, <1>6, <1>7

LEMMA CloseMoves ==
  ASSUME SendsAre(sends), NEW t \in Turns, NEW phase, NEW r, Close(t, phase, r)
  PROVE  Moves(t, phase, sends[t].fresh) /\ streaming' = FALSE /\ abortRef' = NoTurn
<1> DEFINE s == [sends[t] EXCEPT !.phase = phase, !.pos = 0, !.reader = r]
<1>1. sends' = [sends EXCEPT ![t] = s]
  BY DEF Close, SendsAre
<1>2. IsCall(sends[t])
  BY DEF SendsAre
<1>3. IsCall(s)
  <2>1. s = [[[sends[t] EXCEPT !.phase = phase] EXCEPT !.pos = 0] EXCEPT !.reader = r]
    OBVIOUS
  <2> QED
    BY <1>2, <2>1, FieldUpdates
<1>4. s.phase = phase /\ s.fresh = sends[t].fresh
  BY <1>2 DEF IsCall
<1> HIDE DEF s
<1> QED
  BY <1>1, <1>3, <1>4, UpdateMoves DEF Close

LEMMA BeginMoves ==
  ASSUME SendsAre(sends), NEW t \in Turns, NEW c, NEW shown, Begin(t, c, shown)
  PROVE  /\ Moves(t, "posting", sends[t].phase = "creating")
         /\ streaming' = TRUE /\ abortRef' = t
         /\ overlapped' = (overlapped \/ \E o \in Turns : Alive(o))
<1> DEFINE fresh == sends[t].phase = "creating"
           s == [sends[t] EXCEPT !.phase = "posting", !.conv = c, !.fresh = fresh]
<1>1. sends' = [sends EXCEPT ![t] = s]
  BY DEF Begin, SendsAre
<1>2. IsCall(sends[t])
  BY DEF SendsAre
<1>3. IsCall(s)
  <2>1. s = [[[sends[t] EXCEPT !.phase = "posting"] EXCEPT !.conv = c] EXCEPT !.fresh = fresh]
    OBVIOUS
  <2> HIDE DEF fresh
  <2> QED
    BY <1>2, <2>1, FieldUpdates
<1>4. s.phase = "posting"
  BY <1>2 DEF IsCall
<1>5. s.fresh = fresh
  BY <1>2, Zenon DEF IsCall
<1>6. /\ streaming' = TRUE /\ abortRef' = t
      /\ overlapped' = (overlapped \/ \E o \in Turns : Alive(o))
  BY Zenon DEF Begin
<1> HIDE DEF s
<1>7. Moves(t, s.phase, s.fresh)
  BY <1>1, <1>3, UpdateMoves
<1>8. Moves(t, "posting", fresh)
  BY <1>4, <1>5, <1>7, Zenon
<1> QED
  BY <1>6, <1>8, Zenon

LEMMA PhaseMoves ==
  ASSUME SendsAre(sends), NEW t \in Turns, NEW phase, sends' = [sends EXCEPT ![t].phase = phase]
  PROVE  Moves(t, phase, sends[t].fresh)
<1> DEFINE s == [sends[t] EXCEPT !.phase = phase]
<1>1. sends' = [sends EXCEPT ![t] = s] /\ IsCall(sends[t])
  BY DEF SendsAre
<1>2. IsCall(s)
  BY <1>1, FieldUpdates
<1>3. s.phase = phase /\ s.fresh = sends[t].fresh
  BY <1>1 DEF IsCall
<1> HIDE DEF s
<1> QED
  BY <1>1, <1>2, <1>3, UpdateMoves

(* A stream that goes on. *)
LEMMA StreamMoves ==
  ASSUME SendsAre(sends), NEW t \in Turns, ServePost(t) \/ SaveAnswer(t) \/ Chunk(t)
  PROVE  \E phase :
           /\ Moves(t, phase, sends[t].fresh)
           /\ phase = sends[t].phase \/ (sends[t].phase = "posting" /\ phase = "reading")
<1>1. IsCall(sends[t])
  BY DEF SendsAre
<1>2. CASE ServePost(t)
  <2>1. PICK b \in Bodies : sends' = [sends EXCEPT ![t].phase = "reading", ![t].body = b]
    BY <1>2 DEF ServePost
  <2> DEFINE s == [[sends[t] EXCEPT !.phase = "reading"] EXCEPT !.body = b]
  <2>2. sends' = [sends EXCEPT ![t] = s]
    BY <2>1 DEF SendsAre
  <2>3. IsCall(s)
    BY <1>1, FieldUpdates
  <2>4. s.phase = "reading" /\ s.fresh = sends[t].fresh
    BY <1>1 DEF IsCall
  <2> HIDE DEF s
  <2> QED
    BY <1>2, <2>2, <2>3, <2>4, UpdateMoves DEF ServePost
<1>3. CASE SaveAnswer(t)
  <2> DEFINE s == [sends[t] EXCEPT !.saved = TRUE]
  <2>1. sends' = [sends EXCEPT ![t] = s]
    BY <1>3 DEF SaveAnswer, SendsAre
  <2>2. IsCall(s)
    BY <1>1, FieldUpdates
  <2>3. s.phase = sends[t].phase /\ s.fresh = sends[t].fresh
    BY <1>1 DEF IsCall
  <2> HIDE DEF s
  <2> QED
    BY <2>1, <2>2, <2>3, UpdateMoves
<1>4. CASE Chunk(t)
  <2>1. PICK n, r : sends' = [sends EXCEPT ![t].pos = @ + n, ![t].reader = r]
    BY <1>4 DEF Chunk
  <2> DEFINE s == [[sends[t] EXCEPT !.pos = @ + n] EXCEPT !.reader = r]
  <2>2. sends' = [sends EXCEPT ![t] = s]
    BY <2>1 DEF SendsAre
  <2>3. IsCall(s)
    BY <1>1, FieldUpdates
  <2>4. s.phase = sends[t].phase /\ s.fresh = sends[t].fresh
    BY <1>1 DEF IsCall
  <2> HIDE DEF s
  <2> QED
    BY <2>2, <2>3, <2>4, UpdateMoves
<1> QED
  BY <1>2, <1>3, <1>4

(* A call that has begun does not wait again, and stays what it was.       *)
Settled ==
  \A t \in Turns : sends[t].phase \notin Waiting
                     => sends'[t].phase \notin Waiting /\ (sends[t].fresh => sends'[t].fresh)

LEMMA MovedOn ==
  ASSUME Calls, NEW t \in Turns, NEW phase, NEW fresh \in BOOLEAN, Moves(t, phase, fresh),
         fresh => phase \notin Waiting,
         sends[t].phase \notin Waiting => phase \notin Waiting /\ (sends[t].fresh => fresh),
         creates' \subseteq creates,
         \A r \in creates' : r.by = t => phase = "creating"
  PROVE  Calls' /\ Settled
<1>1. Settled
  BY DEF Settled, Moves
<1>2. \A o \in Turns : sends'[o].fresh \in BOOLEAN /\ (sends'[o].fresh => sends'[o].phase \notin Waiting)
  BY DEF Calls, Moves
<1>3. ASSUME NEW r \in creates'
      PROVE  /\ r = [by |-> r.by, scope |-> r.scope, conv |-> r.conv]
             /\ r.by \in Turns \cup {NoTurn}
             /\ r.by # NoTurn => sends'[r.by].phase = "creating"
  BY <1>3 DEF Calls, Moves
<1>4. \A r, o \in creates' : r.by = o.by /\ r.by # NoTurn => r = o
  BY DEF Calls
<1>5. SendsAre(sends')
  BY DEF Moves
<1> QED
  BY <1>1, <1>2, <1>3, <1>4, <1>5 DEF Calls

(* A call that has begun has no creation that waits. *)
LEMMA BegunCreatesNothing ==
  ASSUME Calls, NEW t \in Turns, sends[t].phase # "creating"
  PROVE  \A r \in creates : r.by # t
BY DEF Calls, Turns, NoTurn

(* The end of a stream that was alive, or that the stop button pointed at. *)
LEMMA ClosedReaches ==
  ASSUME Streaming, NEW t \in Turns, NEW phase, Moves(t, phase, sends[t].fresh),
         phase \notin {"posting", "reading"}, Alive(t) \/ abortRef = t,
         streaming' = FALSE, abortRef' = NoTurn, UNCHANGED overlapped
  PROVE  Streaming'
<1>1. \A o \in Turns : sends'[o].fresh = sends[o].fresh
  BY DEF Moves
<1>2. CASE overlapped
  BY <1>1, <1>2 DEF Streaming, StopReaches
<1>3. CASE ~overlapped
  <2>1. {o \in Turns : Alive(o)} = {t}
    BY <1>3 DEF Streaming, StopReaches, Turns, NoTurn
  <2>2. \A o \in Turns : ~Alive(o)'
    BY <2>1 DEF Moves, Alive
  <2>3. {o \in Turns : Alive(o)}' = {}
    BY <2>2
  <2> QED
    BY <1>3, <2>3 DEF Streaming, StopReaches
<1> QED
  BY <1>2, <1>3 DEF Streaming

(* A stream that goes on, or a call that has not begun one. *)
LEMMA AliveReaches ==
  ASSUME Streaming, NEW t \in Turns, NEW phase, Moves(t, phase, sends[t].fresh),
         phase \in {"posting", "reading"} <=> Alive(t),
         sends[t].phase \notin Waiting => phase \notin Waiting,
         UNCHANGED <<streaming, abortRef, overlapped>>
  PROVE  Streaming'
<1>1. \A o \in Turns : sends'[o].fresh = sends[o].fresh /\ (Alive(o)' <=> Alive(o))
  BY DEF Moves, Alive
<1>2. {o \in Turns : Alive(o)}' = {o \in Turns : Alive(o)}
  BY <1>1
<1>3. StopReaches'
  BY <1>1, <1>2 DEF Streaming, StopReaches
<1>4. abortRef' # NoTurn => sends'[abortRef'].phase \notin Waiting
  BY DEF Streaming, Moves
<1> QED
  BY <1>3, <1>4 DEF Streaming

(* A new stream is the only one, or one that had to wait. *)
LEMMA BegunReaches ==
  ASSUME Calls, Streaming, NEW t \in Turns, NEW fresh \in BOOLEAN, Moves(t, "posting", fresh),
         sends[t].phase \in Waiting, streaming' = TRUE, abortRef' = t,
         overlapped' = (overlapped \/ \E o \in Turns : Alive(o)),
         overlapped \/ fresh \/ ~streaming
  PROVE  Streaming'
<1>1. ~sends[t].fresh /\ t # NoTurn
  BY DEF Calls, Turns, NoTurn
<1>2. \A o \in Turns : sends[o].fresh => sends'[o].fresh
  BY <1>1 DEF Moves
<1>3. \A o \in Turns : Alive(o)' <=> (o = t \/ Alive(o))
  BY DEF Moves, Alive
<1>4. overlapped' \in BOOLEAN /\ (overlapped' <=> overlapped \/ \E o \in Turns : Alive(o))
  BY Zenon DEF Streaming
<1>5. sends'[abortRef'].phase \notin Waiting
  BY DEF Moves, Waiting
<1>6. SUFFICES StopReaches'
  BY <1>4, <1>5 DEF Streaming
<1>7. CASE overlapped
  BY <1>2, <1>4, <1>7 DEF Streaming, StopReaches
<1>8. CASE ~overlapped /\ \E o \in Turns : Alive(o)
  <2>1. streaming
    BY <1>8 DEF Streaming, StopReaches
  <2>2. sends'[t].fresh
    BY <1>8, <2>1 DEF Moves
  <2> QED
    BY <1>4, <2>2, <1>8 DEF StopReaches
<1>9. CASE ~overlapped /\ ~\E o \in Turns : Alive(o)
  <2>1. {o \in Turns : Alive(o)}' = {t}
    BY <1>3, <1>9
  <2> QED
    BY <1>1, <1>4, <1>9, <2>1 DEF StopReaches
<1> QED
  BY <1>4, <1>7, <1>8, <1>9 DEF Streaming

-----------------------------------------------------------------------------
(* What each step does to the calls and to what is streaming.              *)

StreamsOn == Calls' /\ Streaming' /\ Settled

LEMMA StreamStays ==
  ASSUME StreamInv, UNCHANGED stream, UNCHANGED overlapped, creates' \subseteq creates
  PROVE  StreamsOn
<1>1. UNCHANGED <<sends, streaming, abortRef, overlapped>>
  BY DEF stream
<1>2. Calls'
  BY <1>1 DEF StreamInv, Calls, SendsAre, IsCall
<1>3. Streaming'
  BY <1>1 DEF StreamInv, Streaming, StopReaches, Alive
<1>4. Settled
  BY <1>1 DEF Settled
<1> QED
  BY <1>2, <1>3, <1>4 DEF StreamsOn

(* A stream is served and read. *)
LEMMA ReadingKeepsStreams ==
  ASSUME StreamInv, NEW t \in Turns, ServePost(t) \/ SaveAnswer(t) \/ Chunk(t)
  PROVE  StreamsOn
<1>1. Calls /\ Streaming /\ SendsAre(sends) /\ sends[t].fresh \in BOOLEAN
  BY DEF StreamInv, Calls
<1>2. PICK phase : /\ Moves(t, phase, sends[t].fresh)
                   /\ phase = sends[t].phase \/ (sends[t].phase = "posting" /\ phase = "reading")
  BY <1>1, StreamMoves
<1>3. UNCHANGED <<streaming, abortRef, overlapped, creates>>
  BY DEF ServePost, SaveAnswer, Chunk, history
<1>4. \A r \in creates' : r.by = t => phase = "creating"
  BY <1>1, <1>2, <1>3 DEF Calls, Turns, NoTurn
<1>5. Calls' /\ Settled
  BY <1>1, <1>2, <1>3, <1>4, MovedOn DEF Calls, Waiting
<1>6. Streaming'
  BY <1>1, <1>2, <1>3, AliveReaches DEF Alive, Waiting
<1> QED
  BY <1>5, <1>6 DEF StreamsOn

(* One that ends, by itself or not, leaves nothing that is streaming. *)
LEMMA ClosingKeepsStreams ==
  ASSUME StreamInv, NEW t \in Turns, NEW phase, NEW r, Close(t, phase, r),
         phase \notin {"idle", "creating", "posting", "reading"},
         Alive(t) \/ abortRef = t, sends[t].phase \notin Waiting,
         UNCHANGED <<overlapped, creates>>
  PROVE  StreamsOn
<1>1. Calls /\ Streaming /\ SendsAre(sends) /\ sends[t].fresh \in BOOLEAN
  BY DEF StreamInv, Calls
<1>2. Moves(t, phase, sends[t].fresh) /\ streaming' = FALSE /\ abortRef' = NoTurn
  BY <1>1, CloseMoves
<1>3. \A o \in creates' : o.by # t
  BY <1>1, BegunCreatesNothing DEF Waiting
<1>4. Calls' /\ Settled
  BY <1>1, <1>2, <1>3, MovedOn DEF Calls, Waiting
<1>5. Streaming'
  BY <1>1, <1>2, ClosedReaches
<1> QED
  BY <1>4, <1>5 DEF StreamsOn

LEMMA AbortKeepsStreams ==
  ASSUME StreamInv, NEW shown, AbortInto(shown), UNCHANGED <<overlapped, creates>>
  PROVE  StreamsOn
<1>1. CASE abortRef = NoTurn
  BY <1>1, StreamStays DEF AbortInto
<1>2. CASE abortRef # NoTurn
  <2>1. abortRef \in Turns /\ sends[abortRef].phase \notin Waiting /\ Close(abortRef, "stopped", NewReader)
    BY <1>2 DEF AbortInto, StreamInv, Streaming
  <2> QED
    BY <2>1, ClosingKeepsStreams
<1> QED
  BY <1>1, <1>2

LEMMA EndKeepsStreams ==
  ASSUME StreamInv, NEW t \in Turns, StreamEnds(t) \/ StreamFails(t) \/ SessionExpired(t)
  PROVE  StreamsOn
<1>1. Alive(t) /\ sends[t].phase \notin Waiting /\ UNCHANGED <<overlapped, creates>>
  BY DEF StreamEnds, StreamFails, SessionExpired, Alive, Waiting, history
<1>2. PICK r : Close(t, "answered", r) \/ Close(t, "failed", r)
  BY DEF StreamEnds, StreamFails, SessionExpired
<1> QED
  BY <1>1, <1>2, ClosingKeepsStreams

LEMMA SendKeepsStreams ==
  ASSUME StreamInv, NEW t \in Turns, Send(t)
  PROVE  StreamsOn
<1>1. Calls /\ Streaming /\ SendsAre(sends) /\ sends[t].fresh \in BOOLEAN
  BY DEF StreamInv, Calls
<1>2. sends[t].phase = "idle" /\ ~sends[t].fresh /\ \A r \in creates : r.by # t
  BY <1>1, BegunCreatesNothing DEF Send, Unasked, Calls, Waiting
<1>3. CASE SendNow(t) /\ UNCHANGED creates
  <2> DEFINE fresh == sends[t].phase = "creating"
  <2>1. /\ Moves(t, "posting", fresh)
        /\ streaming' = TRUE /\ abortRef' = t
        /\ overlapped' = (overlapped \/ \E o \in Turns : Alive(o))
    BY <1>1, <1>3, BeginMoves DEF SendNow
  <2>2. fresh \in BOOLEAN /\ ~fresh
    BY <1>2
  <2> HIDE DEF fresh
  <2>3. ~streaming
    BY DEF Send, ComposerOffers, Pane, ShowWelcome
  <2>4. Calls' /\ Settled
    BY <1>1, <1>2, <1>3, <2>1, <2>2, MovedOn DEF Waiting
  <2>5. Streaming'
    BY <1>1, <1>2, <2>1, <2>2, <2>3, BegunReaches DEF Waiting
  <2> QED
    BY <2>4, <2>5 DEF StreamsOn
<1>4. CASE activeId = NoConv
  <2>1. /\ sends' = [sends EXCEPT ![t].phase = "creating"]
        /\ creates' = creates \cup {[by |-> t, scope |-> "personal", conv |-> NoConv]}
        /\ UNCHANGED <<streaming, abortRef, overlapped>>
    BY <1>4 DEF Send
  <2>2. Moves(t, "creating", sends[t].fresh)
    BY <1>1, <2>1, PhaseMoves
  <2>3. Streaming'
    BY <1>1, <1>2, <2>1, <2>2, AliveReaches DEF Alive, Waiting
  <2>4. Settled
    BY <1>2, <2>2 DEF Moves, Settled, Waiting
  <2>5. \A o \in Turns : sends'[o].fresh \in BOOLEAN /\ (sends'[o].fresh => sends'[o].phase \notin Waiting)
    BY <1>1, <1>2, <2>2 DEF Calls, Moves
  <2>6. \A r \in creates' : /\ r = [by |-> r.by, scope |-> r.scope, conv |-> r.conv]
                            /\ r.by \in Turns \cup {NoTurn}
                            /\ r.by # NoTurn => sends'[r.by].phase = "creating"
    BY <1>1, <2>1, <2>2 DEF Calls, Moves
  <2>7. \A r, o \in creates' : r.by = o.by /\ r.by # NoTurn => r = o
    BY <1>1, <1>2, <2>1 DEF Calls
  <2> QED
    BY <2>2, <2>3, <2>4, <2>5, <2>6, <2>7 DEF StreamsOn, Calls, Moves
<1> QED
  BY <1>3, <1>4 DEF Send

LEMMA NewKeepsStreams ==
  ASSUME StreamInv, NEW s, New(s)
  PROVE  StreamsOn
<1>1. /\ UNCHANGED <<sends, streaming, abortRef, overlapped>>
      /\ creates' = creates \cup {[by |-> NoTurn, scope |-> s, conv |-> NoConv]}
  BY DEF New, stream, history
<1>2. Calls'
  BY <1>1 DEF StreamInv, Calls, SendsAre, IsCall
<1>3. Streaming'
  BY <1>1 DEF StreamInv, Streaming, StopReaches, Alive
<1> QED
  BY <1>1, <1>2, <1>3 DEF StreamsOn, Settled

LEMMA ServeCreateKeepsStreams ==
  ASSUME StreamInv, NEW r \in creates, ServeCreate(r)
  PROVE  StreamsOn
<1> DEFINE o == [r EXCEPT !.conv = Len(stored) + 1]
<1>1. /\ UNCHANGED <<sends, streaming, abortRef, overlapped>>
      /\ creates' = (creates \ {r}) \cup {o}
  BY DEF ServeCreate, stream, history
<1>2. o.by = r.by /\ o = [by |-> o.by, scope |-> o.scope, conv |-> o.conv]
  <2>1. r = [by |-> r.by, scope |-> r.scope, conv |-> r.conv]
    BY DEF StreamInv, Calls
  <2> QED
    BY <2>1
<1> HIDE DEF o
<1>3. \A a \in creates' : a = o \/ a \in creates \ {r}
  BY <1>1
<1>4. SendsAre(sends') /\ \A t \in Turns : /\ sends'[t].fresh \in BOOLEAN
                                           /\ sends'[t].fresh => sends'[t].phase \notin Waiting
  BY <1>1 DEF StreamInv, Calls, SendsAre, IsCall
<1>5. \A a \in creates' : /\ a = [by |-> a.by, scope |-> a.scope, conv |-> a.conv]
                          /\ a.by \in Turns \cup {NoTurn}
                          /\ a.by # NoTurn => sends'[a.by].phase = "creating"
  BY <1>1, <1>2, <1>3 DEF StreamInv, Calls
<1>6. \A a, b \in creates' : a.by = b.by /\ a.by # NoTurn => a = b
  BY <1>2, <1>3 DEF StreamInv, Calls
<1>7. Calls'
  BY <1>4, <1>5, <1>6 DEF Calls
<1>8. Streaming'
  BY <1>1 DEF StreamInv, Streaming, StopReaches, Alive
<1> QED
  BY <1>1, <1>7, <1>8 DEF StreamsOn, Settled

LEMMA CreateReplyKeepsStreams ==
  ASSUME StreamInv, NEW r \in creates, CreateReply(r)
  PROVE  StreamsOn
<1>1. Calls /\ Streaming /\ SendsAre(sends) /\ creates' = creates \ {r}
  BY DEF StreamInv, Calls, CreateReply
<1>2. CASE UNCHANGED <<stream, overlapped>>
  BY <1>1, <1>2, StreamStays
<1>3. CASE r.by # NoTurn /\ Begin(r.by, r.conv, <<>>)
  <2> DEFINE t == r.by
             fresh == sends[t].phase = "creating"
  <2>1. t \in Turns /\ fresh
    BY <1>1, <1>3 DEF Calls
  <2>2. ~sends[t].fresh /\ sends[t].phase \in Waiting
    BY <2>1 DEF StreamInv, Calls, Waiting
  <2>3. /\ Moves(t, "posting", fresh)
        /\ streaming' = TRUE /\ abortRef' = t
        /\ overlapped' = (overlapped \/ \E o \in Turns : Alive(o))
    BY <1>1, <1>3, <2>1, BeginMoves
  <2>4. fresh \in BOOLEAN
    OBVIOUS
  <2>5. creates' \subseteq creates /\ \A o \in creates' : o.by = t => "posting" = "creating"
    BY <1>1, <1>3 DEF Calls
  <2> HIDE DEF fresh, t
  <2>6. Calls' /\ Settled
    <3>1. /\ fresh => "posting" \notin Waiting
          /\ sends[t].phase \notin Waiting => "posting" \notin Waiting /\ (sends[t].fresh => fresh)
      BY <2>2 DEF Waiting
    <3> QED
      BY <1>1, <2>1, <2>3, <2>4, <2>5, <3>1, MovedOn
  <2>7. Streaming'
    BY <1>1, <2>1, <2>2, <2>3, <2>4, BegunReaches
  <2> QED
    BY <2>6, <2>7 DEF StreamsOn
<1> QED
  BY <1>2, <1>3 DEF CreateReply

LEMMA CreateFailsKeepsStreams ==
  ASSUME StreamInv, NEW r \in creates, CreateFails(r)
  PROVE  StreamsOn
<1>1. /\ Calls /\ Streaming /\ SendsAre(sends) /\ creates' = creates \ {r}
      /\ UNCHANGED <<streaming, abortRef, overlapped>>
  BY DEF StreamInv, Calls, CreateFails, history
<1>2. CASE r.by = NoTurn
  BY <1>1, <1>2, StreamStays DEF CreateFails, stream
<1>3. CASE r.by # NoTurn
  <2> DEFINE t == r.by
  <2>1. t \in Turns /\ sends[t].phase = "creating" /\ \A o \in creates' : o.by # t
    BY <1>1, <1>3 DEF Calls
  <2>2. sends' = [sends EXCEPT ![t].phase = "failed"]
    BY <1>3 DEF CreateFails
  <2>3. sends[t].fresh \in BOOLEAN /\ ~sends[t].fresh
    BY <1>1, <2>1 DEF Calls, Waiting
  <2> HIDE DEF t
  <2>4. Moves(t, "failed", sends[t].fresh)
    BY <1>1, <2>1, <2>2, PhaseMoves
  <2>5. Calls' /\ Settled
    BY <1>1, <2>1, <2>3, <2>4, MovedOn DEF Waiting
  <2>6. Streaming'
    BY <1>1, <2>1, <2>4, AliveReaches DEF Alive, Waiting
  <2> QED
    BY <2>5, <2>6 DEF StreamsOn
<1> QED
  BY <1>2, <1>3

LEMMA StreamStep == StreamInv /\ [Next]_vars => StreamsOn
<1> SUFFICES ASSUME StreamInv, [Next]_vars PROVE StreamsOn
  OBVIOUS
<1>1. CASE UNCHANGED vars
  BY <1>1, StreamStays DEF vars, history
<1>2. CASE User
  <2>1. CASE Retry
    BY <2>1, StreamStays DEF Retry, history
  <2>2. CASE Stop
    BY <2>2, AbortKeepsStreams DEF Stop, history
  <2>3. ASSUME NEW c \in Convs, Select(c) PROVE StreamsOn
    BY <2>3, AbortKeepsStreams DEF Select, history
  <2>4. CASE \E s \in Scopes : New(s)
    BY <2>4, NewKeepsStreams
  <2>5. CASE \E t \in Turns : Send(t)
    BY <2>5, SendKeepsStreams
  <2> QED
    BY <1>2, <2>1, <2>2, <2>3, <2>4, <2>5 DEF User
<1>3. CASE ServeList \/ ListReply \/ ListFails
  BY <1>3, StreamStays DEF ServeList, ListReply, ListFails, history
<1>4. CASE ServeTranscript \/ TranscriptReply \/ TranscriptFails
  BY <1>4, StreamStays DEF ServeTranscript, TranscriptReply, TranscriptFails, history
<1>5. ASSUME NEW r \in creates, ServeCreate(r) \/ Creation(r) PROVE StreamsOn
  BY <1>5, ServeCreateKeepsStreams, CreateReplyKeepsStreams, CreateFailsKeepsStreams DEF Creation
<1>6. ASSUME NEW t \in Turns,
             ServePost(t) \/ SaveAnswer(t) \/ Chunk(t) \/ StreamEnds(t) \/ StreamFails(t)
               \/ SessionExpired(t)
      PROVE  StreamsOn
  BY <1>6, ReadingKeepsStreams, EndKeepsStreams
<1> QED
  BY <1>1, <1>2, <1>3, <1>4, <1>5, <1>6 DEF Next

-----------------------------------------------------------------------------
(* Questions.                                                              *)

(* No question is new, and no transcript is on its way that was not. *)
LEMMA QuestionsStay ==
  ASSUME QuestionInv, Settled, UNCHANGED selectionNonce,
         \A m \in Range(messages') : m \in Range(messages) \/ IsAnswer(m),
         transcript' # NoTranscript => transcript # NoTranscript
  PROVE  QuestionInv'
<1>1. ASSUME NEW m \in Range(messages'), IsQuestion(m)
      PROVE  /\ m.turn \in Turns /\ sends'[m.turn].phase \notin Waiting
             /\ transcript' # NoTranscript => sends'[m.turn].fresh
  <2>1. m \in Range(messages)
    BY <1>1 DEF IsQuestion, IsAnswer
  <2>2. /\ m.turn \in Turns /\ sends[m.turn].phase \notin Waiting
        /\ transcript # NoTranscript => sends[m.turn].fresh
    BY <1>1, <2>1 DEF QuestionInv
  <2> QED
    BY <2>2 DEF Settled
<1> QED
  BY <1>1 DEF QuestionInv, IsQuestion, NoTranscript

(* None is shown. *)
LEMMA NoQuestions ==
  ASSUME selectionNonce' \in Nat, \A m \in Range(messages') : ~IsQuestion(m)
  PROVE  QuestionInv'
BY DEF QuestionInv, IsQuestion

LEMMA SendKeepsQuestions ==
  ASSUME IndInv, Settled, NEW t \in Turns, Send(t)
  PROVE  QuestionInv'
<1>1. /\ QuestionInv /\ selectionNonce' = selectionNonce /\ SendsAre(sends)
      /\ messages \in Seq(Range(messages))
  BY DEF IndInv, Send, ViewInv, Shape, StreamInv, Calls
<1>2. CASE SendNow(t)
  <2>1. /\ Range(messages') = Range(messages) \cup {Question(activeId, t)}
        /\ Question(activeId, t).turn = t
    BY <1>1, <1>2, BeginShowsQuestion DEF SendNow
  <2>2. sends'[t].phase = "posting"
    BY <1>1, <1>2, BeginMoves DEF SendNow, Moves
  <2>3. transcript' = NoTranscript
    BY <1>2 DEF SendNow
  <2>4. ASSUME NEW m \in Range(messages'), IsQuestion(m)
        PROVE  m.turn \in Turns /\ sends'[m.turn].phase \notin Waiting
    <3>1. CASE m \in Range(messages)
      BY <1>1, <2>4, <3>1 DEF QuestionInv, Settled
    <3>2. CASE m = Question(activeId, t)
      BY <2>1, <2>2, <3>2 DEF Waiting
    <3> QED
      BY <2>1, <3>1, <3>2
  <2> QED
    BY <1>1, <2>3, <2>4 DEF QuestionInv, IsQuestion, NoTranscript
<1>3. CASE activeId = NoConv
  <2>1. UNCHANGED <<transcript, messages>>
    BY <1>3 DEF Send
  <2> QED
    BY <1>1, <2>1, QuestionsStay
<1> QED
  BY <1>2, <1>3 DEF Send

(* The question that created its conversation is the one a transcript      *)
(* request can meet.                                                       *)
LEMMA CreateReplyKeepsQuestions ==
  ASSUME IndInv, NEW r \in creates, CreateReply(r)
  PROVE  QuestionInv'
<1>1. selectionNonce' \in Nat /\ SendsAre(sends)
  BY DEF IndInv, QuestionInv, CreateReply, StreamInv, Calls
<1>2. CASE messages' = <<>>
  BY <1>1, <1>2, NoneHeld, NoQuestions
<1>3. CASE r.by # NoTurn /\ Begin(r.by, r.conv, <<>>)
  <2> DEFINE t == r.by
             c == r.conv
             none == <<>>
             fresh == sends[t].phase = "creating"
  <2>1. t \in Turns /\ fresh
    BY <1>3 DEF IndInv, StreamInv, Calls
  <2>2. none \in Seq(Range(none)) /\ Range(none) = {}
    BY NoneHeld
  <2>3. Begin(t, c, none)
    BY <1>3
  <2> HIDE DEF t, c, none
  <2>4. Range(messages') = {Question(c, t)} /\ Question(c, t).turn = t
    BY <2>2, <2>3, BeginShowsQuestion
  <2>5. Moves(t, "posting", fresh)
    BY <1>1, <2>1, <2>3, BeginMoves
  <2> HIDE DEF fresh
  <2>6. sends'[t].phase = "posting" /\ sends'[t].fresh
    BY <2>1, <2>5 DEF Moves
  <2> QED
    BY <1>1, <2>1, <2>4, <2>6 DEF QuestionInv, IsQuestion, Waiting
<1> QED
  BY <1>2, <1>3 DEF CreateReply

LEMMA QuestionStep == IndInv /\ [Next]_vars => QuestionInv'
<1> SUFFICES ASSUME IndInv, [Next]_vars PROVE QuestionInv'
  OBVIOUS
<1>0. /\ QuestionInv /\ selectionNonce \in Nat /\ Settled
      /\ messages \in Seq(Range(messages))
  BY StreamStep DEF IndInv, QuestionInv, StreamsOn, ViewInv, Shape
<1>1. CASE UNCHANGED <<messages, transcript, selectionNonce>>
  BY <1>0, <1>1, QuestionsStay
<1>2. CASE UNCHANGED vars
  BY <1>1, <1>2 DEF vars, view
<1>3. CASE User
  <2>1. CASE Retry
    BY <1>1, <2>1 DEF Retry, view
  <2>2. CASE Stop
    <3>1. OnlyAnswersAdded(messages) /\ UNCHANGED <<transcript, selectionNonce>>
      BY <1>0, <2>2, AbortAddsAnswers DEF Stop
    <3> QED
      BY <1>0, <3>1, QuestionsStay DEF OnlyAnswersAdded
  <2>3. ASSUME NEW c \in Convs, Select(c) PROVE QuestionInv'
    <3>1. OnlyAnswersAdded(<<>>)
      BY <2>3, NoneHeld, AbortAddsAnswers DEF Select
    <3>2. selectionNonce' \in Nat
      BY <1>0, <2>3 DEF Select
    <3> QED
      BY <3>1, <3>2, NoneHeld, NoQuestions DEF OnlyAnswersAdded, IsAnswer, IsQuestion
  <2>4. CASE \E s \in Scopes : New(s)
    BY <1>1, <2>4 DEF New, view
  <2>5. CASE \E t \in Turns : Send(t)
    BY <1>0, <2>5, SendKeepsQuestions
  <2> QED
    BY <1>3, <2>1, <2>2, <2>3, <2>4, <2>5 DEF User
<1>4. CASE ServeList \/ ListFails
  BY <1>1, <1>4 DEF ServeList, ListFails, view
<1>5. CASE ListReply
  <2>1. UNCHANGED <<messages, selectionNonce>>
    BY <1>5 DEF ListReply
  <2>2. CASE activeId = NoConv
    <3>1. \A m \in Range(messages') : ~IsQuestion(m)
      BY <2>1, <2>2 DEF IndInv, ViewInv, Belonging, IsAnswer, IsQuestion
    <3> QED
      BY <1>0, <2>1, <3>1, NoQuestions
  <2>3. CASE activeId # NoConv
    BY <1>1, <1>5, <2>1, <2>3 DEF ListReply
  <2> QED
    BY <2>2, <2>3
<1>6. CASE ServeTranscript \/ TranscriptFails
  <2>1. (messages' = messages) /\ UNCHANGED selectionNonce /\ transcript # NoTranscript
    BY <1>6 DEF ServeTranscript, TranscriptFails, NoTranscript
  <2> QED
    BY <1>0, <2>1, QuestionsStay
<1>7. CASE TranscriptReply
  <2>1. messages' = [i \in DOMAIN transcript.items |-> Loaded(transcript.conv, transcript.items[i])]
    BY <1>7 DEF TranscriptReply
  <2>2. \A m \in Range(messages') : ~IsQuestion(m)
    BY <2>1 DEF Range, Loaded, IsQuestion
  <2> QED
    BY <1>0, <1>7, <2>2, NoQuestions DEF TranscriptReply
<1>8. ASSUME NEW r \in creates, ServeCreate(r) \/ Creation(r) PROVE QuestionInv'
  <2>1. CASE ServeCreate(r) \/ CreateFails(r)
    BY <1>1, <2>1 DEF ServeCreate, CreateFails, view
  <2> QED
    BY <1>8, <2>1, CreateReplyKeepsQuestions DEF Creation
<1>9. ASSUME NEW t \in Turns,
             ServePost(t) \/ SaveAnswer(t) \/ Chunk(t) \/ StreamEnds(t) \/ StreamFails(t)
               \/ SessionExpired(t)
      PROVE  QuestionInv'
  <2>1. CASE StreamEnds(t)
    <3>1. OnlyAnswersAdded(messages) /\ UNCHANGED <<transcript, selectionNonce>>
      BY <1>0, <2>1, StreamEndAddsAnswer DEF StreamEnds
    <3> QED
      BY <1>0, <3>1, QuestionsStay DEF OnlyAnswersAdded
  <2>2. CASE ~StreamEnds(t)
    BY <1>1, <1>9, <2>2 DEF ServePost, SaveAnswer, Chunk, StreamFails, SessionExpired, view
  <2> QED
    BY <2>1, <2>2
<1> QED
  BY <1>2, <1>3, <1>4, <1>5, <1>6, <1>7, <1>8, <1>9 DEF Next

-----------------------------------------------------------------------------
(* The invariant, and what follows.                                        *)

LEMMA Initially == Init => IndInv
<1> SUFFICES ASSUME Init PROVE IndInv
  OBVIOUS
<1>1. /\ activeId = NoConv /\ messages = <<>> /\ messagesLoading = FALSE
      /\ transcript = NoTranscript /\ sessions = <<>> /\ listReply = <<>>
      /\ creates = {} /\ streaming = FALSE /\ abortRef = NoTurn /\ overlapped = FALSE
      /\ selectionNonce = 0 /\ sends = [t \in Turns |-> NoSend]
  BY DEF Init
<1>2. stored \in Seq(Seq(StoredMessages)) /\ Len(stored) = 1
  BY DEF Init, Stored, StoredMessages
<1>3. scopeOf \in Seq(Scopes) /\ Len(scopeOf) = 1
  BY DEF Init, Scopes
<1>4. NoTranscript \in [conv : {NoConv} \cup Known, stage : {"none", "sent", "served"},
                        items : Seq(StoredMessages)]
  BY EmptySeq DEF NoTranscript
<1>5. ViewInv
  BY <1>1, <1>2, <1>3, <1>4, EmptySeq, NoneHeld
     DEF ViewInv, Shape, Belonging, Listing, LoadingIsLoading
<1>6. Calls
  BY <1>1 DEF Calls, SendsAre, IsCall, NoSend
<1>7. Streaming
  BY <1>1 DEF Streaming, StopReaches, Alive, NoSend
<1>8. QuestionInv
  BY <1>1, NoneHeld DEF QuestionInv
<1> QED
  BY <1>5, <1>6, <1>7, <1>8 DEF IndInv, StreamInv

LEMMA Inductive == IndInv /\ [Next]_vars => IndInv'
BY ViewStep, StreamStep, QuestionStep DEF IndInv, StreamInv, StreamsOn

LEMMA ConversationShown == IndInv => ShownBelongs
<1> SUFFICES ASSUME IndInv PROVE ShownBelongs
  OBVIOUS
<1>1. \A m \in Range(messages) : m.conv = activeId \/ (m.local /\ m.role = "assistant")
  BY DEF IndInv, ViewInv, Belonging, IsAnswer
<1>2. transcript # NoTranscript => transcript.conv = activeId
  BY DEF IndInv, ViewInv, Belonging
<1>3. BadgeShowsScope
  BY DEF IndInv, ViewInv, Listing, BadgeShowsScope, ShownScope
<1> QED
  BY <1>1, <1>2, <1>3 DEF ShownBelongs

(* Every state the page reaches satisfies the invariant. *)
THEOREM Invariance == Spec => []IndInv
<1> QED
  BY Initially, Inductive, PTL DEF Spec

(* What is shown belongs to the selected conversation, but for answers     *)
(* that were being streamed when it was selected or created.               *)
THEOREM SelectionShown == Spec => []ShownBelongs
<1> QED
  BY Invariance, ConversationShown, PTL

(* What is shown as loading or streaming has a request that ends it; what  *)
(* is streaming is what the stop button stops.                             *)
THEOREM NothingStaysBusy == Spec => []BusyIsBusy
<1>1. IndInv => BusyIsBusy
  BY DEF IndInv, ViewInv, StreamInv, Streaming, BusyIsBusy
<1> QED
  BY <1>1, Invariance, PTL

-----------------------------------------------------------------------------
(* What a step does to the messages.  Only a transcript that arrives, a    *)
(* selection and a creation replace them.                                  *)
LEMMA MessagesKept ==
  ASSUME IndInv, Next, Selected' = Selected, ~TranscriptReply
  PROVE  Range(messages) \subseteq Range(messages')
<1>0. messages \in Seq(Range(messages)) /\ selectionNonce \in Nat
  BY DEF IndInv, ViewInv, Shape, QuestionInv
<1>1. selectionNonce' = selectionNonce /\ creates' = creates
  BY DEF Selected
<1>2. CASE UNCHANGED messages
  BY <1>2
<1>3. CASE User
  <2>1. CASE Retry \/ \E s \in Scopes : New(s)
    BY <1>2, <2>1 DEF Retry, New, view
  <2>2. CASE Stop
    BY <1>0, <2>2, AbortAddsAnswers DEF Stop, OnlyAnswersAdded
  <2>3. ~\E c \in Convs : Select(c)
    BY <1>0, <1>1 DEF Select
  <2>4. ASSUME NEW t \in Turns, Send(t) PROVE Range(messages) \subseteq Range(messages')
    <3>1. CASE SendNow(t)
      BY <1>0, <3>1, BeginShowsQuestion DEF SendNow
    <3>2. CASE ~SendNow(t)
      BY <1>2, <2>4, <3>2 DEF Send
    <3> QED
      BY <3>1, <3>2
  <2> QED
    BY <1>3, <2>1, <2>2, <2>3, <2>4 DEF User
<1>4. CASE ServeList \/ ListReply \/ ListFails \/ ServeTranscript \/ TranscriptFails
  BY <1>2, <1>4 DEF ServeList, ListReply, ListFails, ServeTranscript, TranscriptFails, view
<1>5. ASSUME NEW r \in creates, ServeCreate(r) \/ Creation(r)
      PROVE  Range(messages) \subseteq Range(messages')
  BY <1>1, <1>2, <1>5 DEF Creation, ServeCreate, CreateReply, CreateFails, view
<1>6. ASSUME NEW t \in Turns,
             ServePost(t) \/ SaveAnswer(t) \/ Chunk(t) \/ StreamEnds(t) \/ StreamFails(t)
               \/ SessionExpired(t)
      PROVE  Range(messages) \subseteq Range(messages')
  <2>1. CASE StreamEnds(t)
    BY <1>0, <2>1, StreamEndAddsAnswer DEF OnlyAnswersAdded
  <2>2. CASE ~StreamEnds(t)
    BY <1>2, <1>6, <2>2 DEF ServePost, SaveAnswer, Chunk, StreamFails, SessionExpired, view
  <2> QED
    BY <2>1, <2>2
<1> QED
  BY <1>3, <1>4, <1>5, <1>6 DEF Next

LEMMA QuestionsKept ==
  IndInv /\ [Next]_vars => [\A m \in Range(messages) : Keeps(m) \/ sends[m.turn].fresh]_vars
<1> SUFFICES ASSUME IndInv, Next, NEW m \in Range(messages), ~sends[m.turn].fresh,
                    m.local, m.role = "user", Selected' = Selected
             PROVE  \E n \in Range(messages') : n.turn = m.turn /\ n.role = "user"
  BY Zenon DEF Keeps
<1>1. transcript = NoTranscript
  BY DEF IndInv, QuestionInv, IsQuestion
<1>2. ~TranscriptReply
  BY <1>1 DEF TranscriptReply, NoTranscript
<1>3. m \in Range(messages')
  BY <1>2, MessagesKept
<1> QED
  BY <1>3

(* A question asked in a conversation is not wiped by a transcript.        *)
THEOREM QuestionsStayShown == Spec => QuestionKept
<1> QED
  BY Invariance, QuestionsKept, PTL DEF Spec, QuestionKept
=============================================================================
