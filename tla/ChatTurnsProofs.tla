--------------------------- MODULE ChatTurnsProofs ---------------------------
(***************************************************************************)
(* What the chat page keeps of each question and its answer, on top of     *)
(* ChatPageProofs: the types of every state, what the reader of a stream   *)
(* has passed on, and that no turn is shown twice.                         *)
(*                                                                         *)
(* DataInv says of each call of send what its fields hold in its phase; of *)
(* one that reads, that its reader is the one ChatStreamProofs describes   *)
(* for the part of the body received so far.  OnceInv follows a message    *)
(* from the conversation it is stored in, through a transcript on its way, *)
(* to the page: while an answer is streamed, nothing that could show the   *)
(* server's copy of it is under way.                                       *)
(***************************************************************************)
EXTENDS ChatPageProofs

-----------------------------------------------------------------------------
(* The calls of send in full: their types, and what their reader holds.    *)

Early == {"idle", "creating", "posting"}

CallOK(s, convs) ==
  /\ s \in Sends
  /\ s.phase \in Early => s.body = <<>> /\ s.pos = 0 /\ s.reader = NewReader
  /\ s.phase \in {"posting", "reading", "answered", "stopped"} => s.conv \in convs
  /\ s.phase = "reading" =>
       /\ s.body \in Bodies /\ s.pos \in 0..Len(s.body)
       /\ ReaderOf(s.reader, SubSeq(s.body, 1, s.pos)) /\ ~s.reader.terminal
  /\ s.phase = "answered" => s.reader.events = EventsDue(Append(s.body, LF))
  /\ s.body # <<>> => s.conv \in convs
  /\ s.saved => s.body # <<>>

CallsOK == \A t \in Turns : CallOK(sends[t], Known)

(* A call, by its fields. *)
Call(s, phase, conv, fresh, body, pos, reader, saved) ==
  /\ IsCall(s) /\ s.phase = phase /\ s.conv = conv /\ s.fresh = fresh
  /\ s.body = body /\ s.pos = pos /\ s.reader = reader /\ s.saved = saved

(* What the steps make of a call s. *)
Closed(s, phase, r, new) == Call(new, phase, s.conv, s.fresh, s.body, 0, r, s.saved)
Begun(s, c, fresh, new)  == Call(new, "posting", c, fresh, s.body, s.pos, s.reader, s.saved)
Phased(s, phase, new)    == Call(new, phase, s.conv, s.fresh, s.body, s.pos, s.reader, s.saved)
Posted(s, b, new)        == Call(new, "reading", s.conv, s.fresh, b, s.pos, s.reader, s.saved)
Saved(s, new)            == Call(new, s.phase, s.conv, s.fresh, s.body, s.pos, s.reader, TRUE)
Received(s, n, r, new)   == Call(new, s.phase, s.conv, s.fresh, s.body, s.pos + n, r, s.saved)

LEMMA CloseChange ==
  ASSUME NEW s, IsCall(s), NEW phase, NEW r
  PROVE  Closed(s, phase, r, [s EXCEPT !.phase = phase, !.pos = 0, !.reader = r])
<1> DEFINE new == [s EXCEPT !.phase = phase, !.pos = 0, !.reader = r]
<1>1. IsCall(new)
  <2>1. new = [[[s EXCEPT !.phase = phase] EXCEPT !.pos = 0] EXCEPT !.reader = r]
    OBVIOUS
  <2> HIDE DEF new
  <2> QED
    BY <2>1, FieldUpdates
<1>2. Call(new, new.phase, new.conv, new.fresh, new.body, new.pos, new.reader, new.saved)
  BY <1>1 DEF Call
<1> QED
  BY <1>1 DEF Closed, Call, IsCall

LEMMA BeginChange ==
  ASSUME NEW s, IsCall(s), NEW c, NEW fresh
  PROVE  Begun(s, c, fresh, [s EXCEPT !.phase = "posting", !.conv = c, !.fresh = fresh])
<1> DEFINE new == [s EXCEPT !.phase = "posting", !.conv = c, !.fresh = fresh]
<1>1. IsCall(new)
  <2>1. new = [[[s EXCEPT !.phase = "posting"] EXCEPT !.conv = c] EXCEPT !.fresh = fresh]
    OBVIOUS
  <2> HIDE DEF new
  <2> QED
    BY <2>1, FieldUpdates
<1>2. Call(new, new.phase, new.conv, new.fresh, new.body, new.pos, new.reader, new.saved)
  BY <1>1 DEF Call
<1> QED
  BY <1>1 DEF Begun, Call, IsCall

LEMMA PhaseChange ==
  ASSUME NEW s, IsCall(s), NEW phase
  PROVE  Phased(s, phase, [s EXCEPT !.phase = phase])
<1> DEFINE new == [s EXCEPT !.phase = phase]
<1>1. IsCall(new)
  <2>1. new = [s EXCEPT !.phase = phase]
    OBVIOUS
  <2> HIDE DEF new
  <2> QED
    BY <2>1, FieldUpdates
<1>2. Call(new, new.phase, new.conv, new.fresh, new.body, new.pos, new.reader, new.saved)
  BY <1>1 DEF Call
<1> QED
  BY <1>1 DEF Phased, Call, IsCall

LEMMA PostChange ==
  ASSUME NEW s, IsCall(s), NEW b
  PROVE  Posted(s, b, [s EXCEPT !.phase = "reading", !.body = b])
<1> DEFINE new == [s EXCEPT !.phase = "reading", !.body = b]
<1>1. IsCall(new)
  <2>1. new = [[s EXCEPT !.phase = "reading"] EXCEPT !.body = b]
    OBVIOUS
  <2> HIDE DEF new
  <2> QED
    BY <2>1, FieldUpdates
<1>2. Call(new, new.phase, new.conv, new.fresh, new.body, new.pos, new.reader, new.saved)
  BY <1>1 DEF Call
<1> QED
  BY <1>1 DEF Posted, Call, IsCall

LEMMA SaveChange ==
  ASSUME NEW s, IsCall(s)
  PROVE  Saved(s, [s EXCEPT !.saved = TRUE])
<1> DEFINE new == [s EXCEPT !.saved = TRUE]
<1>1. IsCall(new)
  <2>1. new = [s EXCEPT !.saved = TRUE]
    OBVIOUS
  <2> HIDE DEF new
  <2> QED
    BY <2>1, FieldUpdates
<1>2. Call(new, new.phase, new.conv, new.fresh, new.body, new.pos, new.reader, new.saved)
  BY <1>1 DEF Call
<1> QED
  BY <1>1 DEF Saved, Call, IsCall

LEMMA ChunkChange ==
  ASSUME NEW s, IsCall(s), NEW n, NEW r
  PROVE  Received(s, n, r, [s EXCEPT !.pos = @ + n, !.reader = r])
<1> DEFINE new == [s EXCEPT !.pos = @ + n, !.reader = r]
<1>1. IsCall(new)
  <2>1. new = [[s EXCEPT !.pos = s.pos + n] EXCEPT !.reader = r]
    OBVIOUS
  <2> HIDE DEF new
  <2> QED
    BY <2>1, FieldUpdates
<1>2. Call(new, new.phase, new.conv, new.fresh, new.body, new.pos, new.reader, new.saved)
  BY <1>1 DEF Call
<1> QED
  BY <1>1 DEF Received, Call, IsCall

(* The other calls stay. *)
OnlyCall(t) == \A o \in Turns \ {t} : sends'[o] = sends[o]

LEMMA CallBecomes ==
  ASSUME SendsAre(sends), NEW t \in Turns, NEW s, sends' = [sends EXCEPT ![t] = s]
  PROVE  sends'[t] = s /\ OnlyCall(t)
<1>1. sends' = [o \in Turns |-> IF o = t THEN s ELSE sends[o]]
  BY DEF SendsAre
<1> QED
  BY <1>1 DEF OnlyCall

LEMMA CloseBecomes ==
  ASSUME SendsAre(sends), NEW t \in Turns, NEW phase, NEW r, Close(t, phase, r)
  PROVE  Closed(sends[t], phase, r, sends'[t]) /\ OnlyCall(t)
<1> DEFINE s == [sends[t] EXCEPT !.phase = phase, !.pos = 0, !.reader = r]
<1>1. sends' = [sends EXCEPT ![t] = s] /\ IsCall(sends[t])
  BY DEF Close, SendsAre
<1>2. Closed(sends[t], phase, r, s)
  BY <1>1, CloseChange
<1> HIDE DEF s
<1> QED
  BY <1>1, <1>2, CallBecomes

LEMMA BeginBecomes ==
  ASSUME SendsAre(sends), NEW t \in Turns, NEW c, NEW shown, Begin(t, c, shown)
  PROVE  Begun(sends[t], c, sends[t].phase = "creating", sends'[t]) /\ OnlyCall(t)
<1> DEFINE fresh == sends[t].phase = "creating"
           s == [sends[t] EXCEPT !.phase = "posting", !.conv = c, !.fresh = fresh]
<1>1. sends' = [sends EXCEPT ![t] = s] /\ IsCall(sends[t])
  BY DEF Begin, SendsAre
<1> HIDE DEF fresh
<1>2. Begun(sends[t], c, fresh, s)
  BY <1>1, BeginChange
<1> HIDE DEF s
<1>3. Begun(sends[t], c, fresh, sends'[t]) /\ OnlyCall(t)
  BY <1>1, <1>2, CallBecomes
<1> QED
  BY <1>3 DEF fresh

LEMMA PhaseBecomes ==
  ASSUME SendsAre(sends), NEW t \in Turns, NEW phase, sends' = [sends EXCEPT ![t].phase = phase]
  PROVE  Phased(sends[t], phase, sends'[t]) /\ OnlyCall(t)
<1> DEFINE s == [sends[t] EXCEPT !.phase = phase]
<1>1. sends' = [sends EXCEPT ![t] = s] /\ IsCall(sends[t])
  BY DEF SendsAre
<1>2. Phased(sends[t], phase, s)
  BY <1>1, PhaseChange
<1> HIDE DEF s
<1> QED
  BY <1>1, <1>2, CallBecomes

LEMMA PostBecomes ==
  ASSUME SendsAre(sends), NEW t \in Turns, ServePost(t)
  PROVE  OnlyCall(t) /\ \E b \in Bodies : Posted(sends[t], b, sends'[t])
<1>1. PICK b \in Bodies : sends' = [sends EXCEPT ![t].phase = "reading", ![t].body = b]
  BY DEF ServePost
<1> DEFINE s == [sends[t] EXCEPT !.phase = "reading", !.body = b]
<1>2. sends' = [sends EXCEPT ![t] = s] /\ IsCall(sends[t])
  BY <1>1 DEF SendsAre
<1>3. Posted(sends[t], b, s)
  BY <1>2, PostChange
<1> HIDE DEF s
<1> QED
  BY <1>2, <1>3, CallBecomes

LEMMA SaveBecomes ==
  ASSUME SendsAre(sends), NEW t \in Turns, SaveAnswer(t)
  PROVE  Saved(sends[t], sends'[t]) /\ OnlyCall(t)
<1> DEFINE s == [sends[t] EXCEPT !.saved = TRUE]
<1>1. sends' = [sends EXCEPT ![t] = s] /\ IsCall(sends[t])
  BY DEF SaveAnswer, SendsAre
<1>2. Saved(sends[t], s)
  BY <1>1, SaveChange
<1> HIDE DEF s
<1> QED
  BY <1>1, <1>2, CallBecomes

LEMMA ChunkBecomes ==
  ASSUME SendsAre(sends), NEW t \in Turns, Chunk(t)
  PROVE  /\ OnlyCall(t)
         /\ \E n \in DOMAIN Remaining(t) : \E r :
              /\ r = Consume(sends[t].reader, SubSeq(Remaining(t), 1, n))
              /\ ~r.terminal /\ Received(sends[t], n, r, sends'[t])
<1>1. PICK n \in DOMAIN Remaining(t) :
             LET r == Consume(sends[t].reader, SubSeq(Remaining(t), 1, n))
             IN  ~r.terminal /\ sends' = [sends EXCEPT ![t].pos = @ + n, ![t].reader = r]
  BY DEF Chunk
<1> DEFINE r == Consume(sends[t].reader, SubSeq(Remaining(t), 1, n))
           s == [sends[t] EXCEPT !.pos = @ + n, !.reader = r]
<1>2. ~r.terminal /\ sends' = [sends EXCEPT ![t].pos = @ + n, ![t].reader = r]
  BY <1>1
<1> HIDE DEF r
<1>3. sends' = [sends EXCEPT ![t] = s] /\ IsCall(sends[t])
  BY <1>2 DEF SendsAre
<1>4. Received(sends[t], n, r, s)
  BY <1>3, ChunkChange
<1> HIDE DEF s
<1>5. Received(sends[t], n, r, sends'[t]) /\ OnlyCall(t)
  BY <1>3, <1>4, CallBecomes
<1> QED
  BY <1>2, <1>5 DEF r

-----------------------------------------------------------------------------
(* What the steps make of a call is a call.                                *)

LEMMA SendIs ==
  ASSUME NEW s, IsCall(s),
         s.phase \in {"idle", "creating", "posting", "reading", "answered", "stopped", "failed"},
         s.conv \in Convs \cup {NoConv}, s.fresh \in BOOLEAN, s.body \in Bodies \cup {<<>>},
         s.pos \in Nat, s.reader \in Readers, s.saved \in BOOLEAN
  PROVE  s \in Sends
BY DEF IsCall, Sends, Readers, Events

LEMMA SendHas ==
  ASSUME NEW s \in Sends
  PROVE  /\ s.phase \in {"idle", "creating", "posting", "reading", "answered", "stopped", "failed"}
         /\ s.conv \in Convs \cup {NoConv} /\ s.fresh \in BOOLEAN /\ s.body \in Bodies \cup {<<>>}
         /\ s.body \in Seq(Symbols)
         /\ s.pos \in Nat /\ s.reader \in Readers /\ s.saved \in BOOLEAN
<1>1. <<>> \in Seq(Symbols) /\ Bodies \subseteq Seq(Symbols)
  BY ChatAssumption
<1> QED
  BY <1>1 DEF Sends, Readers, Events

LEMMA CallGrows ==
  ASSUME NEW s, NEW A, NEW B, CallOK(s, A), A \subseteq B
  PROVE  CallOK(s, B)
BY DEF CallOK

LEMMA CloseOK ==
  ASSUME NEW s, NEW convs, CallOK(s, convs), s.phase \in {"posting", "reading"},
         NEW phase \in {"answered", "stopped", "failed"}, NEW r \in Readers,
         phase = "answered" => r.events = EventsDue(Append(s.body, LF)),
         NEW new, Closed(s, phase, r, new)
  PROVE  CallOK(new, convs)
<1>1. /\ IsCall(new) /\ new.phase = phase /\ new.conv = s.conv /\ new.fresh = s.fresh
      /\ new.body = s.body /\ new.pos = 0 /\ new.reader = r /\ new.saved = s.saved
  BY DEF Closed, Call
<1>2. s \in Sends
  BY DEF CallOK
<1>3. new \in Sends
  BY <1>1, <1>2, SendHas, SendIs
<1> QED
  BY <1>1, <1>3 DEF CallOK, Early

LEMMA BeginOK ==
  ASSUME NEW s, NEW convs, convs \subseteq Convs, CallOK(s, convs), s.phase \in {"idle", "creating"},
         NEW c \in convs, NEW fresh \in BOOLEAN, NEW new, Begun(s, c, fresh, new)
  PROVE  CallOK(new, convs)
<1>1. /\ IsCall(new) /\ new.phase = "posting" /\ new.conv = c /\ new.fresh = fresh
      /\ new.body = s.body /\ new.pos = s.pos /\ new.reader = s.reader /\ new.saved = s.saved
  BY DEF Begun, Call
<1>2. s \in Sends
  BY DEF CallOK
<1>3. new \in Sends
  BY <1>1, <1>2, SendHas, SendIs
<1> QED
  BY <1>1, <1>3 DEF CallOK, Early

LEMMA PhaseOK ==
  ASSUME NEW s, NEW convs, CallOK(s, convs), s.phase \in {"idle", "creating"},
         NEW phase \in {"creating", "failed"}, NEW new, Phased(s, phase, new)
  PROVE  CallOK(new, convs)
<1>1. /\ IsCall(new) /\ new.phase = phase /\ new.conv = s.conv /\ new.fresh = s.fresh
      /\ new.body = s.body /\ new.pos = s.pos /\ new.reader = s.reader /\ new.saved = s.saved
  BY DEF Phased, Call
<1>2. s \in Sends
  BY DEF CallOK
<1>3. new \in Sends
  BY <1>1, <1>2, SendHas, SendIs
<1> QED
  BY <1>1, <1>3 DEF CallOK, Early

LEMMA SaveOK ==
  ASSUME NEW s, NEW convs, CallOK(s, convs), s.body # <<>>, NEW new, Saved(s, new)
  PROVE  CallOK(new, convs)
<1>1. /\ IsCall(new) /\ new.phase = s.phase /\ new.conv = s.conv /\ new.fresh = s.fresh
      /\ new.body = s.body /\ new.pos = s.pos /\ new.reader = s.reader /\ new.saved = TRUE
  BY DEF Saved, Call
<1>2. s \in Sends
  BY DEF CallOK
<1>3. new \in Sends
  BY <1>1, <1>2, SendHas, SendIs
<1> QED
  BY <1>1, <1>3 DEF CallOK, Early

(* The reader starts with a body of which nothing has been received. *)
LEMMA PostOK ==
  ASSUME NEW s, NEW convs, CallOK(s, convs), s.phase = "posting",
         NEW b \in Bodies, NEW new, Posted(s, b, new)
  PROVE  CallOK(new, convs)
<1>1. /\ IsCall(new) /\ new.phase = "reading" /\ new.conv = s.conv /\ new.fresh = s.fresh
      /\ new.body = b /\ new.pos = s.pos /\ new.reader = s.reader /\ new.saved = s.saved
  BY DEF Posted, Call
<1>2. s \in Sends /\ s.pos = 0 /\ s.reader = NewReader /\ s.body = <<>> /\ s.conv \in convs
  BY DEF CallOK, Early
<1>3. new \in Sends
  BY <1>1, <1>2, SendHas, SendIs
<1>4. b \in Seq(Symbols) /\ Len(b) \in Nat
  <2>1. b \in Seq(Symbols)
    BY ChatAssumption
  <2> QED BY <2>1
<1>5. SubSeq(b, 1, 0) = <<>>
  BY <1>4
<1>6. ReaderOf(new.reader, SubSeq(new.body, 1, new.pos)) /\ ~new.reader.terminal
  <2>1. new.reader = NewReader /\ SubSeq(new.body, 1, new.pos) = <<>>
    BY <1>1, <1>2, <1>5
  <2>2. ~NewReader.terminal
    BY DEF NewReader
  <2> QED BY <2>1, <2>2, NewReaderOf
<1>7. new.pos \in 0..Len(new.body)
  BY <1>1, <1>2, <1>4
<1>8. ~s.saved
  BY <1>2 DEF CallOK
<1>9. ~new.saved
  BY <1>1, <1>8
<1> QED
  BY <1>1, <1>2, <1>3, <1>6, <1>7, <1>9 DEF CallOK, Early

(* The first symbols of those that remain are the next ones. *)
LEMMA NextPart ==
  ASSUME NEW b \in Seq(Symbols), NEW p \in 0..Len(b), NEW n \in 1..(Len(b) - p)
  PROVE  SubSeq(SubSeq(b, p + 1, Len(b)), 1, n) = SubSeq(b, p + 1, p + n)
<1> DEFINE rest == SubSeq(b, p + 1, Len(b))
           u == SubSeq(rest, 1, n)
           v == SubSeq(b, p + 1, p + n)
<1>1. Len(b) \in Nat /\ p \in Nat /\ n \in Nat /\ p + n <= Len(b) /\ \A i \in 1..Len(b) : b[i] \in Symbols
  OBVIOUS
<1>2. /\ rest \in Seq(Symbols) /\ Len(rest) = Len(b) - p
      /\ \A i \in 1..(Len(b) - p) : rest[i] = b[p + i]
  <2>1. \A i \in (p + 1)..Len(b) : b[i] \in Symbols
    BY <1>1
  <2>2. rest \in Seq(Symbols) /\ \A i \in 1..(Len(b) - (p + 1) + 1) : rest[i] = b[(p + 1) + i - 1]
    BY <1>1, <2>1, SubSeqProperties
  <2>3. Len(rest) = IF p + 1 <= Len(b) THEN Len(b) - (p + 1) + 1 ELSE 0
    BY <1>1, <2>1, SubSeqProperties
  <2>4. Len(b) - (p + 1) + 1 = Len(b) - p /\ Len(rest) = Len(b) - p
    BY <1>1, <2>3
  <2>5. ASSUME NEW i \in 1..(Len(b) - p) PROVE rest[i] = b[p + i]
    <3>1. (p + 1) + i - 1 = p + i
      BY <1>1
    <3> QED BY <2>2, <2>4, <3>1
  <2> QED BY <2>2, <2>4, <2>5
<1> HIDE DEF rest
<1>3. /\ u \in Seq(Symbols) /\ Len(u) = n /\ \A i \in 1..n : u[i] = rest[i]
  <2>1. \A i \in 1..n : rest[i] \in Symbols
    BY <1>1, <1>2
  <2>2. u \in Seq(Symbols) /\ \A i \in 1..(n - 1 + 1) : u[i] = rest[1 + i - 1]
    BY <1>1, <2>1, SubSeqProperties
  <2>3. Len(u) = IF 1 <= n THEN n - 1 + 1 ELSE 0
    BY <1>1, <2>1, SubSeqProperties
  <2>4. n - 1 + 1 = n /\ Len(u) = n
    BY <1>1, <2>3
  <2>5. ASSUME NEW i \in 1..n PROVE u[i] = rest[i]
    <3>1. 1 + i - 1 = i
      BY <1>1
    <3> QED BY <2>2, <2>4, <3>1
  <2> QED BY <2>2, <2>4, <2>5
<1>4. /\ v \in Seq(Symbols) /\ Len(v) = n /\ \A i \in 1..n : v[i] = b[p + i]
  <2>1. \A i \in (p + 1)..(p + n) : b[i] \in Symbols
    BY <1>1
  <2>2. v \in Seq(Symbols) /\ \A i \in 1..(p + n - (p + 1) + 1) : v[i] = b[(p + 1) + i - 1]
    BY <1>1, <2>1, SubSeqProperties
  <2>3. Len(v) = IF p + 1 <= p + n THEN p + n - (p + 1) + 1 ELSE 0
    BY <1>1, <2>1, SubSeqProperties
  <2>4. p + n - (p + 1) + 1 = n /\ Len(v) = n
    BY <1>1, <2>3
  <2>5. ASSUME NEW i \in 1..n PROVE v[i] = b[p + i]
    <3>1. (p + 1) + i - 1 = p + i
      BY <1>1
    <3> QED BY <2>2, <2>4, <3>1
  <2> QED BY <2>2, <2>4, <2>5
<1> HIDE DEF u, v
<1>5. ASSUME NEW i \in 1..n PROVE u[i] = v[i]
  <2>1. u[i] = rest[i] /\ v[i] = b[p + i]
    BY <1>3, <1>4
  <2>2. i \in 1..(Len(b) - p)
    BY <1>1
  <2> QED BY <1>2, <2>1, <2>2
<1>6. u = v
  BY <1>3, <1>4, <1>5, SeqEqual
<1> QED
  BY <1>6 DEF u, v, rest

(* What has been received after another chunk. *)
LEMMA ChunkReceived ==
  ASSUME NEW s, NEW convs, CallOK(s, convs), s.phase = "reading",
         NEW rest, rest = SubSeq(s.body, s.pos + 1, Len(s.body)),
         NEW n \in DOMAIN rest, NEW r, r = Consume(s.reader, SubSeq(rest, 1, n))
  PROVE  /\ s.body \in Seq(Symbols) /\ s.pos + n \in 0..Len(s.body)
         /\ ReaderOf(r, SubSeq(s.body, 1, s.pos + n))
<1> DEFINE b == s.body
           p == s.pos
<1>1. b \in Seq(Symbols) /\ p \in 0..Len(b) /\ Len(b) \in Nat /\ ReaderOf(s.reader, SubSeq(b, 1, p))
  <2>1. b \in Seq(Symbols) /\ p \in 0..Len(b) /\ ReaderOf(s.reader, SubSeq(b, 1, p))
    BY SendHas DEF CallOK
  <2> QED BY <2>1
<1> HIDE DEF b, p
<1>2. rest = SubSeq(b, p + 1, Len(b))
  BY DEF b, p
<1>3. rest \in Seq(Symbols) /\ Len(rest) = Len(b) - p
  <2>1. p + 1 \in Int /\ Len(b) \in Int /\ \A i \in (p + 1)..Len(b) : b[i] \in Symbols
    BY <1>1
  <2> DEFINE next == SubSeq(b, p + 1, Len(b))
  <2>2. next \in Seq(Symbols)
    BY <2>1, SubSeqProperties
  <2>3. Len(next) = IF p + 1 <= Len(b) THEN Len(b) - (p + 1) + 1 ELSE 0
    BY <2>1, SubSeqProperties
  <2>4. next \in Seq(Symbols) /\ Len(next) = Len(b) - p
    <3> HIDE DEF next
    <3> QED BY <1>1, <2>2, <2>3
  <2> QED BY <1>2, <2>4
<1>4. n \in 1..(Len(b) - p) /\ n \in Nat /\ p \in Nat /\ p + n \in 0..Len(b)
  <2>1. DOMAIN rest = 1..Len(rest)
    BY <1>3
  <2>2. n \in 1..(Len(b) - p)
    BY <1>3, <2>1
  <2> QED BY <1>1, <2>2
<1>5. SubSeq(rest, 1, n) = SubSeq(b, p + 1, p + n)
  BY <1>1, <1>2, <1>4, NextPart
<1>6. SubSeq(b, 1, p) \o SubSeq(b, p + 1, p + n) = SubSeq(b, 1, p + n)
  <2>1. 1 \in 1..(Len(b) + 1) /\ p \in (1 - 1)..Len(b) /\ p + n \in p..Len(b)
    BY <1>1, <1>4
  <2> QED BY <1>1, <2>1, ConcatAdjacentSubSeq
<1>7. SubSeq(b, 1, p) \in Seq(Symbols) /\ SubSeq(b, p + 1, p + n) \in Seq(Symbols)
  BY <1>1, <1>4
<1>8. r = Consume(s.reader, SubSeq(b, p + 1, p + n))
  BY <1>5
<1>9. ReaderOf(r, SubSeq(b, 1, p + n))
  BY <1>1, <1>6, <1>7, <1>8, ConsumesChunk
<1> QED
  BY <1>1, <1>4, <1>9 DEF b, p

LEMMA ChunkOK ==
  ASSUME NEW s, NEW convs, CallOK(s, convs), s.phase = "reading",
         NEW rest, rest = SubSeq(s.body, s.pos + 1, Len(s.body)),
         NEW n \in DOMAIN rest, NEW r, r = Consume(s.reader, SubSeq(rest, 1, n)),
         ~r.terminal, NEW new, Received(s, n, r, new)
  PROVE  CallOK(new, convs)
<1>1. /\ IsCall(new) /\ new.phase = s.phase /\ new.conv = s.conv /\ new.fresh = s.fresh
      /\ new.body = s.body /\ new.pos = s.pos + n /\ new.reader = r /\ new.saved = s.saved
  BY DEF Received, Call
<1>2. s \in Sends /\ s.body \in Bodies /\ s.conv \in convs
  BY DEF CallOK
<1>3. s.pos + n \in 0..Len(s.body) /\ ReaderOf(r, SubSeq(s.body, 1, s.pos + n)) /\ s.body \in Seq(Symbols)
  BY ChunkReceived
<1>4. r \in Readers
  BY <1>3 DEF ReaderOf
<1>5. new.pos \in Nat
  <2>1. Len(s.body) \in Nat
    BY <1>3
  <2> QED BY <1>1, <1>3, <2>1
<1>6. new \in Sends
  BY <1>1, <1>2, <1>4, <1>5, SendHas, SendIs
<1> QED
  BY <1>1, <1>2, <1>3, <1>6 DEF CallOK, Early

(* After an error event the rest of the body changes nothing; at the end of *)
(* the body its last line is read.                                         *)
LEMMA EndReceived ==
  ASSUME NEW s, NEW convs, CallOK(s, convs), s.phase = "reading",
         NEW rest, rest = SubSeq(s.body, s.pos + 1, Len(s.body)), NEW r,
         \/ r.terminal /\ \E n \in DOMAIN rest : r = Consume(s.reader, SubSeq(rest, 1, n))
         \/ rest = <<>> /\ r = Flush(s.reader)
  PROVE  r \in Readers /\ r.events = EventsDue(Append(s.body, LF))
<1> DEFINE b == s.body
           p == s.pos
<1>1. b \in Seq(Symbols) /\ p \in 0..Len(b) /\ Len(b) \in Nat /\ ReaderOf(s.reader, SubSeq(b, 1, p))
      /\ ~s.reader.terminal
  <2>1. b \in Seq(Symbols) /\ p \in 0..Len(b) /\ ReaderOf(s.reader, SubSeq(b, 1, p)) /\ ~s.reader.terminal
    BY SendHas DEF CallOK
  <2> QED BY <2>1
<1>2. CASE r.terminal /\ \E n \in DOMAIN rest : r = Consume(s.reader, SubSeq(rest, 1, n))
  <2>1. PICK n \in DOMAIN rest : r = Consume(s.reader, SubSeq(rest, 1, n))
    BY <1>2
  <2> DEFINE m == p + n
             text == SubSeq(b, 1, m)
             left == SubSeq(b, m + 1, Len(b))
             more == left \o <<LF>>
  <2>2. m \in 0..Len(b) /\ ReaderOf(r, text)
    BY <2>1, ChunkReceived
  <2> HIDE DEF b, p, m
  <2>3. text \in Seq(Symbols) /\ left \in Seq(Symbols) /\ <<LF>> \in Seq(Symbols)
    BY <1>1, <2>2 DEF Symbols
  <2>4. text \o left = b
    <3>1. 1 \in 1..(Len(b) + 1) /\ m \in (1 - 1)..Len(b) /\ Len(b) \in m..Len(b)
      BY <1>1, <2>2
    <3>2. text \o left = SubSeq(b, 1, Len(b))
      BY <1>1, <3>1, ConcatAdjacentSubSeq
    <3> QED BY <1>1, <3>2, SubSeqFull
  <2> HIDE DEF text, left
  <2>5. more \in Seq(Symbols) /\ text \o more = b \o <<LF>>
    <3>1. text \o (left \o <<LF>>) = (text \o left) \o <<LF>>
      BY <2>3, ConcatAssociative
    <3>2. left \o <<LF>> \in Seq(Symbols)
      BY <2>3, ConcatProperties
    <3> QED BY <2>4, <3>1, <3>2
  <2>6. b \o <<LF>> = Append(b, LF)
    BY <1>1, AppendIsConcat DEF Symbols
  <2> HIDE DEF more
  <2>7. Consume(r, more) = r /\ ReaderOf(Consume(r, more), text \o more)
    BY <1>2, <2>2, <2>3, <2>5, ConsumesChunk
  <2>8. ReaderOf(r, Append(b, LF))
    BY <2>5, <2>6, <2>7
  <2> QED BY <2>8 DEF ReaderOf, b
<1>3. CASE rest = <<>> /\ r = Flush(s.reader)
  <2>1. p = Len(b)
    <3> HIDE DEF b, p
    <3>1. rest = SubSeq(b, p + 1, Len(b))
      BY DEF b, p
    <3>2. Len(SubSeq(b, p + 1, Len(b))) = Len(b) - p
      BY <1>1
    <3>3. Len(<<>>) = 0 /\ SubSeq(b, p + 1, Len(b)) = <<>>
      BY <1>3, <3>1
    <3>4. Len(b) - p = 0
      BY <3>2, <3>3
    <3> QED BY <1>1, <3>4
  <2> HIDE DEF b, p
  <2>2. SubSeq(b, 1, p) = b
    BY <1>1, <2>1, SubSeqFull
  <2>3. ReaderOf(r, Append(b, LF))
    BY <1>1, <1>3, <2>2, FlushesLine
  <2> QED BY <2>3 DEF ReaderOf, b
<1> QED BY <1>2, <1>3

-----------------------------------------------------------------------------
(* Every state of the page has the types of TypeOK.                        *)

RefAlive == abortRef # NoTurn => sends[abortRef].phase \in {"posting", "reading"}

DataInv ==
  /\ CallsOK /\ RefAlive
  /\ messages \in Seq(Messages)
  /\ Len(stored) <= MaxConvs /\ selectionNonce \in 0..MaxSelects
  /\ listing \in {"sent", "served", "failed", "idle"}
  /\ messagesLoading \in BOOLEAN /\ signedIn \in BOOLEAN /\ lateList \in BOOLEAN

CallsData == CallsOK' /\ RefAlive'

LEMMA StoredStep ==
  ASSUME IndInv, [Next]_vars, Len(stored) <= MaxConvs
  PROVE  Len(stored') <= MaxConvs /\ Known \subseteq Known' /\ Known \subseteq Convs
<1>1. stored \in Seq(Seq(StoredMessages)) /\ Len(stored) \in Nat /\ MaxConvs \in Nat
  BY ChatAssumption DEF IndInv, ViewInv, Shape
<1>2. CASE Len(stored') = Len(stored)
  BY <1>1, <1>2 DEF Known, Convs
<1>3. CASE \E t \in Turns : ServePost(t) \/ SaveAnswer(t)
  <2>1. PICK t \in Turns : ServePost(t) \/ SaveAnswer(t)
    BY <1>3
  <2>2. Stored(t, "user") \in StoredMessages /\ Stored(t, "assistant") \in StoredMessages
    BY DEF Stored, StoredMessages
  <2>3. Len(stored') = Len(stored)
    BY <1>1, <2>1, <2>2, StoredGrows DEF ServePost, SaveAnswer
  <2> QED BY <1>2, <2>3
<1>4. CASE \E r \in creates : ServeCreate(r)
  <2>1. stored' = Append(stored, <<>>) /\ Len(stored) < MaxConvs
    BY <1>4 DEF ServeCreate
  <2>2. Len(stored') = Len(stored) + 1
    BY <1>1, <2>1, EmptySeq
  <2> QED BY <1>1, <2>1, <2>2 DEF Known, Convs
<1>5. CASE UNCHANGED stored
  BY <1>2, <1>5
<1> QED
  BY <1>3, <1>4, <1>5
     DEF Next, vars, server, User, Retry, Stop, Select, New, Send, ServeList, ListReply, ListFails,
         ServeTranscript, TranscriptReply, TranscriptFails, Creation, CreateReply, CreateFails,
         Chunk, StreamEnds, StreamFails, SessionExpired

(* The calls. *)
LEMMA CallsStay ==
  ASSUME CallsOK, RefAlive, Known \subseteq Known', UNCHANGED <<sends, abortRef>>
  PROVE  CallsData
<1>1. ASSUME NEW t \in Turns PROVE CallOK(sends'[t], Known')
  BY CallGrows DEF CallsOK
<1> QED
  BY <1>1 DEF CallsData, CallsOK, RefAlive

LEMMA CallChanged ==
  ASSUME CallsOK, Known \subseteq Known', NEW t \in Turns, OnlyCall(t), CallOK(sends'[t], Known)
  PROVE  CallsOK'
<1>1. ASSUME NEW o \in Turns PROVE CallOK(sends'[o], Known')
  <2>1. CallOK(sends'[o], Known)
    BY DEF CallsOK, OnlyCall
  <2> QED BY <2>1, CallGrows
<1> QED
  BY <1>1 DEF CallsOK

LEMMA CloseData ==
  ASSUME SendsAre(sends), CallsOK, Known \subseteq Known', NEW t \in Turns, NEW phase, NEW r,
         Close(t, phase, r), sends[t].phase \in {"posting", "reading"},
         phase \in {"answered", "stopped", "failed"}, r \in Readers,
         phase = "answered" => r.events = EventsDue(Append(sends[t].body, LF))
  PROVE  CallsData
<1>1. Closed(sends[t], phase, r, sends'[t]) /\ OnlyCall(t)
  BY CloseBecomes
<1>2. CallOK(sends[t], Known)
  BY DEF CallsOK
<1>3. CallOK(sends'[t], Known)
  BY <1>1, <1>2, CloseOK
<1>4. CallsOK'
  BY <1>1, <1>3, CallChanged
<1> QED
  BY <1>4 DEF CallsData, RefAlive, Close

LEMMA BeginData ==
  ASSUME SendsAre(sends), CallsOK, Known \subseteq Known', Known \subseteq Convs,
         NEW t \in Turns, NEW c \in Known, NEW shown,
         Begin(t, c, shown), sends[t].phase \in {"idle", "creating"}
  PROVE  CallsData
<1> DEFINE fresh == sends[t].phase = "creating"
<1>1. Begun(sends[t], c, fresh, sends'[t]) /\ OnlyCall(t)
  BY BeginBecomes
<1>2. CallOK(sends[t], Known) /\ fresh \in BOOLEAN
  BY DEF CallsOK
<1> HIDE DEF fresh
<1>3. CallOK(sends'[t], Known)
  BY <1>1, <1>2, BeginOK
<1>4. CallsOK'
  BY <1>1, <1>3, CallChanged
<1>5. sends'[t].phase = "posting" /\ abortRef' = t
  BY <1>1 DEF Begun, Call, Begin
<1> QED
  BY <1>4, <1>5 DEF CallsData, RefAlive

LEMMA PhaseData ==
  ASSUME SendsAre(sends), CallsOK, RefAlive, Known \subseteq Known', NEW t \in Turns, NEW phase,
         sends' = [sends EXCEPT ![t].phase = phase], sends[t].phase \in {"idle", "creating"},
         phase \in {"creating", "failed"}, abortRef \in Turns \cup {NoTurn}, UNCHANGED abortRef
  PROVE  CallsData
<1>1. Phased(sends[t], phase, sends'[t]) /\ OnlyCall(t)
  BY PhaseBecomes
<1>2. CallOK(sends[t], Known)
  BY DEF CallsOK
<1>3. CallOK(sends'[t], Known)
  BY <1>1, <1>2, PhaseOK
<1>4. CallsOK'
  BY <1>1, <1>3, CallChanged
<1>5. RefAlive'
  BY <1>1 DEF RefAlive, OnlyCall
<1> QED
  BY <1>4, <1>5 DEF CallsData

LEMMA StreamData ==
  ASSUME SendsAre(sends), CallsOK, RefAlive, Known \subseteq Known', NEW t \in Turns,
         ServePost(t) \/ SaveAnswer(t) \/ Chunk(t), abortRef \in Turns \cup {NoTurn}
  PROVE  CallsData
<1>1. CallOK(sends[t], Known) /\ UNCHANGED abortRef
  BY DEF CallsOK, ServePost, SaveAnswer, Chunk
<1>2. CASE ServePost(t)
  <2>1. PICK b \in Bodies : Posted(sends[t], b, sends'[t])
    BY <1>2, PostBecomes
  <2>2. OnlyCall(t) /\ sends[t].phase = "posting"
    BY <1>2, PostBecomes DEF ServePost
  <2>3. CallOK(sends'[t], Known)
    BY <1>1, <2>1, <2>2, PostOK
  <2>4. CallsOK'
    BY <2>2, <2>3, CallChanged
  <2>5. sends'[t].phase = "reading"
    BY <2>1 DEF Posted, Call
  <2>6. RefAlive'
    BY <1>1, <2>2, <2>5 DEF RefAlive, OnlyCall
  <2> QED BY <2>4, <2>6 DEF CallsData
<1>3. CASE SaveAnswer(t)
  <2>1. Saved(sends[t], sends'[t]) /\ OnlyCall(t)
    BY <1>3, SaveBecomes
  <2>2. sends[t].body # <<>>
    <3>1. "done" \in Range(sends[t].body)
      BY <1>3 DEF SaveAnswer
    <3> QED BY <3>1, NoneHeld
  <2>3. CallOK(sends'[t], Known)
    BY <1>1, <2>1, <2>2, SaveOK
  <2>4. CallsOK'
    BY <2>1, <2>3, CallChanged
  <2>5. sends'[t].phase = sends[t].phase
    BY <2>1 DEF Saved, Call
  <2>6. RefAlive'
    BY <1>1, <2>1, <2>5 DEF RefAlive, OnlyCall
  <2> QED BY <2>4, <2>6 DEF CallsData
<1>4. CASE Chunk(t)
  <2>1. PICK n \in DOMAIN Remaining(t) : \E r :
              /\ r = Consume(sends[t].reader, SubSeq(Remaining(t), 1, n))
              /\ ~r.terminal /\ Received(sends[t], n, r, sends'[t])
    BY <1>4, ChunkBecomes
  <2>2. PICK r : /\ r = Consume(sends[t].reader, SubSeq(Remaining(t), 1, n))
                 /\ ~r.terminal /\ Received(sends[t], n, r, sends'[t])
    BY <2>1
  <2>3. OnlyCall(t) /\ sends[t].phase = "reading"
    BY <1>4, ChunkBecomes DEF Chunk
  <2>4. Remaining(t) = SubSeq(sends[t].body, sends[t].pos + 1, Len(sends[t].body))
    BY DEF Remaining
  <2>5. CallOK(sends'[t], Known)
    BY <1>1, <2>2, <2>3, <2>4, ChunkOK
  <2>6. CallsOK'
    BY <2>3, <2>5, CallChanged
  <2>7. sends'[t].phase = sends[t].phase
    BY <2>2 DEF Received, Call
  <2>8. RefAlive'
    BY <1>1, <2>3, <2>7 DEF RefAlive, OnlyCall
  <2> QED BY <2>6, <2>8 DEF CallsData
<1> QED BY <1>2, <1>3, <1>4

LEMMA NewReaderTyped == NewReader \in Readers
BY NewReaderOf DEF ReaderOf

(* The messages. *)
LEMMA MessageTypes ==
  ASSUME NEW c \in Convs
  PROVE  /\ \A m \in StoredMessages : Loaded(c, m) \in Messages
         /\ \A t \in Turns : Question(c, t) \in Messages
         /\ \A t \in Turns : \A e \in Seq(Events) : Answer(c, t, e) \in Messages
<1>1. <<>> \in Seq(Events) /\ Events = {"delta", "citations", "done", "error"}
  BY EmptySeq DEF Events
<1>2. \A m \in StoredMessages : Loaded(c, m) \in Messages
  <2>1. ASSUME NEW m \in StoredMessages PROVE Loaded(c, m) \in Messages
    <3>1. m.turn \in Turns \cup {NoTurn} /\ m.role \in {"user", "assistant"}
      BY DEF StoredMessages
    <3> QED BY <1>1, <3>1 DEF Loaded, Messages
  <2> QED BY <2>1
<1> QED
  BY <1>1, <1>2 DEF Question, Answer, Messages

LEMMA AppendTyped ==
  ASSUME NEW S, NEW s \in Seq(S), NEW x \in S
  PROVE  Append(s, x) \in Seq(S)
OBVIOUS

(* The stream that ends: its answer has the events of all its lines. *)
LEMMA EndAnswer ==
  ASSUME CallsOK, Known \subseteq Convs, NEW t \in Turns, StreamEnds(t)
  PROVE  \E r \in Readers :
           /\ Close(t, "answered", r) /\ r.events = EventsDue(Append(sends[t].body, LF))
           /\ messages' = Append(messages, Answer(sends[t].conv, t, r.events))
           /\ Answer(sends[t].conv, t, r.events) \in Messages
<1>1. PICK r : /\ \/ r.terminal /\ \E n \in DOMAIN Remaining(t) :
                                        r = Consume(sends[t].reader, SubSeq(Remaining(t), 1, n))
                  \/ Remaining(t) = <<>> /\ r = Flush(sends[t].reader)
               /\ Close(t, "answered", r)
               /\ messages' = Append(messages, Answer(sends[t].conv, t, r.events))
  <2>1. PICK r \in {Consume(sends[t].reader, SubSeq(Remaining(t), 1, n)) : n \in DOMAIN Remaining(t)}
                     \cup (IF Remaining(t) = <<>> THEN {Flush(sends[t].reader)} ELSE {}) :
               /\ r.terminal \/ Remaining(t) = <<>>
               /\ messages' = Append(messages, Answer(sends[t].conv, t, r.events))
               /\ Close(t, "answered", r)
    BY DEF StreamEnds
  <2>2. Remaining(t) = <<>> => DOMAIN Remaining(t) = {}
    OBVIOUS
  <2> QED BY <2>1, <2>2
<1>2. sends[t].phase = "reading" /\ CallOK(sends[t], Known)
  BY DEF StreamEnds, CallsOK
<1>3. Remaining(t) = SubSeq(sends[t].body, sends[t].pos + 1, Len(sends[t].body))
  BY DEF Remaining
<1>4. r \in Readers /\ r.events = EventsDue(Append(sends[t].body, LF))
  <2> DEFINE s == sends[t]
             rest == Remaining(t)
  <2>1. CallOK(s, Known) /\ s.phase = "reading" /\ rest = SubSeq(s.body, s.pos + 1, Len(s.body))
    BY <1>2, <1>3
  <2>2. \/ r.terminal /\ \E n \in DOMAIN rest : r = Consume(s.reader, SubSeq(rest, 1, n))
        \/ rest = <<>> /\ r = Flush(s.reader)
    BY <1>1
  <2>3. r \in Readers /\ r.events = EventsDue(Append(s.body, LF))
    <3> HIDE DEF s, rest
    <3> QED BY <2>1, <2>2, EndReceived
  <2> QED BY <2>3
<1>5. sends[t].conv \in Convs
  BY <1>2 DEF CallOK
<1>6. Answer(sends[t].conv, t, r.events) \in Messages
  BY <1>4, <1>5, MessageTypes DEF Readers
<1> QED
  BY <1>1, <1>4, <1>6

LEMMA EndData ==
  ASSUME SendsAre(sends), CallsOK, Known \subseteq Known', Known \subseteq Convs, NEW t \in Turns,
         StreamEnds(t) \/ StreamFails(t) \/ SessionExpired(t)
  PROVE  CallsData
<1>1. CASE StreamEnds(t)
  <2>1. PICK r \in Readers :
          Close(t, "answered", r) /\ r.events = EventsDue(Append(sends[t].body, LF))
    BY <1>1, EndAnswer
  <2>2. sends[t].phase = "reading"
    BY <1>1 DEF StreamEnds
  <2> QED BY <2>1, <2>2, CloseData
<1>2. CASE StreamFails(t) \/ SessionExpired(t)
  <2>1. Close(t, "failed", NewReader) /\ sends[t].phase \in {"posting", "reading"}
    BY <1>2 DEF StreamFails, SessionExpired, Alive
  <2> QED BY <2>1, NewReaderTyped, CloseData
<1> QED BY <1>1, <1>2

LEMMA AbortData ==
  ASSUME SendsAre(sends), CallsOK, RefAlive, Known \subseteq Known', NEW shown, AbortInto(shown),
         abortRef \in Turns \cup {NoTurn}
  PROVE  CallsData
<1>1. CASE abortRef = NoTurn
  BY <1>1, CallsStay DEF AbortInto, stream
<1>2. CASE abortRef # NoTurn
  <2>1. Close(abortRef, "stopped", NewReader) /\ abortRef \in Turns
    BY <1>2 DEF AbortInto
  <2>2. sends[abortRef].phase \in {"posting", "reading"}
    BY <1>2 DEF RefAlive
  <2> QED BY <2>1, <2>2, NewReaderTyped, CloseData
<1> QED BY <1>1, <1>2

LEMMA CallsDataStep == IndInv /\ DataInv /\ [Next]_vars => CallsData
<1> SUFFICES ASSUME IndInv, DataInv, [Next]_vars PROVE CallsData
  OBVIOUS
<1>1. /\ SendsAre(sends) /\ CallsOK /\ RefAlive /\ abortRef \in Turns \cup {NoTurn}
      /\ Known \subseteq Known' /\ Known \subseteq Convs /\ activeId \in {NoConv} \cup Known
  BY StoredStep DEF DataInv, IndInv, StreamInv, Calls, Streaming, ViewInv, Shape
<1>2. CASE UNCHANGED <<sends, abortRef>>
  BY <1>1, <1>2, CallsStay
<1>3. CASE User
  <2>1. CASE Retry \/ \E s \in Scopes : New(s)
    BY <1>2, <2>1 DEF Retry, New, stream
  <2>2. CASE Stop \/ \E c \in Convs : Select(c)
    BY <1>1, <2>2, AbortData DEF Stop, Select
  <2>3. ASSUME NEW t \in Turns, Send(t) PROVE CallsData
    <3>1. sends[t].phase = "idle"
      BY <2>3 DEF Send, Unasked
    <3>2. CASE activeId # NoConv /\ SendNow(t)
      BY <1>1, <3>1, <3>2, BeginData DEF SendNow
    <3>3. CASE /\ sends' = [sends EXCEPT ![t].phase = "creating"]
               /\ UNCHANGED abortRef
      BY <1>1, <3>1, <3>3, PhaseData
    <3> QED BY <2>3, <3>2, <3>3 DEF Send
  <2> QED
    BY <1>3, <2>1, <2>2, <2>3 DEF User
<1>4. CASE \/ ServeList \/ ListReply \/ ListFails
           \/ ServeTranscript \/ TranscriptReply \/ TranscriptFails \/ UNCHANGED vars
  BY <1>2, <1>4 DEF ServeList, ListReply, ListFails, ServeTranscript, TranscriptReply,
                    TranscriptFails, stream, vars
<1>5. ASSUME NEW r \in creates, ServeCreate(r) \/ Creation(r) PROVE CallsData
  <2>1. /\ r.by \in Turns \cup {NoTurn} /\ (r.by # NoTurn => sends[r.by].phase = "creating")
        /\ r.conv \in {NoConv} \cup Known
    BY DEF IndInv, StreamInv, Calls, ViewInv, Shape
  <2>2. CASE ServeCreate(r)
    BY <1>2, <2>2 DEF ServeCreate, stream
  <2>3. CASE CreateFails(r)
    <3>1. UNCHANGED abortRef
      BY <2>3 DEF CreateFails
    <3>2. CASE r.by = NoTurn
      BY <1>2, <2>3, <3>1, <3>2 DEF CreateFails
    <3>3. CASE r.by # NoTurn
      <4>1. sends' = [sends EXCEPT ![r.by].phase = "failed"] /\ r.by \in Turns
        BY <2>1, <2>3, <3>3 DEF CreateFails
      <4> QED BY <1>1, <2>1, <3>1, <3>3, <4>1, PhaseData
    <3> QED BY <3>2, <3>3
  <2>4. CASE CreateReply(r)
    <3>1. r.conv \in Known
      BY <2>1, <2>4 DEF CreateReply
    <3>2. CASE UNCHANGED stream
      BY <1>2, <3>2 DEF stream
    <3>3. CASE r.by # NoTurn /\ Begin(r.by, r.conv, <<>>)
      BY <1>1, <2>1, <3>1, <3>3, BeginData
    <3> QED BY <2>4, <3>2, <3>3 DEF CreateReply
  <2> QED
    BY <1>5, <2>2, <2>3, <2>4 DEF Creation
<1>6. ASSUME NEW t \in Turns,
             ServePost(t) \/ SaveAnswer(t) \/ Chunk(t) \/ StreamEnds(t) \/ StreamFails(t)
               \/ SessionExpired(t)
      PROVE  CallsData
  BY <1>1, <1>6, StreamData, EndData
<1> QED
  BY <1>3, <1>4, <1>5, <1>6 DEF Next

LEMMA BeginTyped ==
  ASSUME NEW t \in Turns, NEW c \in Convs, NEW shown \in Seq(Messages), Begin(t, c, shown)
  PROVE  messages' \in Seq(Messages)
<1>1. messages' = Append(shown, Question(c, t)) /\ Question(c, t) \in Messages
  BY MessageTypes DEF Begin
<1> QED
  BY <1>1, AppendTyped

(* What is kept of a stopped stream. *)
LEMMA PartialIs ==
  ASSUME CallsOK, Known \subseteq Convs, NEW t \in Turns, Alive(t)
  PROVE  \E x \in Messages : /\ x.turn = t /\ x.role = "assistant"
                             /\ Partial(t) = <<x>> \/ Partial(t) = <<>>
<1> DEFINE x == Answer(sends[t].conv, t, sends[t].reader.events)
<1>1. CallOK(sends[t], Known)
  BY DEF CallsOK
<1>2. sends[t].conv \in Convs /\ sends[t].reader \in Readers
  BY <1>1, SendHas DEF CallOK, Alive
<1>3. x \in Messages /\ x.turn = t /\ x.role = "assistant"
  BY <1>2, MessageTypes DEF Readers, Answer
<1>4. Partial(t) = <<x>> \/ Partial(t) = <<>>
  BY DEF Partial
<1> HIDE DEF x
<1> QED BY <1>3, <1>4

LEMMA AbortTyped ==
  ASSUME CallsOK, RefAlive, Known \subseteq Convs, abortRef \in Turns \cup {NoTurn},
         NEW shown \in Seq(Messages), AbortInto(shown)
  PROVE  messages' \in Seq(Messages)
<1>1. CASE abortRef = NoTurn
  BY <1>1 DEF AbortInto
<1>2. CASE abortRef # NoTurn
  <2>1. messages' = shown \o Partial(abortRef) /\ abortRef \in Turns /\ Alive(abortRef)
    BY <1>2 DEF AbortInto, RefAlive, Alive
  <2>2. PICK x \in Messages : Partial(abortRef) = <<x>> \/ Partial(abortRef) = <<>>
    BY <2>1, PartialIs
  <2>3. Partial(abortRef) \in Seq(Messages)
    <3>1. <<x>> \in Seq(Messages) /\ <<>> \in Seq(Messages)
      OBVIOUS
    <3> QED BY <2>2, <3>1
  <2> QED BY <2>1, <2>3, ConcatProperties
<1> QED BY <1>1, <1>2

LEMMA EndTyped ==
  ASSUME CallsOK, Known \subseteq Convs, messages \in Seq(Messages), NEW t \in Turns, StreamEnds(t)
  PROVE  messages' \in Seq(Messages)
BY EndAnswer, AppendTyped

LEMMA ReplyTyped ==
  ASSUME IndInv, Known \subseteq Convs, TranscriptReply
  PROVE  messages' \in Seq(Messages)
<1>1. transcript.conv \in Convs /\ transcript.items \in Seq(StoredMessages)
  <2>1. /\ transcript.conv \in {NoConv} \cup Known /\ transcript.items \in Seq(StoredMessages)
    BY DEF IndInv, ViewInv, Shape
  <2>2. transcript.stage = "served" /\ NoTranscript.stage = "none"
    BY DEF TranscriptReply, NoTranscript
  <2>3. transcript.conv # NoConv
    BY <2>2 DEF IndInv, ViewInv, Belonging
  <2> QED BY <2>1, <2>3
<1> DEFINE c == transcript.conv
           s == transcript.items
<1>2. messages' = [i \in DOMAIN s |-> Loaded(c, s[i])]
  BY DEF TranscriptReply
<1>3. s \in Seq(StoredMessages) /\ c \in Convs
  BY <1>1
<1> HIDE DEF c, s
<1>4. DOMAIN s = 1..Len(s) /\ Len(s) \in Nat /\ \A i \in 1..Len(s) : s[i] \in StoredMessages
  BY <1>3
<1>5. \A i \in 1..Len(s) : Loaded(c, s[i]) \in Messages
  BY <1>3, <1>4, MessageTypes
<1> QED
  BY <1>2, <1>4, <1>5

LEMMA MessagesStep == IndInv /\ DataInv /\ [Next]_vars => messages' \in Seq(Messages)
<1> SUFFICES ASSUME IndInv, DataInv, [Next]_vars PROVE messages' \in Seq(Messages)
  OBVIOUS
<1>1. /\ CallsOK /\ RefAlive /\ abortRef \in Turns \cup {NoTurn} /\ messages \in Seq(Messages)
      /\ Known \subseteq Convs /\ activeId \in {NoConv} \cup Known /\ <<>> \in Seq(Messages)
  BY StoredStep DEF DataInv, IndInv, StreamInv, Calls, Streaming, ViewInv, Shape
<1>2. CASE UNCHANGED messages
  BY <1>1, <1>2
<1>3. CASE User
  <2>1. CASE Retry \/ \E s \in Scopes : New(s)
    BY <1>2, <2>1 DEF Retry, New, view
  <2>2. CASE Stop \/ \E c \in Convs : Select(c)
    BY <1>1, <2>2, AbortTyped DEF Stop, Select
  <2>3. ASSUME NEW t \in Turns, Send(t) PROVE messages' \in Seq(Messages)
    <3>1. CASE activeId # NoConv /\ SendNow(t)
      BY <1>1, <3>1, BeginTyped DEF SendNow
    <3> QED BY <1>2, <2>3, <3>1 DEF Send
  <2> QED
    BY <1>3, <2>1, <2>2, <2>3 DEF User
<1>4. CASE ServeList \/ ListReply \/ ListFails \/ ServeTranscript \/ TranscriptFails \/ UNCHANGED vars
  BY <1>2, <1>4 DEF ServeList, ListReply, ListFails, ServeTranscript, TranscriptFails, view, vars
<1>5. CASE TranscriptReply
  BY <1>1, <1>5, ReplyTyped
<1>6. ASSUME NEW r \in creates, ServeCreate(r) \/ Creation(r) PROVE messages' \in Seq(Messages)
  <2>1. r.by \in Turns \cup {NoTurn} /\ r.conv \in {NoConv} \cup Known
    BY DEF IndInv, StreamInv, Calls, ViewInv, Shape
  <2>2. CASE ServeCreate(r) \/ CreateFails(r)
    BY <1>2, <2>2 DEF ServeCreate, CreateFails, view
  <2>3. CASE CreateReply(r)
    <3>1. r.conv \in Convs
      BY <1>1, <2>1, <2>3 DEF CreateReply
    <3>2. CASE messages' = <<>>
      BY <1>1, <3>2
    <3>3. CASE r.by # NoTurn /\ Begin(r.by, r.conv, <<>>)
      BY <1>1, <2>1, <3>1, <3>3, BeginTyped
    <3> QED BY <2>3, <3>2, <3>3 DEF CreateReply
  <2> QED
    BY <1>6, <2>2, <2>3 DEF Creation
<1>7. ASSUME NEW t \in Turns,
             ServePost(t) \/ SaveAnswer(t) \/ Chunk(t) \/ StreamEnds(t) \/ StreamFails(t)
               \/ SessionExpired(t)
      PROVE  messages' \in Seq(Messages)
  <2>1. CASE StreamEnds(t)
    BY <1>1, <2>1, EndTyped
  <2>2. CASE ~StreamEnds(t)
    BY <1>2, <1>7, <2>2 DEF ServePost, SaveAnswer, Chunk, StreamFails, SessionExpired, view
  <2> QED BY <2>1, <2>2
<1> QED
  BY <1>3, <1>4, <1>5, <1>6, <1>7 DEF Next

(* The rest: what is not about calls and messages. *)
LEMMA FlagsStep ==
  ASSUME DataInv, [Next]_vars
  PROVE  /\ messagesLoading' \in BOOLEAN /\ signedIn' \in BOOLEAN /\ lateList' \in BOOLEAN
         /\ listing' \in {"sent", "served", "failed", "idle"}
         /\ selectionNonce' \in 0..MaxSelects
<1>1. listing' \in {"sent", "served", "failed", "idle"}
  BY DEF DataInv, Next, vars, sidebar, User, Retry, Stop, Select, New, Send, ServeList, ListReply, ListFails,
         ServeTranscript, TranscriptReply, TranscriptFails, Creation, ServeCreate, CreateReply, CreateFails,
         ServePost, SaveAnswer, Chunk, StreamEnds, StreamFails, SessionExpired
<1>2. selectionNonce' \in 0..MaxSelects
  <2>1. selectionNonce \in 0..MaxSelects /\ MaxSelects \in Nat
    BY ChatAssumption DEF DataInv
  <2>2. \/ selectionNonce' = selectionNonce
        \/ selectionNonce < MaxSelects /\ selectionNonce' = selectionNonce + 1
    BY DEF Next, vars, view, User, Retry, Stop, Select, New, Send, ServeList, ListReply, ListFails,
         ServeTranscript, TranscriptReply, TranscriptFails, Creation, ServeCreate, CreateReply, CreateFails,
         ServePost, SaveAnswer, Chunk, StreamEnds, StreamFails, SessionExpired
  <2> QED BY <2>1, <2>2
<1>3. messagesLoading' \in BOOLEAN
  BY Zenon DEF DataInv, Next, vars, view, User, Retry, Stop, Select, New, Send, SendNow, ServeList, ListReply, ListFails,
         ServeTranscript, TranscriptReply, TranscriptFails, Creation, ServeCreate, CreateReply, CreateFails,
         ServePost, SaveAnswer, Chunk, StreamEnds, StreamFails, SessionExpired
<1>4. signedIn' \in BOOLEAN
  BY Zenon DEF DataInv, Next, vars, User, Retry, Stop, Select, New, Send, ServeList, ListReply, ListFails,
         ServeTranscript, TranscriptReply, TranscriptFails, Creation, ServeCreate, CreateReply, CreateFails,
         ServePost, SaveAnswer, Chunk, StreamEnds, StreamFails, SessionExpired
<1>5. lateList' \in BOOLEAN
  BY Zenon DEF DataInv, Next, vars, history, User, Retry, Stop, Select, New, Send, ServeList, ListReply, ListFails,
         ServeTranscript, TranscriptReply, TranscriptFails, Creation, ServeCreate, CreateReply, CreateFails,
         ServePost, SaveAnswer, Chunk, StreamEnds, StreamFails, SessionExpired
<1> QED
  BY <1>1, <1>2, <1>3, <1>4, <1>5

LEMMA DataStep == IndInv /\ DataInv /\ [Next]_vars => DataInv'
<1> SUFFICES ASSUME IndInv, DataInv, [Next]_vars PROVE DataInv'
  OBVIOUS
<1>1. CallsOK' /\ RefAlive'
  BY CallsDataStep DEF CallsData
<1>2. messages' \in Seq(Messages)
  BY MessagesStep
<1>3. Len(stored') <= MaxConvs
  BY StoredStep DEF DataInv
<1> QED
  BY <1>1, <1>2, <1>3, FlagsStep DEF DataInv

LEMMA InitialData == Init => DataInv
<1> SUFFICES ASSUME Init PROVE DataInv
  OBVIOUS
<1>1. CallOK(NoSend, Known)
  <2>1. NoSend \in Sends
    BY NewReaderTyped, EmptySeq DEF NoSend, Sends, Readers, Events
  <2> QED BY <2>1 DEF NoSend, CallOK, Early
<1>2. CallsOK
  BY <1>1 DEF Init, CallsOK
<1>3. RefAlive /\ messages \in Seq(Messages) /\ selectionNonce \in 0..MaxSelects
  BY ChatAssumption, EmptySeq DEF Init, RefAlive
<1>4. Len(stored) <= MaxConvs
  BY ChatAssumption DEF Init
<1> QED
  BY <1>2, <1>3, <1>4 DEF Init, DataInv

LEMMA Typed == IndInv /\ DataInv => TypeOK
<1> SUFFICES ASSUME IndInv, DataInv PROVE TypeOK
  OBVIOUS
<1>1. Known \subseteq Convs
  <2>1. Len(stored) \in Nat /\ Len(stored) <= MaxConvs /\ MaxConvs \in Nat
    BY ChatAssumption DEF IndInv, ViewInv, Shape, DataInv
  <2> QED BY <2>1 DEF Known, Convs
<1>2. sessions \in Seq(Convs) /\ listReply \in Seq(Convs) /\ activeId \in Convs \cup {NoConv}
  BY <1>1, SeqMonotonic DEF IndInv, ViewInv, Shape
<1>3. transcript \in [conv : Convs \cup {NoConv}, stage : {"none", "sent", "served"},
                     items : Seq(StoredMessages)]
  BY <1>1 DEF IndInv, ViewInv, Shape
<1>4. sends \in [Turns -> Sends]
  <2>1. \A t \in Turns : sends[t] \in Sends
    BY DEF DataInv, CallsOK, CallOK
  <2>2. sends = [t \in Turns |-> sends[t]]
    BY DEF IndInv, StreamInv, Calls, SendsAre
  <2> QED BY <2>1, <2>2
<1>5. creates \subseteq [by : Turns \cup {NoTurn}, scope : Scopes, conv : Convs \cup {NoConv}]
  <2>1. ASSUME NEW r \in creates
        PROVE  r \in [by : Turns \cup {NoTurn}, scope : Scopes, conv : Convs \cup {NoConv}]
    <3>1. /\ r = [by |-> r.by, scope |-> r.scope, conv |-> r.conv]
          /\ r.conv \in {NoConv} \cup Known /\ r.scope \in Scopes /\ r.by \in Turns \cup {NoTurn}
      BY DEF IndInv, ViewInv, Shape, StreamInv, Calls
    <3> QED BY <1>1, <3>1
  <2> QED BY <2>1
<1>6. {messagesLoading, streaming, signedIn, overlapped, lateList} \subseteq BOOLEAN
  <2>1. /\ messagesLoading \in BOOLEAN /\ streaming \in BOOLEAN /\ signedIn \in BOOLEAN
        /\ overlapped \in BOOLEAN /\ lateList \in BOOLEAN
    BY DEF DataInv, IndInv, StreamInv, Streaming
  <2> QED BY <2>1
<1> QED
  BY <1>2, <1>3, <1>4, <1>5, <1>6
     DEF TypeOK, DataInv, IndInv, ViewInv, Shape, StreamInv, Streaming

LEMMA EventsRead == DataInv => EventsAsSent
<1> SUFFICES ASSUME DataInv, NEW t \in Turns
             PROVE  /\ sends[t].phase = "reading" =>
                         sends[t].reader.events = EventsDue(SubSeq(sends[t].body, 1, sends[t].pos))
                    /\ sends[t].phase = "answered" =>
                         sends[t].reader.events = EventsDue(Append(sends[t].body, LF))
  BY DEF EventsAsSent
<1>1. CallOK(sends[t], Known)
  BY DEF DataInv, CallsOK
<1> QED
  BY <1>1 DEF CallOK, ReaderOf

LEMMA DataInvariance == Spec => [](IndInv /\ DataInv)
<1>1. Init => IndInv /\ DataInv
  BY Initially, InitialData
<1>2. (IndInv /\ DataInv) /\ [Next]_vars => (IndInv /\ DataInv)'
  BY Inductive, DataStep
<1> QED
  BY <1>1, <1>2, PTL DEF Spec

(* Every state has the types of TypeOK.                                    *)
THEOREM TypeCorrect == Spec => []TypeOK
<1> QED
  BY DataInvariance, Typed, PTL

(* However the body is cut, the events passed on are those of its lines.   *)
THEOREM EventsCorrect == Spec => []EventsAsSent
<1> QED
  BY DataInvariance, EventsRead, PTL

-----------------------------------------------------------------------------
(* No turn is shown twice.                                                 *)

Same(m, n) == m.turn = n.turn /\ m.role = n.role

(* A turn that may be shown twice. *)
Excused(t) == t \in Turns /\ (overlapped \/ sends[t].fresh)

NoneTwice(s) == \A i, j \in DOMAIN s : i < j /\ Same(s[i], s[j]) => Excused(s[i].turn)

(* The transcript of a conversation has each message once, and only of     *)
(* questions that have been sent to it.                                    *)
Transcribed(s, c, calls) ==
  /\ \A i, j \in DOMAIN s : Same(s[i], s[j]) => i = j
  /\ \A i \in DOMAIN s : s[i].turn \in Turns =>
       /\ calls[s[i].turn].conv = c /\ calls[s[i].turn].phase \notin Early
       /\ s[i].role = "assistant" => calls[s[i].turn].saved

StoredOnce  == \A c \in Known : Transcribed(stored[c], c, sends)
FetchedOnce == Transcribed(transcript.items, transcript.conv, sends)

ShownBegun ==
  \A m \in Range(messages) : m.turn \in Turns => sends[m.turn].phase \notin Waiting

(* While an answer is streamed it is not shown, and nothing on its way can *)
(* show it: another conversation may be loading or may have been created,  *)
(* but not the one it is streamed for.                                     *)
Unanswered(t) ==
  /\ \A m \in Range(messages) : ~(m.turn = t /\ m.role = "assistant")
  /\ transcript # NoTranscript => transcript.conv # sends[t].conv
  /\ activeId # sends[t].conv =>
       \A r \in creates : r.by = NoTurn => r.conv # sends[t].conv

AnswersAway == \A t \in Turns : Alive(t) /\ ~Excused(t) => Unanswered(t)

OneNew ==
  /\ \A r, o \in creates : r.by = NoTurn /\ o.by = NoTurn => r = o
  /\ \A t \in Turns : Alive(t) => activeId # NoConv

OnceInv ==
  /\ NoneTwice(messages) /\ StoredOnce /\ FetchedOnce /\ ShownBegun /\ AnswersAway /\ OneNew

-----------------------------------------------------------------------------
(* What becomes of a call. *)
Later(s, new, begun) ==
  /\ s.phase \notin Waiting =>
       new.phase \notin Waiting /\ new.conv = s.conv /\ new.fresh = s.fresh
  /\ s.phase \notin Early => new.phase \notin Early
  /\ s.saved => new.saved
  /\ new.phase \in {"posting", "reading"} => s.phase \in {"posting", "reading"} \/ begun

AllLater == \A t \in Turns : Later(sends[t], sends'[t], abortRef' = t)

LEMMA OneLater ==
  ASSUME NEW t \in Turns, OnlyCall(t), Later(sends[t], sends'[t], abortRef' = t)
  PROVE  AllLater
<1>1. ASSUME NEW o \in Turns \ {t} PROVE Later(sends[o], sends'[o], abortRef' = o)
  BY DEF OnlyCall, Later
<1> QED
  BY <1>1 DEF AllLater

LEMMA NoneLater ==
  ASSUME UNCHANGED sends
  PROVE  AllLater
BY DEF AllLater, Later

LEMMA CloseLater ==
  ASSUME SendsAre(sends), NEW t \in Turns, NEW phase \in {"answered", "stopped", "failed"}, NEW r,
         Close(t, phase, r), sends[t].phase \in {"posting", "reading"}
  PROVE  AllLater
<1>1. Closed(sends[t], phase, r, sends'[t]) /\ OnlyCall(t)
  BY CloseBecomes
<1>2. Later(sends[t], sends'[t], abortRef' = t)
  BY <1>1 DEF Closed, Call, Later, Waiting, Early
<1> QED
  BY <1>1, <1>2, OneLater

LEMMA BeginLater ==
  ASSUME SendsAre(sends), NEW t \in Turns, NEW c, NEW shown, Begin(t, c, shown),
         sends[t].phase \in Waiting
  PROVE  AllLater
<1> DEFINE fresh == sends[t].phase = "creating"
<1>1. Begun(sends[t], c, fresh, sends'[t]) /\ OnlyCall(t) /\ abortRef' = t
  BY BeginBecomes DEF Begin
<1> HIDE DEF fresh
<1>2. Later(sends[t], sends'[t], abortRef' = t)
  BY <1>1 DEF Begun, Call, Later, Waiting, Early
<1> QED
  BY <1>1, <1>2, OneLater

LEMMA PhaseLater ==
  ASSUME SendsAre(sends), NEW t \in Turns, NEW phase \in {"creating", "failed"},
         sends' = [sends EXCEPT ![t].phase = phase], sends[t].phase \in Waiting
  PROVE  AllLater
<1>1. Phased(sends[t], phase, sends'[t]) /\ OnlyCall(t)
  BY PhaseBecomes
<1>2. Later(sends[t], sends'[t], abortRef' = t)
  BY <1>1 DEF Phased, Call, Later, Waiting, Early
<1> QED
  BY <1>1, <1>2, OneLater

LEMMA ReadingLater ==
  ASSUME SendsAre(sends), NEW t \in Turns, ServePost(t) \/ SaveAnswer(t) \/ Chunk(t)
  PROVE  AllLater
<1>1. CASE ServePost(t)
  <2>1. PICK b \in Bodies : Posted(sends[t], b, sends'[t])
    BY <1>1, PostBecomes
  <2>2. OnlyCall(t) /\ sends[t].phase = "posting"
    BY <1>1, PostBecomes DEF ServePost
  <2>3. Later(sends[t], sends'[t], abortRef' = t)
    BY <2>1, <2>2 DEF Posted, Call, Later, Waiting, Early
  <2> QED BY <2>2, <2>3, OneLater
<1>2. CASE SaveAnswer(t)
  <2>1. Saved(sends[t], sends'[t]) /\ OnlyCall(t)
    BY <1>2, SaveBecomes
  <2>2. Later(sends[t], sends'[t], abortRef' = t)
    BY <2>1 DEF Saved, Call, Later, Waiting, Early
  <2> QED BY <2>1, <2>2, OneLater
<1>3. CASE Chunk(t)
  <2>1. PICK n \in DOMAIN Remaining(t) : \E r : Received(sends[t], n, r, sends'[t])
    BY <1>3, ChunkBecomes
  <2>2. PICK r : Received(sends[t], n, r, sends'[t])
    BY <2>1
  <2>3. OnlyCall(t)
    BY <1>3, ChunkBecomes
  <2>4. Later(sends[t], sends'[t], abortRef' = t)
    BY <2>2 DEF Received, Call, Later, Waiting, Early
  <2> QED BY <2>3, <2>4, OneLater
<1> QED BY <1>1, <1>2, <1>3

LEMMA AbortLater ==
  ASSUME SendsAre(sends), RefAlive, abortRef \in Turns \cup {NoTurn}, NEW shown, AbortInto(shown)
  PROVE  AllLater
<1>1. CASE abortRef = NoTurn
  BY <1>1, NoneLater DEF AbortInto, stream
<1>2. CASE abortRef # NoTurn
  BY <1>2, CloseLater DEF AbortInto, RefAlive
<1> QED BY <1>1, <1>2

LEMMA EndLater ==
  ASSUME SendsAre(sends), NEW t \in Turns, StreamEnds(t) \/ StreamFails(t) \/ SessionExpired(t)
  PROVE  AllLater
<1>1. PICK r : Close(t, "answered", r) \/ Close(t, "failed", r)
  BY DEF StreamEnds, StreamFails, SessionExpired
<1>2. sends[t].phase \in {"posting", "reading"}
  BY DEF StreamEnds, StreamFails, SessionExpired, Alive
<1> QED BY <1>1, <1>2, CloseLater

LEMMA CallsLater == IndInv /\ DataInv /\ [Next]_vars => AllLater
<1> SUFFICES ASSUME IndInv, DataInv, [Next]_vars PROVE AllLater
  OBVIOUS
<1>1. SendsAre(sends) /\ RefAlive /\ abortRef \in Turns \cup {NoTurn}
  BY DEF DataInv, IndInv, StreamInv, Calls, Streaming
<1>2. CASE UNCHANGED sends
  BY <1>2, NoneLater
<1>3. CASE User
  <2>1. CASE Retry \/ \E s \in Scopes : New(s)
    BY <1>2, <2>1 DEF Retry, New, stream
  <2>2. CASE Stop \/ \E c \in Convs : Select(c)
    BY <1>1, <2>2, AbortLater DEF Stop, Select
  <2>3. ASSUME NEW t \in Turns, Send(t) PROVE AllLater
    <3>1. sends[t].phase \in Waiting
      BY <2>3 DEF Send, Unasked, Waiting
    <3>2. CASE SendNow(t)
      BY <1>1, <3>1, <3>2, BeginLater DEF SendNow
    <3>3. CASE sends' = [sends EXCEPT ![t].phase = "creating"]
      BY <1>1, <3>1, <3>3, PhaseLater
    <3> QED BY <2>3, <3>2, <3>3 DEF Send
  <2> QED BY <1>3, <2>1, <2>2, <2>3 DEF User
<1>4. CASE \/ ServeList \/ ListReply \/ ListFails
           \/ ServeTranscript \/ TranscriptReply \/ TranscriptFails \/ UNCHANGED vars
  BY <1>2, <1>4 DEF ServeList, ListReply, ListFails, ServeTranscript, TranscriptReply,
                    TranscriptFails, stream, vars
<1>5. ASSUME NEW r \in creates, ServeCreate(r) \/ Creation(r) PROVE AllLater
  <2>1. r.by \in Turns \cup {NoTurn} /\ (r.by # NoTurn => sends[r.by].phase \in Waiting)
    BY DEF IndInv, StreamInv, Calls, Waiting
  <2>2. CASE ServeCreate(r)
    BY <1>2, <2>2 DEF ServeCreate, stream
  <2>3. CASE CreateFails(r)
    <3>1. CASE r.by = NoTurn
      BY <1>2, <2>3, <3>1 DEF CreateFails
    <3>2. CASE r.by # NoTurn
      <4>1. sends' = [sends EXCEPT ![r.by].phase = "failed"] /\ r.by \in Turns
        BY <2>1, <2>3, <3>2 DEF CreateFails
      <4> QED BY <1>1, <2>1, <3>2, <4>1, PhaseLater
    <3> QED BY <3>1, <3>2
  <2>4. CASE CreateReply(r)
    <3>1. CASE UNCHANGED stream
      BY <1>2, <3>1 DEF stream
    <3>2. CASE r.by # NoTurn /\ Begin(r.by, r.conv, <<>>)
      BY <1>1, <2>1, <3>2, BeginLater
    <3> QED BY <2>4, <3>1, <3>2 DEF CreateReply
  <2> QED BY <1>5, <2>2, <2>3, <2>4 DEF Creation
<1>6. ASSUME NEW t \in Turns,
             ServePost(t) \/ SaveAnswer(t) \/ Chunk(t) \/ StreamEnds(t) \/ StreamFails(t)
               \/ SessionExpired(t)
      PROVE  AllLater
  BY <1>1, <1>6, ReadingLater, EndLater
<1> QED
  BY <1>3, <1>4, <1>5, <1>6 DEF Next

(* What is excused stays so. *)
LEMMA OverlapStays == [Next]_vars /\ overlapped => overlapped'
<1> SUFFICES ASSUME [Next]_vars, overlapped PROVE overlapped'
  OBVIOUS
<1>1. ASSUME NEW t, NEW c, NEW shown, Begin(t, c, shown) PROVE overlapped'
  BY <1>1, Zenon DEF Begin
<1>2. CASE UNCHANGED overlapped
  BY <1>2
<1>3. ASSUME NEW t \in Turns, Send(t) PROVE overlapped'
  BY <1>1, <1>2, <1>3 DEF Send, SendNow
<1>4. ASSUME NEW r \in creates, CreateReply(r) PROVE overlapped'
  BY <1>1, <1>2, <1>4 DEF CreateReply
<1> QED
  BY <1>2, <1>3, <1>4
     DEF Next, vars, history, User, Retry, Stop, Select, New, ServeList, ListReply, ListFails,
         ServeTranscript, TranscriptReply, TranscriptFails, Creation, ServeCreate, CreateFails,
         ServePost, SaveAnswer, Chunk, StreamEnds, StreamFails, SessionExpired

ExcusesStay ==
  \A t \in Turns : overlapped \/ sends[t].fresh => overlapped' \/ sends'[t].fresh

LEMMA ExcusedStays ==
  ASSUME IndInv, [Next]_vars, AllLater
  PROVE  ExcusesStay
<1> SUFFICES ASSUME NEW t \in Turns, overlapped \/ sends[t].fresh
             PROVE  overlapped' \/ sends'[t].fresh
  BY DEF ExcusesStay
<1>1. CASE overlapped
  BY <1>1, OverlapStays
<1>2. CASE sends[t].fresh
  <2>1. sends[t].phase \notin Waiting
    BY <1>2 DEF IndInv, StreamInv, Calls
  <2>2. sends'[t].fresh = sends[t].fresh
    BY <2>1 DEF AllLater, Later
  <2> QED BY <1>2, <2>2
<1> QED BY <1>1, <1>2

-----------------------------------------------------------------------------
(* The transcripts. *)
LEMMA TranscriptStays ==
  ASSUME AllLater, NEW s, NEW c, Transcribed(s, c, sends)
  PROVE  Transcribed(s, c, sends')
<1>1. ASSUME NEW i \in DOMAIN s, s[i].turn \in Turns
      PROVE  /\ sends'[s[i].turn].conv = c /\ sends'[s[i].turn].phase \notin Early
             /\ s[i].role = "assistant" => sends'[s[i].turn].saved
  <2> DEFINE t == s[i].turn
  <2>1. t \in Turns /\ sends[t].phase \notin Early /\ sends[t].conv = c
        /\ (s[i].role = "assistant" => sends[t].saved)
    BY <1>1 DEF Transcribed
  <2>2. sends[t].phase \notin Waiting
    BY <2>1 DEF Early, Waiting
  <2>3. Later(sends[t], sends'[t], abortRef' = t)
    BY <2>1 DEF AllLater
  <2> HIDE DEF t
  <2>4. sends'[t].conv = c /\ sends'[t].phase \notin Early /\ (s[i].role = "assistant" => sends'[t].saved)
    BY <2>1, <2>2, <2>3 DEF Later
  <2> QED BY <2>4 DEF t
<1>2. \A i, j \in DOMAIN s : Same(s[i], s[j]) => i = j
  BY DEF Transcribed
<1> QED
  BY <1>1, <1>2 DEF Transcribed, Same

(* A message is stored that was not. *)
LEMMA TranscriptAdded ==
  ASSUME AllLater, NEW s \in Seq(StoredMessages), NEW c, Transcribed(s, c, sends),
         NEW t \in Turns, NEW role \in {"user", "assistant"},
         \A i \in DOMAIN s : ~Same(s[i], Stored(t, role)),
         sends'[t].conv = c, sends'[t].phase \notin Early, role = "assistant" => sends'[t].saved
  PROVE  Transcribed(Append(s, Stored(t, role)), c, sends')
<1> DEFINE m == Stored(t, role)
           new == Append(s, m)
<1>1. m \in StoredMessages /\ m.turn = t /\ m.role = role
  BY DEF Stored, StoredMessages
<1> HIDE DEF m
<1>2. /\ new \in Seq(StoredMessages) /\ Len(s) \in Nat /\ DOMAIN s = 1..Len(s)
      /\ DOMAIN new = 1..(Len(s) + 1) /\ new[Len(s) + 1] = m /\ \A i \in 1..Len(s) : new[i] = s[i]
  BY <1>1, AppendIs
<1> HIDE DEF new
<1>3. \A i \in DOMAIN s : ~Same(s[i], m)
  BY DEF m
<1>4. Transcribed(s, c, sends')
  BY TranscriptStays
<1>5. \A i, j \in DOMAIN s : Same(s[i], s[j]) => i = j
  BY DEF Transcribed
<1>6. \A i \in DOMAIN s : s[i].turn \in Turns =>
       /\ sends'[s[i].turn].conv = c /\ sends'[s[i].turn].phase \notin Early
       /\ s[i].role = "assistant" => sends'[s[i].turn].saved
  BY <1>4 DEF Transcribed
<1>7. ASSUME NEW i \in DOMAIN new, NEW j \in DOMAIN new, Same(new[i], new[j]) PROVE i = j
  <2>1. CASE i = Len(s) + 1
    BY <1>2, <1>3, <1>7, <2>1 DEF Same
  <2>2. CASE j = Len(s) + 1
    BY <1>2, <1>3, <1>7, <2>2 DEF Same
  <2>3. CASE i \in DOMAIN s /\ j \in DOMAIN s
    BY <1>2, <1>5, <1>7, <2>3
  <2> QED BY <1>2, <2>1, <2>2, <2>3
<1>8. ASSUME NEW i \in DOMAIN new, new[i].turn \in Turns
      PROVE  /\ sends'[new[i].turn].conv = c /\ sends'[new[i].turn].phase \notin Early
             /\ new[i].role = "assistant" => sends'[new[i].turn].saved
  <2>1. CASE i = Len(s) + 1
    BY <1>1, <1>2, <2>1
  <2>2. CASE i \in DOMAIN s
    BY <1>2, <1>6, <1>8, <2>2
  <2> QED BY <1>2, <2>1, <2>2
<1>9. Transcribed(new, c, sends')
  BY <1>7, <1>8 DEF Transcribed, Same
<1> QED
  BY <1>9 DEF new, m

LEMMA StoredOnceStep == IndInv /\ DataInv /\ OnceInv /\ [Next]_vars => StoredOnce'
<1> SUFFICES ASSUME IndInv, DataInv, OnceInv, [Next]_vars PROVE StoredOnce'
  OBVIOUS
<1>1. /\ AllLater /\ SendsAre(sends) /\ StoredOnce /\ CallsOK
      /\ stored \in Seq(Seq(StoredMessages)) /\ Known = DOMAIN stored
  BY CallsLater DEF OnceInv, DataInv, IndInv, StreamInv, Calls, ViewInv, Shape, Known
<1>2. \A c \in Known : Transcribed(stored[c], c, sends')
  BY <1>1, TranscriptStays DEF StoredOnce
<1>3. CASE UNCHANGED stored
  BY <1>2, <1>3 DEF StoredOnce, Known
<1>4. ASSUME NEW t \in Turns, NEW role \in {"user", "assistant"},
             sends[t].conv \in Known,
             stored' = [stored EXCEPT ![sends[t].conv] = Append(@, Stored(t, role))],
             \A i \in DOMAIN stored[sends[t].conv] : ~Same(stored[sends[t].conv][i], Stored(t, role)),
             sends'[t].conv = sends[t].conv, sends'[t].phase \notin Early,
             role = "assistant" => sends'[t].saved
      PROVE  StoredOnce'
  <2> DEFINE c == sends[t].conv
             new == Append(stored[c], Stored(t, role))
  <2>1. Stored(t, role) \in StoredMessages
    BY DEF Stored, StoredMessages
  <2>2. Len(stored') = Len(stored)
    BY <1>1, <1>4, <2>1, StoredGrows
  <2>3. Transcribed(stored[c], c, sends) /\ stored[c] \in Seq(StoredMessages)
    BY <1>1, <1>4 DEF StoredOnce
  <2>4. Transcribed(new, c, sends')
    BY <1>1, <1>4, <2>3, TranscriptAdded
  <2>5. stored'[c] = new /\ \A o \in Known \ {c} : stored'[o] = stored[o]
    BY <1>1, <1>4
  <2> HIDE DEF new, c
  <2>6. ASSUME NEW o \in Known PROVE Transcribed(stored'[o], o, sends')
    BY <1>2, <2>4, <2>5
  <2> QED BY <2>2, <2>6 DEF StoredOnce, Known
<1>5. ASSUME NEW t \in Turns, ServePost(t) PROVE StoredOnce'
  <2>1. PICK b \in Bodies : Posted(sends[t], b, sends'[t])
    BY <1>1, <1>5, PostBecomes
  <2>2. sends'[t].conv = sends[t].conv /\ sends'[t].phase \notin Early
    BY <2>1 DEF Posted, Call, Early
  <2>3. sends[t].phase = "posting" /\ CallOK(sends[t], Known)
    BY <1>1, <1>5 DEF ServePost, CallsOK
  <2>4. sends[t].conv \in Known /\ sends[t].phase \in Early
    BY <2>3 DEF CallOK, Early
  <2>5. \A i \in DOMAIN stored[sends[t].conv] :
           ~Same(stored[sends[t].conv][i], Stored(t, "user"))
    BY <1>1, <2>4 DEF StoredOnce, Transcribed, Same, Stored
  <2>6. stored' = [stored EXCEPT ![sends[t].conv] = Append(@, Stored(t, "user"))]
    BY <1>5 DEF ServePost
  <2> QED BY <1>4, <2>2, <2>4, <2>5, <2>6
<1>6. ASSUME NEW t \in Turns, SaveAnswer(t) PROVE StoredOnce'
  <2>1. Saved(sends[t], sends'[t])
    BY <1>1, <1>6, SaveBecomes
  <2>2. sends'[t].conv = sends[t].conv /\ sends'[t].phase = sends[t].phase /\ sends'[t].saved
    BY <2>1 DEF Saved, Call
  <2>3. sends[t].body # <<>> /\ ~sends[t].saved
    <3>1. "done" \in Range(sends[t].body) /\ ~sends[t].saved
      BY <1>6 DEF SaveAnswer
    <3> QED BY <3>1, NoneHeld
  <2>4. sends[t].conv \in Known /\ sends[t].phase \notin Early
    BY <1>1, <2>3 DEF CallsOK, CallOK
  <2>5. \A i \in DOMAIN stored[sends[t].conv] :
           ~Same(stored[sends[t].conv][i], Stored(t, "assistant"))
    BY <1>1, <2>3, <2>4 DEF StoredOnce, Transcribed, Same, Stored
  <2>6. stored' = [stored EXCEPT ![sends[t].conv] = Append(@, Stored(t, "assistant"))]
    BY <1>6 DEF SaveAnswer
  <2> QED BY <1>4, <2>2, <2>4, <2>5, <2>6
<1>7. ASSUME NEW r \in creates, ServeCreate(r) PROVE StoredOnce'
  <2>1. stored' = Append(stored, <<>>)
    BY <1>7 DEF ServeCreate
  <2>2. Len(stored') = Len(stored) + 1 /\ Len(stored) \in Nat /\ stored'[Len(stored) + 1] = <<>>
        /\ \A c \in Known : stored'[c] = stored[c]
    BY <1>1, <2>1, EmptySeq, AppendIs DEF Known
  <2>3. \A c : Transcribed(<<>>, c, sends')
    BY DEF Transcribed
  <2>4. ASSUME NEW c \in 1..(Len(stored) + 1) PROVE Transcribed(stored'[c], c, sends')
    BY <1>2, <2>2, <2>3 DEF Known
  <2> QED BY <2>2, <2>4 DEF StoredOnce, Known
<1> QED
  BY <1>3, <1>5, <1>6, <1>7
     DEF Next, vars, server, User, Retry, Stop, Select, New, Send, ServeList, ListReply, ListFails,
         ServeTranscript, TranscriptReply, TranscriptFails, Creation, CreateReply, CreateFails,
         Chunk, StreamEnds, StreamFails, SessionExpired

LEMMA FetchedOnceStep == IndInv /\ DataInv /\ OnceInv /\ [Next]_vars => FetchedOnce'
<1> SUFFICES ASSUME IndInv, DataInv, OnceInv, [Next]_vars PROVE FetchedOnce'
  OBVIOUS
<1>1. AllLater /\ FetchedOnce /\ StoredOnce
  BY CallsLater DEF OnceInv
<1>2. CASE UNCHANGED transcript
  <2>1. Transcribed(transcript.items, transcript.conv, sends')
    BY <1>1, TranscriptStays DEF FetchedOnce
  <2> QED BY <1>2, <2>1 DEF FetchedOnce
<1>3. CASE transcript' = NoTranscript \/ \E c : Fetch(c)
  <2>1. transcript'.items = <<>>
    BY <1>3 DEF Fetch, NoTranscript
  <2> QED BY <2>1 DEF FetchedOnce, Transcribed
<1>4. CASE ServeTranscript
  <2> DEFINE c == transcript.conv
  <2>1. transcript.stage = "sent" /\ transcript' = [transcript EXCEPT !.stage = "served", !.items = stored[c]]
    BY <1>4 DEF ServeTranscript
  <2>2. transcript.stage # NoTranscript.stage
    BY <2>1 DEF NoTranscript
  <2>3. transcript # NoTranscript
    BY <2>2
  <2>4. c \in Known /\ transcript'.conv = c /\ transcript'.items = stored[c]
    BY <2>1, <2>3 DEF IndInv, ViewInv, Shape, Belonging
  <2> HIDE DEF c
  <2>5. Transcribed(stored[c], c, sends')
    BY <1>1, <2>4, TranscriptStays DEF StoredOnce
  <2> QED BY <2>4, <2>5 DEF FetchedOnce
<1> QED
  BY <1>2, <1>3, <1>4
     DEF Next, vars, view, User, Retry, Stop, Select, New, Send, SendNow, ServeList, ListReply, ListFails,
         TranscriptReply, TranscriptFails, Creation, ServeCreate, CreateReply, CreateFails,
         ServePost, SaveAnswer, Chunk, StreamEnds, StreamFails, SessionExpired

-----------------------------------------------------------------------------
(* The messages that are shown. *)
NotShown(s, x) == \A i \in DOMAIN s : ~Same(s[i], x)

LEMMA OnceStays ==
  ASSUME ExcusesStay, NoneTwice(messages), UNCHANGED messages
  PROVE  NoneTwice(messages)'
BY DEF NoneTwice, Excused, ExcusesStay, Same

LEMMA OnceNone ==
  ASSUME messages' = <<>>
  PROVE  NoneTwice(messages)'
BY DEF NoneTwice

LEMMA OnceAdded ==
  ASSUME ExcusesStay, NEW s \in Seq(Messages), NEW x \in Messages, NoneTwice(s), messages' = Append(s, x),
         NotShown(s, x) \/ (x.turn \in Turns /\ (overlapped' \/ sends'[x.turn].fresh))
  PROVE  NoneTwice(messages)'
<1> DEFINE n == Len(s)
<1>1. /\ n \in Nat /\ DOMAIN s = 1..n /\ DOMAIN messages' = 1..(n + 1)
      /\ messages'[n + 1] = x /\ \A i \in 1..n : messages'[i] = s[i]
  BY AppendIs
<1> HIDE DEF n
<1>2. ASSUME NEW i \in 1..(n + 1), NEW j \in 1..(n + 1), i < j, Same(messages'[i], messages'[j])
      PROVE  messages'[i].turn \in Turns /\ (overlapped' \/ sends'[messages'[i].turn].fresh)
  <2>1. i \in 1..n /\ messages'[i] = s[i]
    BY <1>1, <1>2
  <2>2. CASE j \in 1..n
    <3>1. Same(s[i], s[j])
      BY <1>1, <1>2, <2>1, <2>2
    <3>2. s[i].turn \in Turns /\ (overlapped \/ sends[s[i].turn].fresh)
      BY <1>1, <1>2, <2>1, <2>2, <3>1 DEF NoneTwice, Excused
    <3> QED BY <2>1, <3>2 DEF ExcusesStay
  <2>3. CASE j = n + 1
    <3>1. Same(s[i], x)
      BY <1>1, <1>2, <2>1, <2>3
    <3>2. x.turn \in Turns /\ (overlapped' \/ sends'[x.turn].fresh) /\ s[i].turn = x.turn
      BY <1>1, <2>1, <3>1 DEF NotShown, Same
    <3> QED BY <2>1, <3>2
  <2> QED BY <1>1, <1>2, <2>2, <2>3
<1>3. \A i, j \in DOMAIN messages' :
        i < j /\ messages'[i].turn = messages'[j].turn /\ messages'[i].role = messages'[j].role
          => messages'[i].turn \in Turns /\ (overlapped' \/ sends'[messages'[i].turn].fresh)
  BY <1>1, <1>2 DEF Same
<1> QED
  BY <1>3 DEF NoneTwice, Excused, Same

(* A question that is asked is new; one asked before is shown as begun. *)
LEMMA BeginOnce ==
  ASSUME SendsAre(sends), ExcusesStay, NEW t \in Turns, NEW c \in Convs, NEW shown \in Seq(Messages),
         NoneTwice(shown), Begin(t, c, shown),
         \A m \in Range(shown) : m.turn # t
  PROVE  NoneTwice(messages)'
<1> DEFINE x == Question(c, t)
<1>1. x \in Messages /\ x.turn = t /\ messages' = Append(shown, x)
  BY MessageTypes DEF Question, Begin
<1> HIDE DEF x
<1>2. NotShown(shown, x)
  BY <1>1 DEF NotShown, Same, Range
<1> QED BY <1>1, <1>2, OnceAdded

(* An answer that is kept is not shown, but of a turn that is excused. *)
LEMMA AnswerOnce ==
  ASSUME ExcusesStay, AnswersAway, NEW t \in Turns, Alive(t),
         NEW x \in Messages, x.turn = t, x.role = "assistant", NEW shown \in Seq(Messages),
         NoneTwice(shown), Range(shown) \subseteq Range(messages), messages' = Append(shown, x)
  PROVE  NoneTwice(messages)'
<1>1. CASE overlapped \/ sends[t].fresh
  <2>1. overlapped' \/ sends'[t].fresh
    BY <1>1 DEF ExcusesStay
  <2> QED BY <2>1, OnceAdded
<1>2. CASE ~(overlapped \/ sends[t].fresh)
  <2>1. Unanswered(t)
    BY <1>2 DEF AnswersAway, Excused
  <2>2. NotShown(shown, x)
    <3>1. ASSUME NEW i \in DOMAIN shown PROVE ~Same(shown[i], x)
      <4>1. shown[i] \in Range(messages)
        BY DEF Range
      <4> QED BY <2>1, <4>1 DEF Unanswered, Same
    <3> QED BY <3>1 DEF NotShown
  <2> QED BY <2>2, OnceAdded
<1> QED BY <1>1, <1>2

LEMMA AbortOnce ==
  ASSUME CallsOK, RefAlive, Known \subseteq Convs, abortRef \in Turns \cup {NoTurn},
         ExcusesStay, AnswersAway, NEW shown \in Seq(Messages), NoneTwice(shown),
         Range(shown) \subseteq Range(messages), AbortInto(shown)
  PROVE  NoneTwice(messages)'
<1>1. CASE messages' = shown
  <2>1. \A i, j \in DOMAIN shown : i < j /\ Same(shown[i], shown[j]) =>
           shown[i].turn \in Turns /\ (overlapped' \/ sends'[shown[i].turn].fresh)
    BY DEF NoneTwice, Excused, ExcusesStay
  <2> QED BY <1>1, <2>1 DEF NoneTwice, Excused, Same
<1>2. CASE abortRef # NoTurn /\ messages' # shown
  <2>1. messages' = shown \o Partial(abortRef) /\ abortRef \in Turns /\ Alive(abortRef)
    BY <1>2 DEF AbortInto, RefAlive, Alive
  <2>2. PICK x \in Messages : /\ x.turn = abortRef /\ x.role = "assistant"
                              /\ Partial(abortRef) = <<x>> \/ Partial(abortRef) = <<>>
    BY <2>1, PartialIs
  <2>3. Partial(abortRef) # <<>>
    BY <1>2, <2>1, ConcatEmptySeq
  <2>4. messages' = Append(shown, x)
    BY <2>1, <2>2, <2>3, AppendIsConcat
  <2> QED BY <2>1, <2>2, <2>4, AnswerOnce
<1> QED BY <1>1, <1>2 DEF AbortInto

LEMMA EndOnce ==
  ASSUME CallsOK, Known \subseteq Convs, ExcusesStay, AnswersAway, messages \in Seq(Messages),
         NoneTwice(messages), NEW t \in Turns, StreamEnds(t)
  PROVE  NoneTwice(messages)'
<1>1. PICK r \in Readers :
        /\ messages' = Append(messages, Answer(sends[t].conv, t, r.events))
        /\ Answer(sends[t].conv, t, r.events) \in Messages
  BY EndAnswer
<1> DEFINE x == Answer(sends[t].conv, t, r.events)
<1>2. x \in Messages /\ x.turn = t /\ x.role = "assistant" /\ messages' = Append(messages, x)
  BY <1>1 DEF Answer
<1>3. Alive(t)
  BY DEF StreamEnds, Alive
<1> HIDE DEF x
<1> QED
  BY <1>2, <1>3, AnswerOnce

(* A transcript shows each of its messages once. *)
LEMMA ReplyOnce ==
  ASSUME FetchedOnce, TranscriptReply, transcript.items \in Seq(StoredMessages)
  PROVE  NoneTwice(messages)'
<1> DEFINE s == transcript.items
           c == transcript.conv
<1>1. messages' = [i \in DOMAIN s |-> Loaded(c, s[i])] /\ DOMAIN s \subseteq Nat
  BY DEF TranscriptReply
<1>2. \A i, j \in DOMAIN s : Same(s[i], s[j]) => i = j
  BY DEF FetchedOnce, Transcribed
<1> HIDE DEF s, c
<1>3. \A i, j \in DOMAIN messages' : i < j => ~Same(messages'[i], messages'[j])
  BY <1>1, <1>2 DEF Loaded, Same
<1> QED BY <1>3 DEF NoneTwice, Same

LEMMA OnceStep == IndInv /\ DataInv /\ OnceInv /\ [Next]_vars => NoneTwice(messages)'
<1> SUFFICES ASSUME IndInv, DataInv, OnceInv, [Next]_vars PROVE NoneTwice(messages)'
  OBVIOUS
<1>1. /\ ExcusesStay /\ NoneTwice(messages) /\ AnswersAway /\ FetchedOnce
      /\ CallsOK /\ RefAlive /\ Known \subseteq Convs /\ messages \in Seq(Messages)
      /\ abortRef \in Turns \cup {NoTurn} /\ SendsAre(sends) /\ activeId \in {NoConv} \cup Known
      /\ transcript.items \in Seq(StoredMessages)
  BY CallsLater, ExcusedStays, StoredStep
     DEF OnceInv, DataInv, IndInv, StreamInv, Calls, Streaming, ViewInv, Shape
<1>2. CASE UNCHANGED messages
  BY <1>1, <1>2, OnceStays
<1>3. <<>> \in Seq(Messages) /\ NoneTwice(<<>>) /\ Range(<<>>) = {}
  BY EmptySeq, NoneHeld DEF NoneTwice
<1>4. CASE User
  <2>1. CASE Retry \/ \E s \in Scopes : New(s)
    BY <1>2, <2>1 DEF Retry, New, view
  <2>2. CASE Stop
    BY <1>1, <2>2, AbortOnce DEF Stop
  <2>3. ASSUME NEW c \in Convs, Select(c) PROVE NoneTwice(messages)'
    <3> DEFINE none == <<>>
    <3>1. none \in Seq(Messages) /\ NoneTwice(none) /\ Range(none) \subseteq Range(messages)
      BY <1>3
    <3>2. AbortInto(none)
      BY <2>3 DEF Select
    <3> HIDE DEF none
    <3> QED BY <1>1, <3>1, <3>2, AbortOnce
  <2>4. ASSUME NEW t \in Turns, Send(t) PROVE NoneTwice(messages)'
    <3>1. CASE activeId # NoConv /\ SendNow(t)
      <4>1. sends[t].phase = "idle"
        BY <2>4 DEF Send, Unasked
      <4>2. \A m \in Range(messages) : m.turn # t
        BY <4>1 DEF OnceInv, ShownBegun, Waiting
      <4> QED BY <1>1, <3>1, <4>2, BeginOnce DEF SendNow
    <3> QED BY <1>2, <2>4, <3>1 DEF Send
  <2> QED
    BY <1>4, <2>1, <2>2, <2>3, <2>4 DEF User
<1>5. CASE ServeList \/ ListReply \/ ListFails \/ ServeTranscript \/ TranscriptFails \/ UNCHANGED vars
  BY <1>2, <1>5 DEF ServeList, ListReply, ListFails, ServeTranscript, TranscriptFails, view, vars
<1>6. CASE TranscriptReply
  BY <1>1, <1>6, ReplyOnce
<1>7. ASSUME NEW r \in creates, ServeCreate(r) \/ Creation(r) PROVE NoneTwice(messages)'
  <2>1. r.by \in Turns \cup {NoTurn} /\ r.conv \in {NoConv} \cup Known
    BY DEF IndInv, StreamInv, Calls, ViewInv, Shape
  <2>2. CASE ServeCreate(r) \/ CreateFails(r)
    BY <1>2, <2>2 DEF ServeCreate, CreateFails, view
  <2>3. CASE CreateReply(r)
    <3>1. r.conv \in Convs
      BY <1>1, <2>1, <2>3 DEF CreateReply
    <3>2. CASE messages' = <<>>
      BY <3>2, OnceNone
    <3>3. CASE r.by # NoTurn /\ Begin(r.by, r.conv, <<>>)
      <4> DEFINE none == <<>>
      <4>1. none \in Seq(Messages) /\ NoneTwice(none) /\ (\A m \in Range(none) : m.turn # r.by)
            /\ Begin(r.by, r.conv, none)
        BY <1>3, <3>3
      <4> HIDE DEF none
      <4> QED BY <1>1, <2>1, <3>1, <3>3, <4>1, BeginOnce
    <3> QED BY <2>3, <3>2, <3>3 DEF CreateReply
  <2> QED
    BY <1>7, <2>2, <2>3 DEF Creation
<1>8. ASSUME NEW t \in Turns,
             ServePost(t) \/ SaveAnswer(t) \/ Chunk(t) \/ StreamEnds(t) \/ StreamFails(t)
               \/ SessionExpired(t)
      PROVE  NoneTwice(messages)'
  <2>1. CASE StreamEnds(t)
    BY <1>1, <2>1, EndOnce
  <2>2. CASE ~StreamEnds(t)
    BY <1>2, <1>8, <2>2 DEF ServePost, SaveAnswer, Chunk, StreamFails, SessionExpired, view
  <2> QED BY <2>1, <2>2
<1> QED
  BY <1>4, <1>5, <1>6, <1>7, <1>8 DEF Next

-----------------------------------------------------------------------------
(* What is shown has begun. *)
LEMMA BegunStays ==
  ASSUME AllLater, ShownBegun,
         \A m \in Range(messages') : m \in Range(messages)
                                     \/ (m.turn \in Turns => sends'[m.turn].phase \notin Waiting)
  PROVE  ShownBegun'
<1>1. ASSUME NEW m \in Range(messages'), m.turn \in Turns PROVE sends'[m.turn].phase \notin Waiting
  BY <1>1 DEF ShownBegun, AllLater, Later
<1> QED BY <1>1 DEF ShownBegun, Waiting

(* What a step shows that was not shown. *)
NewAnswer(t) ==
  \A m \in Range(messages') : m \in Range(messages) \/ (m.turn = t /\ m.role = "assistant")

LEMMA AbortShows ==
  ASSUME NEW shown \in Seq(Messages), Range(shown) \subseteq Range(messages), AbortInto(shown)
  PROVE  NewAnswer(abortRef)
<1>1. CASE messages' = shown
  BY <1>1 DEF NewAnswer
<1>2. CASE abortRef # NoTurn /\ messages' # shown
  <2> DEFINE x == Answer(sends[abortRef].conv, abortRef, sends[abortRef].reader.events)
  <2>1. messages' = shown \o Partial(abortRef) /\ x.turn = abortRef /\ x.role = "assistant"
    BY <1>2 DEF AbortInto, Answer
  <2>2. Partial(abortRef) = <<x>> \/ Partial(abortRef) = <<>>
    BY DEF Partial
  <2> HIDE DEF x
  <2>3. Partial(abortRef) = <<x>>
    BY <1>2, <2>1, <2>2, ConcatEmptySeq
  <2>4. Range(messages') = Range(shown) \cup {x}
    BY <2>1, <2>3, AppendHolds
  <2> QED BY <2>1, <2>4 DEF NewAnswer
<1> QED BY <1>1, <1>2 DEF AbortInto

LEMMA EndShows ==
  ASSUME messages \in Seq(Messages), NEW t, StreamEnds(t)
  PROVE  NewAnswer(t)
<1>1. PICK e : messages' = Append(messages, Answer(sends[t].conv, t, e))
  BY DEF StreamEnds
<1> DEFINE x == Answer(sends[t].conv, t, e)
<1>2. x.turn = t /\ x.role = "assistant" /\ messages' = Append(messages, x)
  BY <1>1 DEF Answer
<1> HIDE DEF x
<1>3. Range(messages') = Range(messages) \cup {x}
  BY <1>2, AppendHolds
<1> QED BY <1>2, <1>3 DEF NewAnswer

LEMMA BeginShows ==
  ASSUME NEW shown \in Seq(Messages), NEW t, NEW c, Begin(t, c, shown)
  PROVE  Range(messages') = Range(shown) \cup {Question(c, t)}
<1> DEFINE x == Question(c, t)
<1>1. messages' = Append(shown, x)
  BY DEF Begin
<1> HIDE DEF x
<1>2. Range(messages') = Range(shown) \cup {x}
  BY <1>1, AppendHolds
<1> QED BY <1>2 DEF x

LEMMA BegunStep == IndInv /\ DataInv /\ OnceInv /\ [Next]_vars => ShownBegun'
<1> SUFFICES ASSUME IndInv, DataInv, OnceInv, [Next]_vars PROVE ShownBegun'
  OBVIOUS
<1>1. /\ AllLater /\ ShownBegun /\ FetchedOnce /\ CallsOK /\ RefAlive /\ messages \in Seq(Messages)
      /\ abortRef \in Turns \cup {NoTurn} /\ SendsAre(sends)
  BY CallsLater DEF OnceInv, DataInv, IndInv, StreamInv, Calls, Streaming
<1>2. CASE UNCHANGED messages
  BY <1>1, <1>2, BegunStays
<1>3. <<>> \in Seq(Messages) /\ Range(<<>>) = {}
  BY EmptySeq, NoneHeld
<1>4. ASSUME NEW t \in Turns \cup {NoTurn}, NewAnswer(t), t \in Turns => sends[t].phase \notin Waiting
      PROVE  ShownBegun'
  <2>1. ASSUME NEW m \in Range(messages')
        PROVE  m \in Range(messages) \/ (m.turn \in Turns => sends'[m.turn].phase \notin Waiting)
    BY <1>1, <1>4 DEF NewAnswer, AllLater, Later
  <2> QED BY <1>1, <2>1, BegunStays
<1>5. ASSUME NEW t \in Turns, NEW c, NEW shown \in Seq(Messages), Begin(t, c, shown),
             Range(shown) \subseteq Range(messages)
      PROVE  ShownBegun'
  <2>1. Range(messages') = Range(shown) \cup {Question(c, t)} /\ Question(c, t).turn = t
    BY <1>5, BeginShows DEF Question
  <2>2. sends'[t].phase \notin Waiting
    BY <1>1, <1>5, BeginBecomes DEF Begun, Call, Waiting
  <2> QED BY <1>1, <1>5, <2>1, <2>2, BegunStays
<1>6. CASE User
  <2>1. CASE Retry \/ \E s \in Scopes : New(s)
    BY <1>2, <2>1 DEF Retry, New, view
  <2>2. CASE Stop \/ \E c \in Convs : Select(c)
    <3>1. PICK shown \in Seq(Messages) : Range(shown) \subseteq Range(messages) /\ AbortInto(shown)
      BY <1>1, <1>3, <2>2 DEF Stop, Select
    <3>2. abortRef \in Turns => sends[abortRef].phase \notin Waiting
      BY <1>1 DEF RefAlive, Turns, NoTurn, Waiting
    <3> QED BY <1>1, <1>4, <3>1, <3>2, AbortShows
  <2>3. ASSUME NEW t \in Turns, Send(t) PROVE ShownBegun'
    <3>1. CASE SendNow(t)
      BY <1>1, <1>5, <3>1 DEF SendNow
    <3> QED BY <1>2, <2>3, <3>1 DEF Send
  <2> QED
    BY <1>6, <2>1, <2>2, <2>3 DEF User
<1>7. CASE ServeList \/ ListReply \/ ListFails \/ ServeTranscript \/ TranscriptFails \/ UNCHANGED vars
  BY <1>2, <1>7 DEF ServeList, ListReply, ListFails, ServeTranscript, TranscriptFails, view, vars
<1>8. CASE TranscriptReply
  <2> DEFINE s == transcript.items
             c == transcript.conv
  <2>1. messages' = [i \in DOMAIN s |-> Loaded(c, s[i])]
    BY <1>8 DEF TranscriptReply
  <2>2. Transcribed(s, c, sends)
    BY <1>1 DEF FetchedOnce
  <2> HIDE DEF s, c
  <2>3. ASSUME NEW m \in Range(messages'), m.turn \in Turns PROVE sends'[m.turn].phase \notin Waiting
    <3>1. PICK i \in DOMAIN s : m = Loaded(c, s[i])
      BY <2>1 DEF Range
    <3>2. m.turn = s[i].turn
      BY <3>1 DEF Loaded
    <3>3. sends[m.turn].phase \notin Waiting
      BY <2>2, <2>3, <3>2 DEF Transcribed, Early, Waiting
    <3> QED BY <1>1, <2>3, <3>3 DEF AllLater, Later
  <2> QED BY <1>1, <2>3, BegunStays
<1>9. ASSUME NEW r \in creates, ServeCreate(r) \/ Creation(r) PROVE ShownBegun'
  <2>1. r.by \in Turns \cup {NoTurn}
    BY DEF IndInv, StreamInv, Calls
  <2>2. CASE ServeCreate(r) \/ CreateFails(r)
    BY <1>2, <2>2 DEF ServeCreate, CreateFails, view
  <2>3. CASE CreateReply(r)
    <3>1. CASE messages' = <<>>
      BY <1>1, <1>3, <3>1, BegunStays
    <3>2. CASE r.by # NoTurn /\ Begin(r.by, r.conv, <<>>)
      <4> DEFINE none == <<>>
      <4>1. none \in Seq(Messages) /\ Range(none) \subseteq Range(messages) /\ Begin(r.by, r.conv, none)
        BY <1>3, <3>2
      <4> HIDE DEF none
      <4> QED BY <1>5, <2>1, <3>2, <4>1
    <3> QED BY <2>3, <3>1, <3>2 DEF CreateReply
  <2> QED
    BY <1>9, <2>2, <2>3 DEF Creation
<1>10. ASSUME NEW t \in Turns,
             ServePost(t) \/ SaveAnswer(t) \/ Chunk(t) \/ StreamEnds(t) \/ StreamFails(t)
               \/ SessionExpired(t)
      PROVE  ShownBegun'
  <2>1. CASE StreamEnds(t)
    <3>1. sends[t].phase \notin Waiting
      BY <2>1 DEF StreamEnds, Waiting
    <3> QED BY <1>1, <1>4, <2>1, <3>1, EndShows
  <2>2. CASE ~StreamEnds(t)
    BY <1>2, <1>10, <2>2 DEF ServePost, SaveAnswer, Chunk, StreamFails, SessionExpired, view
  <2> QED BY <2>1, <2>2
<1> QED
  BY <1>6, <1>7, <1>8, <1>9, <1>10 DEF Next

(* Creations. *)
LEMMA OneNewStep == IndInv /\ DataInv /\ OnceInv /\ [Next]_vars => OneNew'
<1> SUFFICES ASSUME IndInv, DataInv, OnceInv, [Next]_vars PROVE OneNew'
  OBVIOUS
<1>1. /\ \A r, o \in creates : r.by = NoTurn /\ o.by = NoTurn => r = o
      /\ NoConv \notin Known /\ AllLater
      /\ \A r \in creates : r.conv \in {NoConv} \cup Known
                            /\ r = [by |-> r.by, scope |-> r.scope, conv |-> r.conv]
  BY CallsLater DEF OnceInv, OneNew, IndInv, ViewInv, Shape, Known, NoConv
<1>2. \A r, o \in creates' : r.by = NoTurn /\ o.by = NoTurn => r = o
  <2>1. CASE creates' \subseteq creates
    BY <1>1, <2>1
  <2>2. ASSUME NEW s \in Scopes, New(s) PROVE \A r, o \in creates' : r.by = NoTurn /\ o.by = NoTurn => r = o
    BY <2>2 DEF New
  <2>3. ASSUME NEW t \in Turns, Send(t) PROVE \A r, o \in creates' : r.by = NoTurn /\ o.by = NoTurn => r = o
    <3>1. CASE creates' = creates \cup {[by |-> t, scope |-> "personal", conv |-> NoConv]}
      <4>1. t # NoTurn
        BY DEF Turns, NoTurn
      <4> QED BY <1>1, <3>1, <4>1
    <3> QED BY <2>1, <2>3, <3>1 DEF Send
  <2>4. ASSUME NEW r \in creates, ServeCreate(r)
        PROVE  \A a, o \in creates' : a.by = NoTurn /\ o.by = NoTurn => a = o
    <3> DEFINE new == [r EXCEPT !.conv = Len(stored) + 1]
    <3>1. creates' = (creates \ {r}) \cup {new} /\ new.by = r.by
      BY <1>1, <2>4 DEF ServeCreate
    <3> HIDE DEF new
    <3> QED BY <1>1, <3>1
  <2> QED
    BY <2>1, <2>2, <2>3, <2>4
     DEF Next, vars, User, Retry, Stop, Select, ServeList, ListReply, ListFails,
         ServeTranscript, TranscriptReply, TranscriptFails, Creation, CreateReply, CreateFails,
         ServePost, SaveAnswer, Chunk, StreamEnds, StreamFails, SessionExpired
<1>3. activeId # NoConv => activeId' # NoConv
  <2>1. NoConv \notin Convs
    BY DEF NoConv, Convs
  <2> QED
    BY <1>1, <2>1
     DEF Next, vars, view, User, Retry, Stop, Select, Send, New, ServeList, ListReply, ListFails,
         ServeTranscript, TranscriptReply, TranscriptFails, Creation, ServeCreate, CreateReply, CreateFails,
         ServePost, SaveAnswer, Chunk, StreamEnds, StreamFails, SessionExpired
<1>4. ASSUME NEW t \in Turns, Alive(t)' PROVE activeId' # NoConv
  <2>1. CASE Alive(t)
    BY <1>3, <2>1 DEF OnceInv, OneNew
  <2>2. CASE ~Alive(t)
    <3>1. abortRef' = t /\ t # NoTurn
      BY <1>1, <1>4, <2>2 DEF AllLater, Later, Alive, Turns, NoTurn
    <3>2. abortRef # t
      BY <2>2, <3>1 DEF DataInv, RefAlive, Alive
    <3>3. ASSUME NEW o \in Turns, Send(o) PROVE activeId' # NoConv
      BY <3>1, <3>2, <3>3 DEF Send
    <3>4. ASSUME NEW r \in creates, CreateReply(r) PROVE activeId' # NoConv
      BY <3>4 DEF CreateReply
    <3> QED
      BY <3>1, <3>2, <3>3, <3>4
       DEF Next, vars, stream, User, Retry, Stop, Select, New, AbortInto, Close, ServeList, ListReply, ListFails,
           ServeTranscript, TranscriptReply, TranscriptFails, Creation, ServeCreate, CreateFails,
           ServePost, SaveAnswer, Chunk, StreamEnds, StreamFails, SessionExpired
  <2> QED BY <2>1, <2>2
<1> QED
  BY <1>2, <1>4 DEF OneNew, Alive

-----------------------------------------------------------------------------
(* A streamed answer is not shown, and nothing on its way shows it. *)
LEMMA AwayKept ==
  ASSUME NEW t, Unanswered(t), sends'[t].conv = sends[t].conv, sends[t].conv \in Known,
         \A m \in Range(messages') : m \in Range(messages) \/ ~(m.turn = t /\ m.role = "assistant"),
         activeId' = activeId,
         transcript' # NoTranscript => transcript # NoTranscript /\ transcript'.conv = transcript.conv,
         \A r \in creates' : r.by = NoTurn => r \in creates \/ r.conv \notin Known
  PROVE  Unanswered(t)'
BY DEF Unanswered, NoTranscript

(* Of a stream that is neither excused nor new. *)
Goes(t) ==
  /\ t \in Turns /\ Alive(t) /\ Unanswered(t)
  /\ ~overlapped /\ ~overlapped' /\ sends'[t].conv = sends[t].conv /\ sends[t].conv \in Known

LEMMA TranscriptAway ==
  ASSUME NEW t \in Turns, Unanswered(t), sends'[t].conv = sends[t].conv, FetchedOnce,
         sends[t].conv \in Known, TranscriptReply
  PROVE  Unanswered(t)'
<1> DEFINE s == transcript.items
           c == transcript.conv
<1>1. messages' = [i \in DOMAIN s |-> Loaded(c, s[i])] /\ Transcribed(s, c, sends)
  BY DEF TranscriptReply, FetchedOnce
<1>2. transcript.stage = "served" /\ NoTranscript.stage = "none"
  BY DEF TranscriptReply, NoTranscript
<1>3. c # sends[t].conv
  BY <1>2 DEF Unanswered
<1> HIDE DEF s, c
<1>4. ASSUME NEW m \in Range(messages') PROVE m.turn # t
  <2>1. PICK i \in DOMAIN s : m = Loaded(c, s[i])
    BY <1>1 DEF Range
  <2>2. m.turn = s[i].turn
    BY <2>1 DEF Loaded
  <2> QED BY <1>1, <1>3, <2>2 DEF Transcribed
<1> QED
  BY <1>4, AwayKept DEF TranscriptReply, stream

LEMMA CreateAway ==
  ASSUME NEW t, Goes(t), OneNew, SendsAre(sends), NEW r \in creates, CreateReply(r), r.by \in Turns \cup {NoTurn}
  PROVE  Unanswered(t)'
<1>1. r.by = NoTurn
  <2>1. ASSUME r.by # NoTurn PROVE FALSE
    <3>1. Begin(r.by, r.conv, <<>>)
      BY <2>1 DEF CreateReply
    <3>2. overlapped' = (overlapped \/ \E o \in Turns : Alive(o))
      BY <3>1 DEF Begin
    <3>3. \E o \in Turns : Alive(o)
      BY DEF Goes, Alive
    <3> QED BY <3>2, <3>3, Zenon DEF Goes
  <2> QED BY <2>1
<1>2. messages' = <<>> /\ activeId' = r.conv /\ creates' = creates \ {r}
  BY <1>1 DEF CreateReply
<1>3. \A o \in creates' : o.by # NoTurn
  BY <1>1, <1>2 DEF OneNew
<1>4. transcript' # NoTranscript => transcript'.conv # sends[t].conv
  <2>1. CASE activeId # r.conv
    <3>1. Fetch(r.conv)
      BY <2>1 DEF CreateReply
    <3>2. transcript'.conv = r.conv
      BY <3>1 DEF Fetch
    <3>3. r.conv # sends[t].conv
      BY <1>1, <2>1 DEF Goes, Unanswered
    <3> QED BY <3>2, <3>3
  <2>2. CASE activeId = r.conv
    <3>1. UNCHANGED transcript
      BY <1>1, <2>2 DEF CreateReply
    <3> QED BY <3>1 DEF Goes, Unanswered
  <2> QED BY <2>1, <2>2
<1>5. Range(messages') = {}
  BY <1>2, NoneHeld
<1> QED
  BY <1>3, <1>4, <1>5 DEF Goes, Unanswered, NoTranscript

LEMMA SelectAway ==
  ASSUME NEW t, Goes(t), StopReaches, SendsAre(sends), abortRef \in Turns \cup {NoTurn},
         NEW shown, AbortInto(shown)
  PROVE  ~Alive(t)'
<1>1. abortRef = t /\ t # NoTurn
  BY DEF Goes, StopReaches, Alive, Turns, NoTurn
<1>2. Close(t, "stopped", NewReader)
  BY <1>1 DEF AbortInto
<1>3. sends'[t].phase = "stopped"
  BY <1>2, CloseBecomes DEF Goes, Closed, Call
<1> QED BY <1>3 DEF Alive

(* A stream that has just begun, in a conversation that was there: the     *)
(* request for its transcript has been aborted.                            *)
LEMMA NewAway ==
  ASSUME IndInv, DataInv, OnceInv, [Next]_vars, NEW t \in Turns, sends[t].phase \notin {"posting", "reading"},
         Alive(t)', ~Excused(t)'
  PROVE  Unanswered(t)'
<1>1. /\ AllLater /\ SendsAre(sends) /\ abortRef' = t /\ t # NoTurn /\ abortRef # t
      /\ messages \in Seq(Messages) /\ ShownBegun
  BY CallsLater DEF AllLater, Later, Alive, Turns, NoTurn, IndInv, StreamInv, Calls, DataInv,
                    RefAlive, OnceInv
<1>2. ASSUME NEW o \in Turns, Send(o) PROVE Unanswered(t)'
  <2>1. SendNow(o) /\ o = t /\ sends[t].phase = "idle"
    BY <1>1, <1>2 DEF Send, SendNow, Begin, Unasked
  <2>2. Range(messages') = Range(messages) \cup {Question(activeId, t)} /\ Question(activeId, t).role = "user"
    BY <1>1, <2>1, BeginShows DEF SendNow, Question
  <2>3. \A m \in Range(messages) : m.turn # t
    BY <1>1, <2>1 DEF ShownBegun, Waiting
  <2>4. sends'[t].conv = activeId
    BY <1>1, <2>1, BeginBecomes DEF SendNow, Begun, Call
  <2>5. transcript' = NoTranscript /\ activeId' = activeId
    BY <1>2, <2>1 DEF Send, SendNow
  <2> QED BY <2>2, <2>3, <2>4, <2>5 DEF Unanswered, NoTranscript
<1>3. ASSUME NEW r \in creates, CreateReply(r) PROVE FALSE
  <2>1. Begin(r.by, r.conv, <<>>) /\ r.by = t
    BY <1>1, <1>3 DEF CreateReply, stream, Begin
  <2>2. sends[t].phase = "creating"
    BY <1>1, <2>1 DEF IndInv, StreamInv, Calls
  <2> DEFINE fresh == sends[t].phase = "creating"
  <2>3. Begun(sends[t], r.conv, fresh, sends'[t])
    BY <1>1, <2>1, BeginBecomes
  <2>4. fresh
    BY <2>2
  <2> HIDE DEF fresh
  <2>5. sends'[t].fresh
    BY <2>3, <2>4 DEF Begun, Call
  <2> QED BY <2>5 DEF Excused
<1> QED
  BY <1>1, <1>2, <1>3
   DEF Next, vars, stream, User, Retry, Stop, Select, New, AbortInto, Close, ServeList, ListReply, ListFails,
       ServeTranscript, TranscriptReply, TranscriptFails, Creation, ServeCreate, CreateFails,
       ServePost, SaveAnswer, Chunk, StreamEnds, StreamFails, SessionExpired

LEMMA GoesAway ==
  ASSUME IndInv, DataInv, OnceInv, [Next]_vars, NEW t, Goes(t), Alive(t)'
  PROVE  Unanswered(t)'
<1>1. /\ OneNew /\ FetchedOnce /\ SendsAre(sends) /\ StopReaches /\ RefAlive /\ messages \in Seq(Messages)
      /\ abortRef \in Turns \cup {NoTurn} /\ t \in Turns /\ Unanswered(t)
      /\ sends'[t].conv = sends[t].conv /\ sends[t].conv \in Known /\ NoConv \notin Known
      /\ activeId # NoConv
  BY DEF OnceInv, DataInv, IndInv, StreamInv, Calls, Streaming, Goes, Known, NoConv, OneNew
<1>2. CASE UNCHANGED <<messages, activeId, transcript, creates>>
  BY <1>1, <1>2, AwayKept
<1>3. CASE User
  <2>1. CASE Retry
    BY <1>2, <2>1 DEF Retry, view
  <2>2. CASE Stop
    BY <1>1, <2>2, SelectAway DEF Stop
  <2>3. ASSUME NEW c \in Convs, Select(c) PROVE Unanswered(t)'
    BY <1>1, <2>3, SelectAway DEF Select
  <2>4. ASSUME NEW s \in Scopes, New(s) PROVE Unanswered(t)'
    <3>1. UNCHANGED <<messages, activeId, transcript>>
          /\ \A r \in creates' : r \in creates \/ r.conv = NoConv
      BY <2>4 DEF New, view
    <3> QED BY <1>1, <3>1, AwayKept
  <2>5. ASSUME NEW o \in Turns, Send(o) PROVE Unanswered(t)'
    <3>1. SendNow(o)
      BY <1>1, <2>5 DEF Send
    <3>2. overlapped' = (overlapped \/ \E a \in Turns : Alive(a))
      BY <3>1 DEF SendNow, Begin
    <3>3. \E a \in Turns : Alive(a)
      BY DEF Goes, Alive
    <3>4. overlapped'
      BY <3>2, <3>3, Zenon
    <3> QED BY <3>4 DEF Goes
  <2> QED
    BY <1>3, <2>1, <2>2, <2>3, <2>4, <2>5 DEF User
<1>4. CASE ServeList \/ ListReply \/ ListFails \/ UNCHANGED vars
  BY <1>1, <1>2, <1>4 DEF ServeList, ListReply, ListFails, view, vars
<1>5. CASE ServeTranscript \/ TranscriptFails
  <2>1. UNCHANGED <<messages, activeId, creates>>
    BY <1>5 DEF ServeTranscript, TranscriptFails
  <2>2. transcript' # NoTranscript => transcript # NoTranscript /\ transcript'.conv = transcript.conv
    <3>1. CASE ServeTranscript
      <4>1. transcript.stage = "sent" /\ NoTranscript.stage = "none"
        BY <3>1 DEF ServeTranscript, NoTranscript
      <4>2. transcript'.conv = transcript.conv
        BY <3>1 DEF ServeTranscript, IndInv, ViewInv, Shape
      <4> QED BY <4>1, <4>2
    <3> QED BY <1>5, <3>1 DEF TranscriptFails
  <2> QED BY <1>1, <2>1, <2>2, AwayKept
<1>6. CASE TranscriptReply
  BY <1>1, <1>6, TranscriptAway
<1>7. ASSUME NEW r \in creates, ServeCreate(r) \/ Creation(r) PROVE Unanswered(t)'
  <2>1. /\ r.by \in Turns \cup {NoTurn}
        /\ r = [by |-> r.by, scope |-> r.scope, conv |-> r.conv]
    BY DEF IndInv, StreamInv, Calls
  <2>2. CASE ServeCreate(r)
    <3> DEFINE new == [r EXCEPT !.conv = Len(stored) + 1]
    <3>1. new.conv \notin Known
      <4>1. Len(stored) \in Nat
        BY DEF IndInv, ViewInv, Shape
      <4>2. new.conv = Len(stored) + 1
        BY <2>1
      <4> QED BY <4>1, <4>2 DEF Known
    <3>2. creates' = (creates \ {r}) \cup {new} /\ UNCHANGED <<messages, activeId, transcript>>
      BY <2>2 DEF ServeCreate, view
    <3> HIDE DEF new
    <3> QED BY <1>1, <3>1, <3>2, AwayKept
  <2>3. CASE CreateFails(r)
    <3>1. creates' \subseteq creates /\ UNCHANGED <<messages, activeId, transcript>>
      BY <2>3 DEF CreateFails, view
    <3> QED BY <1>1, <3>1, AwayKept
  <2>4. CASE CreateReply(r)
    BY <1>1, <2>1, <2>4, CreateAway
  <2> QED BY <1>7, <2>2, <2>3, <2>4 DEF Creation
<1>8. ASSUME NEW o \in Turns,
             ServePost(o) \/ SaveAnswer(o) \/ Chunk(o) \/ StreamEnds(o) \/ StreamFails(o)
               \/ SessionExpired(o)
      PROVE  Unanswered(t)'
  <2>1. CASE StreamEnds(o)
    <3>1. o # t
      <4>1. ASSUME o = t PROVE FALSE
        <5>1. PICK r : Close(t, "answered", r)
          BY <2>1, <4>1 DEF StreamEnds
        <5>2. sends'[t].phase = "answered"
          BY <1>1, <5>1, CloseBecomes DEF Closed, Call
        <5> QED BY <5>2 DEF Alive
      <4> QED BY <4>1
    <3>2. NewAnswer(o) /\ UNCHANGED <<activeId, transcript, creates>>
      BY <1>1, <2>1, EndShows DEF StreamEnds
    <3> QED BY <1>1, <3>1, <3>2, AwayKept DEF NewAnswer
  <2>2. CASE ~StreamEnds(o)
    BY <1>2, <1>8, <2>2 DEF ServePost, SaveAnswer, Chunk, StreamFails, SessionExpired, view
  <2> QED BY <2>1, <2>2
<1> QED
  BY <1>3, <1>4, <1>5, <1>6, <1>7, <1>8 DEF Next

LEMMA AwayStep == IndInv /\ DataInv /\ OnceInv /\ [Next]_vars => AnswersAway'
<1> SUFFICES ASSUME IndInv, DataInv, OnceInv, [Next]_vars, NEW t \in Turns, Alive(t)', ~Excused(t)'
             PROVE  Unanswered(t)'
  BY DEF AnswersAway
<1>1. CASE Alive(t)
  <2>1. AllLater /\ ExcusesStay
    BY CallsLater, ExcusedStays
  <2>2. ~overlapped /\ ~sends[t].fresh /\ ~overlapped'
    BY <2>1 DEF Excused, ExcusesStay
  <2>3. Unanswered(t)
    BY <1>1, <2>2 DEF OnceInv, AnswersAway, Excused
  <2>4. sends[t].conv \in Known
    BY <1>1 DEF DataInv, CallsOK, CallOK, Alive
  <2>5. sends'[t].conv = sends[t].conv
    BY <1>1, <2>1 DEF AllLater, Later, Alive, Waiting
  <2> QED BY <1>1, <2>2, <2>3, <2>4, <2>5, GoesAway DEF Goes
<1>2. CASE ~Alive(t)
  BY <1>2, NewAway DEF Alive
<1> QED BY <1>1, <1>2

LEMMA OnceInitially == Init => OnceInv
<1> SUFFICES ASSUME Init PROVE OnceInv
  OBVIOUS
<1>1. NoneTwice(messages) /\ ShownBegun /\ FetchedOnce
  BY NoneHeld DEF Init, NoneTwice, ShownBegun, FetchedOnce, Transcribed, NoTranscript
<1>2. StoredOnce
  BY DEF Init, StoredOnce, Known, Transcribed, Same, Stored, Turns, NoTurn
<1>3. AnswersAway /\ OneNew
  BY DEF Init, AnswersAway, OneNew, Alive, NoSend
<1> QED BY <1>1, <1>2, <1>3 DEF OnceInv

LEMMA OnceInvariance == Spec => [](IndInv /\ DataInv /\ OnceInv)
<1>1. Init => IndInv /\ DataInv /\ OnceInv
  BY Initially, InitialData, OnceInitially
<1>2. (IndInv /\ DataInv /\ OnceInv) /\ [Next]_vars => (IndInv /\ DataInv /\ OnceInv)'
  BY Inductive, DataStep, OnceStep, StoredOnceStep, FetchedOnceStep, BegunStep, AwayStep, OneNewStep
     DEF OnceInv
<1> QED
  BY <1>1, <1>2, PTL DEF Spec

(* No turn is shown twice.                                                 *)
THEOREM TurnsShownOnce == Spec => []ShownOnce
<1>1. OnceInv => ShownOnce
  BY DEF OnceInv, NoneTwice, Same, Excused, ShownOnce
<1> QED
  BY <1>1, OnceInvariance, PTL
=============================================================================
