-------------------------- MODULE ChatStreamProofs --------------------------
(***************************************************************************)
(* The reader of a streamed answer, for every text and every way of        *)
(* cutting it: it has passed on the events that are due.  What holds of    *)
(* the reader after a text holds after one symbol more (ReadsSymbol), and  *)
(* so after any chunk (ConsumesChunk).                                     *)
(***************************************************************************)
EXTENDS ChatStream, OrderingProofs, SequenceTheorems

Events == {"delta", "citations", "done", "error"}
Readers == [buffer : Seq(Symbols), events : Seq(Events), terminal : BOOLEAN]

(* The line end before i, and what follows the last one. *)
LastEnd(text, i) == Max({0} \cup {j \in LineEnds(text) : j < i})
LastLine(text) == SubSeq(text, 1 + LastEnd(text, Len(text) + 1), Len(text))

Ended(text) == \E e \in LineEnds(text) : LineTo(text, e) = <<"error">>

(* What a reader has made of a text. *)
ReaderOf(r, text) ==
  /\ r \in Readers
  /\ r.events = EventsDue(text)
  /\ r.terminal <=> Ended(text)
  /\ ~r.terminal => r.buffer = LastLine(text)

-----------------------------------------------------------------------------
(* Texts, and what one symbol adds to them.                                *)

LEMMA AppendIs ==
  ASSUME NEW S, NEW s \in Seq(S), NEW x
  PROVE  Append(s, x) = [k \in 1..(Len(s) + 1) |-> IF k = Len(s) + 1 THEN x ELSE s[k]]
<1> DEFINE T == S \cup {x}
<1>1. s \in Seq(T) /\ x \in T
  BY SeqMonotonic
<1> HIDE DEF T
<1>2. /\ Append(s, x) \in Seq(T) /\ Len(s) \in Nat /\ Len(Append(s, x)) = Len(s) + 1
      /\ Append(s, x)[Len(s) + 1] = x
      /\ \A k \in 1..Len(s) : Append(s, x)[k] = s[k]
  BY <1>1, AppendProperties, LenProperties
<1>3. Append(s, x) = [k \in 1..(Len(s) + 1) |-> Append(s, x)[k]]
  BY <1>2, LenProperties
<1>4. \A k \in 1..(Len(s) + 1) : k = Len(s) + 1 \/ k \in 1..Len(s)
  BY <1>2
<1>5. \A k \in 1..(Len(s) + 1) : Append(s, x)[k] = IF k = Len(s) + 1 THEN x ELSE s[k]
  BY <1>2, <1>4
<1> QED
  BY <1>3, <1>5

LEMMA TextIs ==
  ASSUME NEW text \in Seq(Symbols)
  PROVE  /\ Len(text) \in Nat /\ DOMAIN text = 1..Len(text)
         /\ \A i \in 1..Len(text) : text[i] \in Symbols
         /\ LineEnds(text) \subseteq 1..Len(text) /\ IsFiniteSet(LineEnds(text))
<1>1. Len(text) \in Nat /\ DOMAIN text = 1..Len(text) /\ \A i \in 1..Len(text) : text[i] \in Symbols
  OBVIOUS
<1>2. IsFiniteSet(1..Len(text))
  <2>1. 1 \in Int /\ Len(text) \in Int
    BY <1>1
  <2> QED BY <2>1, FS_Interval
<1>3. LineEnds(text) \subseteq 1..Len(text)
  BY <1>1 DEF LineEnds
<1> QED
  BY <1>1, <1>2, <1>3, FS_Subset

(* The greatest number of a finite set: the least one of its upper bounds. *)
LEMMA MaxIs ==
  ASSUME NEW T, T \subseteq Nat, T # {}, NEW n \in Nat, \A x \in T : x <= n
  PROVE  Max(T) \in T /\ \A x \in T : x <= Max(T)
<1> DEFINE B == {b \in Nat : \A x \in T : x <= b}
<1>1. PICK b \in B : \A c \in B : b <= c
  <2>1. B \subseteq Nat /\ n \in B
    OBVIOUS
  <2> HIDE DEF B
  <2> QED BY <2>1, NatMin
<1>2. b \in Nat /\ \A x \in T : x <= b
  BY <1>1
<1>3. b \in T
  <2> SUFFICES ASSUME b \notin T PROVE FALSE
    OBVIOUS
  <2>1. \A x \in T : x \in Nat /\ x < b
    BY <1>2
  <2>2. b # 0
    <3>1. PICK x : x \in T
      OBVIOUS
    <3> QED BY <1>2, <2>1, <3>1
  <2>3. b - 1 \in Nat /\ \A x \in T : x <= b - 1
    BY <1>2, <2>1, <2>2
  <2>4. b - 1 \in B
    BY <2>3
  <2>5. b <= b - 1
    BY <1>1, <2>4
  <2> QED BY <1>2, <2>5
<1>4. \E x \in T : \A y \in T : x >= y
  BY <1>2, <1>3
<1>5. Max(T) \in T /\ \A y \in T : Max(T) >= y
  BY <1>4 DEF Max
<1> QED BY <1>5

LEMMA LastEndIs ==
  ASSUME NEW text \in Seq(Symbols), NEW i \in 1..(Len(text) + 1)
  PROVE  LastEnd(text, i) \in 0..(i - 1)
<1> DEFINE T == {0} \cup {j \in LineEnds(text) : j < i}
<1>1. T \subseteq Nat /\ T # {} /\ i \in Nat /\ \A x \in T : x <= i - 1 /\ x \in 0..(i - 1)
  BY TextIs
<1>2. i - 1 \in Nat
  OBVIOUS
<1> HIDE DEF T
<1>3. Max(T) \in T
  BY <1>1, <1>2, MaxIs
<1>4. LastEnd(text, i) = Max(T)
  BY DEF LastEnd, T
<1> QED BY <1>1, <1>3, <1>4

LEMMA SymbolAdded ==
  ASSUME NEW text \in Seq(Symbols), NEW x \in Symbols
  PROVE  /\ Append(text, x) \in Seq(Symbols) /\ Len(Append(text, x)) = Len(text) + 1
         /\ LineEnds(Append(text, x))
              = LineEnds(text) \cup (IF x = LF THEN {Len(text) + 1} ELSE {})
         /\ \A i \in 1..(Len(text) + 1) : LastEnd(Append(text, x), i) = LastEnd(text, i)
         /\ \A i, j \in Nat : j <= Len(text) /\ i >= 1 => SubSeq(Append(text, x), i, j) = SubSeq(text, i, j)
         /\ \A e \in 1..Len(text) : LineTo(Append(text, x), e) = LineTo(text, e)
<1> DEFINE more == Append(text, x)
           n == Len(text)
<1>1. /\ more \in Seq(Symbols) /\ Len(more) = n + 1 /\ n \in Nat
      /\ DOMAIN more = 1..(n + 1) /\ DOMAIN text = 1..n
      /\ more[n + 1] = x /\ \A i \in 1..n : more[i] = text[i]
  OBVIOUS
<1> HIDE DEF more, n
<1>2. \A i : i \in LineEnds(more) <=> i \in LineEnds(text) \/ (i = n + 1 /\ x = LF)
  BY <1>1 DEF LineEnds
<1>3. LineEnds(more) = LineEnds(text) \cup (IF x = LF THEN {n + 1} ELSE {})
  BY <1>2
<1>4. ASSUME NEW i \in 1..(n + 1) PROVE LastEnd(more, i) = LastEnd(text, i)
  <2>1. \A j : j \in LineEnds(more) /\ j < i <=> j \in LineEnds(text) /\ j < i
    BY <1>1, <1>2
  <2>2. {j \in LineEnds(more) : j < i} = {j \in LineEnds(text) : j < i}
    BY <2>1
  <2> QED BY <2>2 DEF LastEnd
<1>5. ASSUME NEW i \in Nat, NEW j \in Nat, j <= n, i >= 1
      PROVE  SubSeq(more, i, j) = SubSeq(text, i, j)
  BY <1>1, <1>5
<1>6. ASSUME NEW e \in 1..n PROVE LineTo(more, e) = LineTo(text, e)
  <2>1. LastEnd(more, e) = LastEnd(text, e) /\ LastEnd(text, e) \in 0..(e - 1)
    BY <1>1, <1>4, LastEndIs DEF n
  <2>2. SubSeq(more, 1 + LastEnd(text, e), e - 1) = SubSeq(text, 1 + LastEnd(text, e), e - 1)
    <3>1. 1 + LastEnd(text, e) \in Nat /\ e - 1 \in Nat /\ e - 1 <= n /\ 1 + LastEnd(text, e) >= 1
      BY <1>1, <2>1
    <3> QED BY <1>5, <3>1
  <2>3. \A t : LineTo(t, e) = WithoutCR(SubSeq(t, 1 + LastEnd(t, e), e - 1))
    BY DEF LineTo, LastEnd
  <2> QED BY <2>1, <2>2, <2>3
<1> QED
  BY <1>1, <1>3, <1>4, <1>5, <1>6 DEF more, n

LEMMA LastLineIs ==
  ASSUME NEW text \in Seq(Symbols)
  PROVE  LastLine(text) \in Seq(Symbols)
<1>1. LastEnd(text, Len(text) + 1) \in 0..Len(text) /\ Len(text) \in Nat
  BY LastEndIs, TextIs
<1> QED
  BY <1>1 DEF LastLine

(* A symbol continues the last line, or ends it. *)
LEMMA LastLineAdded ==
  ASSUME NEW text \in Seq(Symbols), NEW x \in Symbols
  PROVE  LastLine(Append(text, x)) = IF x = LF THEN <<>> ELSE Append(LastLine(text), x)
<1> DEFINE more == Append(text, x)
           n == Len(text)
           last == LastEnd(text, n + 1)
<1>1. /\ n \in Nat /\ more \in Seq(Symbols) /\ Len(more) = n + 1
      /\ LineEnds(more) = LineEnds(text) \cup (IF x = LF THEN {n + 1} ELSE {})
      /\ LineEnds(text) \subseteq 1..n
      /\ last \in 0..n
  BY SymbolAdded, TextIs, LastEndIs
<1>2. /\ LastLine(more) = SubSeq(more, 1 + LastEnd(more, n + 2), n + 1)
      /\ LastLine(text) = SubSeq(text, 1 + last, n)
  <2>1. (n + 1) + 1 = n + 2
    BY <1>1
  <2>2. LastLine(more) = SubSeq(more, 1 + LastEnd(more, Len(more) + 1), Len(more))
    BY DEF LastLine
  <2>3. LastLine(text) = SubSeq(text, 1 + last, n)
    BY DEF LastLine
  <2> HIDE DEF more, n, last
  <2> QED BY <1>1, <2>1, <2>2, <2>3
<1>3. CASE x = LF
  <2> DEFINE T == {0} \cup {j \in LineEnds(more) : j < n + 2}
  <2>1. T \subseteq Nat /\ T # {} /\ n + 1 \in T /\ \A j \in T : j <= n + 1
    BY <1>1, <1>3
  <2>2. Max(T) \in T /\ \A j \in T : j <= Max(T)
    <3> HIDE DEF T
    <3>1. n + 1 \in Nat
      BY <1>1
    <3> QED BY <2>1, <3>1, MaxIs
  <2>3. Max(T) = n + 1
    <3> HIDE DEF T
    <3>1. Max(T) \in Nat /\ n \in Nat /\ Max(T) <= n + 1 /\ n + 1 <= Max(T)
      BY <1>1, <2>1, <2>2
    <3> QED BY <3>1
  <2>4. LastEnd(more, n + 2) = n + 1
    BY <2>3 DEF LastEnd
  <2> HIDE DEF more, T
  <2>5. SubSeq(more, 1 + (n + 1), n + 1) = <<>>
    BY <1>1
  <2> QED BY <1>2, <1>3, <2>4, <2>5 DEF more
<1>4. CASE x # LF
  <2>1. {j \in LineEnds(more) : j < n + 2} = {j \in LineEnds(text) : j < n + 1}
    BY <1>1, <1>4
  <2>2. LastEnd(more, n + 2) = last
    BY <2>1 DEF LastEnd
  <2>3. SubSeq(more, 1 + last, n + 1) = Append(SubSeq(text, 1 + last, n), x)
    <3>1. /\ SubSeq(text, 1 + last, n) = [k \in 1..(n - last) |-> text[last + k]]
          /\ SubSeq(text, 1 + last, n) \in Seq(Symbols) /\ Len(SubSeq(text, 1 + last, n)) = n - last
      <4> HIDE DEF last
      <4> QED BY <1>1
    <3>2. SubSeq(more, 1 + last, n + 1) = [k \in 1..(n + 1 - last) |-> more[last + k]]
      <4> HIDE DEF last, more
      <4> QED BY <1>1
    <3>3. more[n + 1] = x /\ \A i \in 1..n : more[i] = text[i]
      OBVIOUS
    <3> DEFINE s == SubSeq(text, 1 + last, n)
    <3>4. Append(s, x) = [k \in 1..(n - last + 1) |-> IF k = n - last + 1 THEN x ELSE s[k]]
      <4>1. s \in Seq(Symbols) /\ Len(s) = n - last
        BY <3>1
      <4> HIDE DEF last, s
      <4> QED BY <4>1, AppendIs
    <3> HIDE DEF last, more, n
    <3>5. \A k \in 1..(n + 1 - last) : more[last + k] = IF k = n - last + 1 THEN x ELSE s[k]
      <4> SUFFICES ASSUME NEW k \in 1..(n + 1 - last)
                   PROVE  more[last + k] = IF k = n - last + 1 THEN x ELSE s[k]
        OBVIOUS
      <4>1. CASE k = n - last + 1
        <5>1. last + k = n + 1
          BY <1>1, <4>1
        <5> QED BY <3>3, <4>1, <5>1
      <4>2. CASE k # n - last + 1
        <5>1. k \in 1..(n - last) /\ last + k \in 1..n
          BY <1>1, <4>2
        <5>2. s[k] = text[last + k]
          BY <3>1, <5>1
        <5> QED BY <3>3, <4>2, <5>1, <5>2
      <4> QED BY <4>1, <4>2
    <3>6. n + 1 - last = n - last + 1
      BY <1>1
    <3> QED BY <3>2, <3>4, <3>5, <3>6
  <2> QED BY <1>2, <1>4, <2>2, <2>3
<1> QED
  BY <1>3, <1>4 DEF more

-----------------------------------------------------------------------------
(* The events that are due, and what one symbol adds to them.              *)

LEMMA EndsDueIs ==
  ASSUME NEW text \in Seq(Symbols)
  PROVE  EndsDue(text) \subseteq 1..Len(text) /\ EndsDue(text) \subseteq Nat /\ IsFiniteSet(EndsDue(text))
<1>1. EndsDue(text) \subseteq LineEnds(text)
  BY DEF EndsDue
<1> QED
  BY <1>1, TextIs, FS_Subset

LEMMA LineToEnd ==
  ASSUME NEW text \in Seq(Symbols), NEW x \in Symbols
  PROVE  LineTo(Append(text, x), Len(text) + 1) = WithoutCR(LastLine(text))
<1> DEFINE more == Append(text, x)
           n == Len(text)
           last == LastEnd(text, n + 1)
<1>1. n \in Nat /\ last \in 0..n /\ LastEnd(more, n + 1) = last
      /\ SubSeq(more, 1 + last, n) = SubSeq(text, 1 + last, n)
  <2>1. n \in Nat /\ last \in 0..n
    BY LastEndIs, TextIs
  <2>2. 1 + last \in Nat /\ 1 + last >= 1 /\ n <= n /\ n + 1 \in 1..(n + 1)
    BY <2>1
  <2> HIDE DEF last
  <2>3. SubSeq(more, 1 + last, n) = SubSeq(text, 1 + last, n)
    BY <2>1, <2>2, SymbolAdded
  <2>4. LastEnd(more, n + 1) = last
    BY <2>2, SymbolAdded DEF last
  <2> QED BY <2>1, <2>3, <2>4
<1>2. LineTo(more, n + 1) = WithoutCR(SubSeq(more, 1 + LastEnd(more, n + 1), (n + 1) - 1))
  BY DEF LineTo, LastEnd
<1>3. (n + 1) - 1 = n
  BY <1>1
<1>4. LastLine(text) = SubSeq(text, 1 + last, n)
  BY DEF LastLine
<1> HIDE DEF more, last
<1>5. LineTo(more, n + 1) = WithoutCR(LastLine(text))
  BY <1>1, <1>2, <1>3, <1>4
<1> QED BY <1>5 DEF more

LEMMA EndsDueAdded ==
  ASSUME NEW text \in Seq(Symbols), NEW x \in Symbols
  PROVE  LET line == WithoutCR(LastLine(text))
         IN  /\ EndsDue(Append(text, x))
                  = EndsDue(text) \cup (IF x = LF /\ line \in Payloads /\ ~Ended(text)
                                       THEN {Len(text) + 1} ELSE {})
             /\ Ended(Append(text, x)) <=> Ended(text) \/ (x = LF /\ line = <<"error">>)
<1> DEFINE more == Append(text, x)
           n == Len(text)
           line == WithoutCR(LastLine(text))
<1>1. /\ n \in Nat /\ LineEnds(text) \subseteq 1..n
      /\ LineEnds(more) = LineEnds(text) \cup (IF x = LF THEN {n + 1} ELSE {})
      /\ \A e \in 1..n : LineTo(more, e) = LineTo(text, e)
      /\ LineTo(more, n + 1) = line
  BY SymbolAdded, TextIs, LineToEnd
<1> HIDE DEF more, n, line
<1>2. \A e \in LineEnds(text) : LineTo(more, e) = LineTo(text, e) /\ e < n + 1 /\ e \in Nat /\ e # n + 1
  BY <1>1
<1>3. Ended(more) <=> Ended(text) \/ (x = LF /\ line = <<"error">>)
  BY <1>1, <1>2 DEF Ended
<1>4. ASSUME NEW e \in LineEnds(text) PROVE e \in EndsDue(more) <=> e \in EndsDue(text)
  <2>1. \A i : i \in LineEnds(more) /\ i < e <=> i \in LineEnds(text) /\ i < e
    BY <1>1, <1>2
  <2> QED BY <1>1, <1>2, <2>1 DEF EndsDue
<1>5. x = LF => (n + 1 \in EndsDue(more) <=> line \in Payloads /\ ~Ended(text))
  <2> SUFFICES ASSUME x = LF
               PROVE  n + 1 \in EndsDue(more) <=> line \in Payloads /\ ~Ended(text)
    OBVIOUS
  <2>1. n + 1 \in LineEnds(more)
    BY <1>1
  <2>2. \A i : i \in LineEnds(more) /\ i < n + 1 <=> i \in LineEnds(text)
    BY <1>1, <1>2
  <2> QED BY <1>1, <1>2, <2>1, <2>2 DEF EndsDue, Ended
<1>6. EndsDue(more) \subseteq LineEnds(more) /\ EndsDue(text) \subseteq LineEnds(text)
  BY DEF EndsDue
<1>7. EndsDue(more) = EndsDue(text) \cup (IF x = LF /\ line \in Payloads /\ ~Ended(text)
                                         THEN {n + 1} ELSE {})
  BY <1>1, <1>4, <1>5, <1>6
<1> QED
  BY <1>3, <1>7 DEF more, n, line

(* EventsDue without its LET. *)
LEMMA EventsDueAre ==
  ASSUME NEW text
  PROVE  EventsDue(text) = [k \in DOMAIN Listed(EndsDue(text)) |-> EventOf(LineTo(text, Listed(EndsDue(text))[k]))]
BY DEF EventsDue

LEMMA EventsDueAdded ==
  ASSUME NEW text \in Seq(Symbols), NEW x \in Symbols
  PROVE  LET line == WithoutCR(LastLine(text))
         IN  EventsDue(Append(text, x))
               = IF x = LF /\ line \in Payloads /\ ~Ended(text)
                 THEN Append(EventsDue(text), EventOf(line)) ELSE EventsDue(text)
<1> DEFINE more == Append(text, x)
           n == Len(text)
           line == WithoutCR(LastLine(text))
           l == Listed(EndsDue(text))
<1>1. /\ n \in Nat /\ EndsDue(text) \subseteq 1..n
      /\ EndsDue(text) \subseteq Nat /\ IsFiniteSet(EndsDue(text))
      /\ \A e \in 1..n : LineTo(more, e) = LineTo(text, e)
      /\ LineTo(more, n + 1) = line
  BY SymbolAdded, TextIs, EndsDueIs, LineToEnd
<1>2. EndsDue(more) = EndsDue(text) \cup (IF x = LF /\ line \in Payloads /\ ~Ended(text)
                                         THEN {n + 1} ELSE {})
  BY EndsDueAdded
<1>3. l \in Seq(EndsDue(text))
  BY <1>1, ListedIs
<1>4. /\ EventsDue(text) = [k \in DOMAIN l |-> EventOf(LineTo(text, l[k]))]
      /\ EventsDue(more) = [k \in DOMAIN Listed(EndsDue(more)) |-> EventOf(LineTo(more, Listed(EndsDue(more))[k]))]
  BY EventsDueAre
<1> HIDE DEF more, n, line, l
<1>5. DOMAIN l = 1..Len(l) /\ Len(l) \in Nat /\ \A k \in 1..Len(l) : l[k] \in 1..n
  BY <1>1, <1>3
<1>6. CASE ~(x = LF /\ line \in Payloads /\ ~Ended(text))
  <2>1. Listed(EndsDue(more)) = l
    <3>1. EndsDue(more) = EndsDue(text)
      BY <1>2, <1>6
    <3> QED BY <3>1 DEF l
  <2>2. EventsDue(more) = EventsDue(text)
    BY <1>1, <1>4, <1>5, <2>1
  <2> QED BY <1>6, <2>2 DEF more, line
<1>7. CASE x = LF /\ line \in Payloads /\ ~Ended(text)
  <2>1. EndsDue(more) = EndsDue(text) \cup {n + 1}
    BY <1>2, <1>7
  <2>2. Listed(EndsDue(more)) = Append(l, n + 1)
    <3>1. n + 1 \in Nat /\ \A e \in EndsDue(text) : e < n + 1
      BY <1>1
    <3> QED BY <1>1, <2>1, <3>1, ListedAppend DEF l
  <2> DEFINE m == Append(l, n + 1)
  <2>3. /\ DOMAIN m = 1..(Len(l) + 1) /\ m[Len(l) + 1] = n + 1
        /\ \A k \in 1..Len(l) : m[k] = l[k]
    BY <1>1, <1>3, <1>5
  <2>4. EventsDue(more) = [k \in DOMAIN m |-> EventOf(LineTo(more, m[k]))]
    BY <1>4, <2>2
  <2> HIDE DEF m
  <2>5. /\ EventsDue(more) = [k \in 1..(Len(l) + 1) |-> EventsDue(more)[k]]
        /\ EventsDue(more)[Len(l) + 1] = EventOf(line)
        /\ \A k \in 1..Len(l) : EventsDue(more)[k] = EventOf(LineTo(text, l[k]))
    BY <1>1, <1>5, <2>3, <2>4
  <2> DEFINE d == EventsDue(text)
             v == EventOf(line)
             S == {d[k] : k \in 1..Len(l)}
  <2>6. d \in Seq(S) /\ Len(d) = Len(l)
    BY <1>4, <1>5
  <2>7. \A k \in 1..Len(l) : d[k] = EventOf(LineTo(text, l[k]))
    BY <1>4, <1>5
  <2> HIDE DEF d, v, S
  <2>8. Append(d, v) = [k \in 1..(Len(l) + 1) |-> IF k = Len(l) + 1 THEN v ELSE d[k]]
    BY <2>6, AppendIs
  <2>9. EventsDue(more) = [k \in 1..(Len(l) + 1) |-> IF k = Len(l) + 1 THEN v ELSE d[k]]
    <3>1. ASSUME NEW k \in 1..(Len(l) + 1)
          PROVE  EventsDue(more)[k] = IF k = Len(l) + 1 THEN v ELSE d[k]
      <4>1. CASE k = Len(l) + 1
        BY <2>5, <4>1 DEF v
      <4>2. CASE k # Len(l) + 1
        <5>1. k \in 1..Len(l)
          BY <1>5, <4>2
        <5> QED BY <2>5, <2>7, <4>2, <5>1
      <4> QED BY <4>1, <4>2
    <3> QED BY <2>5, <3>1
  <2> QED BY <1>7, <2>8, <2>9 DEF more, line, d, v
<1> QED
  BY <1>6, <1>7

LEMMA EventsDueTyped ==
  ASSUME NEW text \in Seq(Symbols)
  PROVE  EventsDue(text) \in Seq(Events)
<1> DEFINE l == Listed(EndsDue(text))
<1>1. l \in Seq(EndsDue(text))
  BY EndsDueIs, ListedIs
<1>2. \A e \in EndsDue(text) : EventOf(LineTo(text, e)) \in Events
  BY DEF EndsDue, EventOf, Payloads, Events
<1>3. EventsDue(text) = [k \in DOMAIN l |-> EventOf(LineTo(text, l[k]))]
  BY EventsDueAre
<1> HIDE DEF l
<1>4. DOMAIN l = 1..Len(l) /\ Len(l) \in Nat /\ \A k \in 1..Len(l) : l[k] \in EndsDue(text)
  BY <1>1
<1> QED
  BY <1>2, <1>3, <1>4

-----------------------------------------------------------------------------
(* The reader.                                                             *)

LEMMA NewReaderOf == ReaderOf(NewReader, <<>>)
<1> DEFINE none == <<>>
<1>1. none \in Seq(Symbols) /\ Len(none) = 0 /\ NewReader.events = none /\ NewReader.buffer = none
  BY DEF NewReader
<1>2. NewReader \in Readers /\ NewReader.terminal = FALSE
  BY DEF NewReader, Readers
<1>3. LineEnds(none) = {}
  BY DEF LineEnds
<1>4. ~Ended(none)
  BY <1>3 DEF Ended
<1>5. LastLine(none) = none
  <2>1. LastEnd(none, 1) \in 0..0
    <3>1. none \in Seq(Symbols) /\ 1 \in 1..(Len(none) + 1) /\ 1 - 1 = 0
      BY <1>1
    <3> HIDE DEF none
    <3> QED BY <3>1, LastEndIs
  <2>2. LastLine(none) = SubSeq(none, 1 + 0, 0)
    <3>1. Len(none) + 1 = 1 /\ LastEnd(none, 1) = 0
      BY <1>1, <2>1
    <3> HIDE DEF none
    <3> QED BY <1>1, <3>1 DEF LastLine
  <2> QED BY <2>2
<1>6. EventsDue(none) = none
  <2>1. none \in Seq(Symbols) /\ EndsDue(none) = {}
    BY <1>3 DEF EndsDue
  <2>2. Listed(EndsDue(none)) \in Seq({})
    <3> HIDE DEF none
    <3>1. Listed(EndsDue(none)) \in Seq(EndsDue(none))
      BY <2>1, EndsDueIs, ListedIs
    <3> QED BY <2>1, <3>1
  <2>3. DOMAIN Listed(EndsDue(none)) = {}
    <3> DEFINE l == Listed(EndsDue(none))
    <3>1. l \in Seq({})
      BY <2>2
    <3> HIDE DEF l
    <3>2. Len(l) \in Nat /\ DOMAIN l = 1..Len(l) /\ \A k \in 1..Len(l) : l[k] \in {}
      BY <3>1
    <3> QED BY <3>2 DEF l
  <2> QED BY <2>3, EventsDueAre
<1> HIDE DEF none
<1>7. ReaderOf(NewReader, none)
  BY <1>1, <1>2, <1>4, <1>5, <1>6 DEF ReaderOf
<1> QED
  BY <1>7 DEF none

LEMMA LineHandled ==
  ASSUME NEW r \in Readers, NEW line
  PROVE  /\ HandleLine(r, line) \in Readers /\ HandleLine(r, line).buffer = <<>>
         /\ HandleLine(r, line).events =
              IF WithoutCR(line) \in Payloads THEN Append(r.events, EventOf(WithoutCR(line))) ELSE r.events
         /\ HandleLine(r, line).terminal <=> (WithoutCR(line) = <<"error">>
                                               \/ (r.terminal /\ WithoutCR(line) \notin Payloads))
<1>1. r = [buffer |-> r.buffer, events |-> r.events, terminal |-> r.terminal]
      /\ r.events \in Seq(Events) /\ r.terminal \in BOOLEAN
  BY DEF Readers
<1>2. <<>> \in Seq(Symbols) /\ <<"error">> \in Payloads
  BY DEF Payloads
<1> DEFINE w == WithoutCR(line)
<1>3. CASE w \in Payloads
  <2>1. EventOf(w) \in Events
    BY <1>3 DEF EventOf, Payloads, Events
  <2> HIDE DEF w
  <2> DEFINE over == w = <<"error">>
  <2>2. HandleLine(r, line) = [buffer |-> <<>>, events |-> Append(r.events, EventOf(w)), terminal |-> over]
    BY <1>3 DEF HandleLine, w
  <2>3. Append(r.events, EventOf(w)) \in Seq(Events) /\ over \in BOOLEAN
    BY <1>1, <2>1
  <2> HIDE DEF over
  <2>4. HandleLine(r, line).terminal = over
    BY <2>2
  <2>5. HandleLine(r, line) \in Readers /\ HandleLine(r, line).buffer = <<>>
        /\ HandleLine(r, line).events = Append(r.events, EventOf(w))
    BY <1>2, <2>2, <2>3 DEF Readers
  <2>6. HandleLine(r, line).terminal <=> w = <<"error">>
    BY <2>4, Zenon DEF over
  <2> QED BY <1>3, <2>5, <2>6 DEF w
<1>4. CASE w \notin Payloads
  <2>1. HandleLine(r, line) = [buffer |-> <<>>, events |-> r.events, terminal |-> r.terminal]
    BY <1>1, <1>4 DEF HandleLine
  <2>2. w # <<"error">>
    BY <1>2, <1>4
  <2> QED BY <1>1, <1>2, <1>4, <2>1, <2>2 DEF Readers
<1> QED BY <1>3, <1>4

LEMMA ReadsSymbol ==
  ASSUME NEW text \in Seq(Symbols), NEW x \in Symbols, NEW r, ReaderOf(r, text)
  PROVE  /\ ReaderOf(ReadSymbol(r, x), Append(text, x))
         /\ r.terminal => ReadSymbol(r, x) = r
<1> DEFINE more == Append(text, x)
           line == WithoutCR(LastLine(text))
<1>1. /\ r \in Readers /\ r.events = EventsDue(text) /\ r.terminal \in BOOLEAN
      /\ r.terminal <=> Ended(text)
      /\ ~r.terminal => r.buffer = LastLine(text)
  BY DEF ReaderOf, Readers
<1>2. /\ EventsDue(more) = IF x = LF /\ line \in Payloads /\ ~Ended(text)
                          THEN Append(EventsDue(text), EventOf(line)) ELSE EventsDue(text)
      /\ Ended(more) <=> Ended(text) \/ (x = LF /\ line = <<"error">>)
      /\ LastLine(more) = IF x = LF THEN <<>> ELSE Append(LastLine(text), x)
  BY EventsDueAdded, EndsDueAdded, LastLineAdded
<1> HIDE DEF more, line
<1>3. CASE r.terminal
  <2>1. ReadSymbol(r, x) = r
    BY <1>3 DEF ReadSymbol
  <2>2. ReaderOf(r, more)
    BY <1>1, <1>2, <1>3 DEF ReaderOf
  <2> QED BY <2>1, <2>2 DEF more
<1>4. CASE ~r.terminal /\ x = LF
  <2>1. ReadSymbol(r, x) = HandleLine(r, r.buffer)
    BY <1>4 DEF ReadSymbol
  <2>2. WithoutCR(r.buffer) = line
    BY <1>1, <1>4 DEF line
  <2> DEFINE q == HandleLine(r, r.buffer)
  <2>3. /\ q \in Readers /\ q.buffer = <<>>
        /\ q.events = IF line \in Payloads THEN Append(r.events, EventOf(line)) ELSE r.events
        /\ q.terminal <=> (line = <<"error">> \/ (r.terminal /\ line \notin Payloads))
    BY <1>1, <2>2, LineHandled
  <2> HIDE DEF q
  <2>4. q.terminal <=> Ended(more)
    BY <1>1, <1>2, <1>4, <2>3
  <2>5. q.events = EventsDue(more)
    BY <1>1, <1>2, <1>4, <2>3
  <2>6. ReaderOf(q, more)
    BY <1>2, <1>4, <2>3, <2>4, <2>5 DEF ReaderOf
  <2> QED BY <1>4, <2>1, <2>6 DEF more, q
<1>5. CASE ~r.terminal /\ x # LF
  <2> DEFINE q == [buffer |-> Append(LastLine(text), x), events |-> r.events, terminal |-> r.terminal]
  <2>1. ReadSymbol(r, x) = q
    <3>1. ReadSymbol(r, x) = [r EXCEPT !.buffer = Append(@, x)]
      BY <1>5 DEF ReadSymbol
    <3>2. r = [buffer |-> r.buffer, events |-> r.events, terminal |-> r.terminal]
      BY <1>1 DEF Readers
    <3> QED BY <1>1, <1>5, <3>1, <3>2
  <2>2. Append(LastLine(text), x) \in Seq(Symbols)
    BY LastLineIs
  <2>3. /\ q \in Readers
    BY <1>1, <2>2 DEF Readers
  <2>4. q.terminal = r.terminal /\ q.events = r.events /\ q.buffer = Append(LastLine(text), x)
    OBVIOUS
  <2> HIDE DEF q
  <2>5. ReaderOf(q, more)
    BY <1>1, <1>2, <1>5, <2>3, <2>4 DEF ReaderOf
  <2> QED BY <1>5, <2>1, <2>5 DEF more
<1> QED BY <1>3, <1>4, <1>5

(* A chunk is read symbol by symbol: it comes to the same whatever it is   *)
(* cut into.                                                               *)
After(f, r, chunk, n) ==
  f = [i \in 0..n |-> IF i = 0 THEN r ELSE ReadSymbol(f[i - 1], chunk[i])]

LEMMA AfterExists ==
  ASSUME NEW r, NEW chunk, NEW n \in Nat
  PROVE  \E f : After(f, r, chunk, n)
<1> DEFINE T == {m \in 0..n : ~\E f : After(f, r, chunk, m)}
<1> SUFFICES ASSUME T # {} PROVE FALSE
  OBVIOUS
<1>1. PICK m \in T : \A k \in T : m <= k
  <2>1. T \subseteq Nat
    OBVIOUS
  <2> HIDE DEF T
  <2> QED BY <2>1, NatMin
<1>2. m # 0
  <2> DEFINE f == [i \in 0..0 |-> r]
  <2>1. After(f, r, chunk, 0)
    BY DEF After
  <2> QED BY <2>1
<1>3. m \in Nat /\ m - 1 \in 0..n /\ m - 1 \in Nat
  BY <1>2
<1>4. PICK f : After(f, r, chunk, m - 1)
  BY <1>1, <1>3
<1> DEFINE g == [i \in 0..m |-> IF i = m THEN ReadSymbol(f[m - 1], chunk[m]) ELSE f[i]]
<1>5. \A i \in 0..m : i # 0 => i - 1 \in 0..m /\ i - 1 # m
  BY <1>3
<1>6. \A i \in 0..(m - 1) : f[i] = IF i = 0 THEN r ELSE ReadSymbol(f[i - 1], chunk[i])
  BY <1>4 DEF After
<1>7. ASSUME NEW i \in 0..m
      PROVE  g[i] = IF i = 0 THEN r ELSE ReadSymbol(g[i - 1], chunk[i])
  <2>1. CASE i = m
    BY <1>2, <1>3, <1>5, <2>1
  <2>2. CASE i # m
    <3>1. i \in 0..(m - 1) /\ g[i] = f[i]
      BY <1>3, <2>2
    <3>2. i # 0 => g[i - 1] = f[i - 1]
      BY <1>5
    <3> HIDE DEF g
    <3> QED BY <1>6, <3>1, <3>2
  <2> QED BY <2>1, <2>2
<1>8. g = [i \in 0..m |-> g[i]]
  OBVIOUS
<1> HIDE DEF g
<1>9. After(g, r, chunk, m)
  BY <1>7, <1>8 DEF After
<1> QED BY <1>1, <1>9

LEMMA ConsumesChunk ==
  ASSUME NEW text \in Seq(Symbols), NEW chunk \in Seq(Symbols), NEW r, ReaderOf(r, text)
  PROVE  /\ ReaderOf(Consume(r, chunk), text \o chunk)
         /\ r.terminal => Consume(r, chunk) = r
<1> DEFINE n == Len(chunk)
           after == CHOOSE f : f = [i \in 0..n |-> IF i = 0 THEN r ELSE ReadSymbol(f[i - 1], chunk[i])]
<1>1. n \in Nat /\ \A i \in 1..n : chunk[i] \in Symbols
  OBVIOUS
<1>2. Consume(r, chunk) = after[n]
  BY DEF Consume
<1>3. After(after, r, chunk, n)
  <2>0. PICK g : After(g, r, chunk, n)
    <3> HIDE DEF n
    <3> QED BY <1>1, AfterExists
  <2>1. g = [i \in 0..n |-> IF i = 0 THEN r ELSE ReadSymbol(g[i - 1], chunk[i])]
    BY <2>0 DEF After
  <2>2. after = [i \in 0..n |-> IF i = 0 THEN r ELSE ReadSymbol(after[i - 1], chunk[i])]
    BY <2>1
  <2> QED BY <2>2 DEF After
<1> HIDE DEF after
<1>4. \A i \in 0..n : after[i] = IF i = 0 THEN r ELSE ReadSymbol(after[i - 1], chunk[i])
  BY <1>3 DEF After
<1> DEFINE Read(i) == text \o SubSeq(chunk, 1, i)
           Good(i) == ReaderOf(after[i], Read(i)) /\ (r.terminal => after[i] = r)
<1>5. Good(0)
  <2>1. SubSeq(chunk, 1, 0) = <<>>
    OBVIOUS
  <2>2. Read(0) = text
    BY <2>1, ConcatEmptySeq
  <2>3. after[0] = r
    BY <1>1, <1>4
  <2> HIDE DEF Read
  <2> QED BY <2>2, <2>3
<1>6. ASSUME NEW i \in 1..n, Good(i - 1) PROVE Good(i)
  <2>1. i - 1 \in 0..n /\ i \in 0..n /\ i # 0
    BY <1>1
  <2>2. after[i] = ReadSymbol(after[i - 1], chunk[i]) /\ chunk[i] \in Symbols
    BY <1>1, <1>4, <2>1
  <2>3. SubSeq(chunk, 1, i - 1) \in Seq(Symbols) /\ Read(i - 1) \in Seq(Symbols)
    BY <2>1
  <2>4. Read(i) = Append(Read(i - 1), chunk[i])
    <3>1. SubSeq(chunk, 1, i) = Append(SubSeq(chunk, 1, i - 1), chunk[i])
      BY <1>1, SubSeqRecursiveSecond
    <3> DEFINE s == SubSeq(chunk, 1, i - 1)
               x == chunk[i]
    <3>2. s \in Seq(Symbols) /\ x \in Symbols /\ <<x>> \in Seq(Symbols)
      BY <2>2, <2>3
    <3> HIDE DEF s, x
    <3>3. Append(s, x) = s \o <<x>> /\ Append(text \o s, x) = (text \o s) \o <<x>> /\ text \o s \in Seq(Symbols)
      BY <3>2, AppendIsConcat, ConcatProperties
    <3>4. text \o (s \o <<x>>) = (text \o s) \o <<x>>
      BY <3>2, ConcatAssociative
    <3>5. text \o Append(s, x) = Append(text \o s, x)
      BY <3>3, <3>4
    <3> QED BY <3>1, <3>5 DEF s, x
  <2> HIDE DEF Read
  <2>5. ReaderOf(after[i - 1], Read(i - 1)) /\ (r.terminal => after[i - 1] = r)
    BY <1>6
  <2>6. ReaderOf(after[i], Read(i)) /\ (after[i - 1].terminal => after[i] = after[i - 1])
    BY <2>2, <2>3, <2>4, <2>5, ReadsSymbol
  <2> QED BY <2>5, <2>6
<1> HIDE DEF Good
<1>7. Good(n)
  <2> DEFINE B == {i \in 0..n : ~Good(i)}
  <2>1. SUFFICES ASSUME B # {} PROVE FALSE
    BY <1>1
  <2>2. PICK i \in B : \A k \in B : i <= k
    <3>1. B \subseteq Nat
      OBVIOUS
    <3> HIDE DEF B
    <3> QED BY <2>1, <3>1, NatMin
  <2>3. i # 0
    BY <1>5
  <2>4. i \in 1..n /\ i - 1 \in 0..n /\ ~(i <= i - 1)
    BY <1>1, <2>3
  <2>5. Good(i - 1)
    BY <2>2, <2>4
  <2> QED BY <1>6, <2>2, <2>4, <2>5
<1>8. SubSeq(chunk, 1, n) = chunk
  BY SubSeqFull
<1> QED
  BY <1>2, <1>7, <1>8 DEF Good

(* The end of the body is the end of a line. *)
LEMMA FlushesLine ==
  ASSUME NEW text \in Seq(Symbols), NEW r, ReaderOf(r, text), ~r.terminal
  PROVE  ReaderOf(Flush(r), Append(text, LF))
<1>1. Flush(r) = ReadSymbol(r, LF)
  BY DEF Flush, ReadSymbol
<1>2. LF \in Symbols
  BY DEF Symbols
<1> QED
  BY <1>1, <1>2, ReadsSymbol
=============================================================================
