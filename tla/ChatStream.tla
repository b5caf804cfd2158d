----------------------------- MODULE ChatStream -----------------------------
(***************************************************************************)
(* The client's reader of a streamed answer (streamChatMessage, lib/api.ts). *)
(* A body is a sequence of symbols; the network delivers it in chunks that *)
(* may end anywhere, inside a payload or between CR and LF.  Two halves    *)
(* make the payload of a delta, so that a chunk can split it; a line that  *)
(* is neither whole nor empty is not JSON.                                 *)
(***************************************************************************)
EXTENDS Ordering, FiniteSetsExt

LF == "lf"
CR == "cr"

Symbols == {"del", "ta", "citations", "done", "error", ":", CR, LF}

Payloads == {<<"del", "ta">>, <<"citations">>, <<"done">>, <<"error">>}

EventOf(line) == IF Len(line) = 2 THEN "delta" ELSE line[1]

(* One CR before the line feed belongs to it. *)
WithoutCR(line) ==
  IF line # <<>> /\ Last(line) = CR THEN Front(line) ELSE line

(* The reader: what it has buffered, the events it has passed on, and      *)
(* whether an error event has ended it.                                    *)
NewReader == [buffer |-> <<>>, events |-> <<>>, terminal |-> FALSE]

HandleLine(r, line) ==
  IF WithoutCR(line) \in Payloads
  THEN [buffer   |-> <<>>,
        events   |-> Append(r.events, EventOf(WithoutCR(line))),
        terminal |-> WithoutCR(line) = <<"error">>]
  ELSE [r EXCEPT !.buffer = <<>>]

(* Nothing is handled after an error event. *)
ReadSymbol(r, x) ==
  CASE r.terminal -> r
    [] ~r.terminal /\ x = LF -> HandleLine(r, r.buffer)
    [] OTHER -> [r EXCEPT !.buffer = Append(@, x)]

Consume(r, chunk) ==
  LET after[i \in 0..Len(chunk)] == IF i = 0 THEN r ELSE ReadSymbol(after[i - 1], chunk[i])
  IN  after[Len(chunk)]

(* Variant: what follows the last line feed is dropped. *)
Flush_Drops(r) == r

(* The body has ended: what is left in the buffer is a line too. *)
Flush(r) == HandleLine(r, r.buffer)

-----------------------------------------------------------------------------
(* Reference, without a reader: the events that are due once all of a text *)
(* has been received are those of its lines, up to the first error.        *)

LineEnds(text) == {i \in DOMAIN text : text[i] = LF}

LineTo(text, end) ==
  WithoutCR(SubSeq(text, 1 + Max({0} \cup {i \in LineEnds(text) : i < end}), end - 1))

EndsDue(text) ==
  {e \in LineEnds(text) : /\ LineTo(text, e) \in Payloads
                          /\ \A i \in LineEnds(text) : i < e => LineTo(text, i) # <<"error">>}

EventsDue(text) ==
  LET ends == Listed(EndsDue(text))
  IN  [n \in DOMAIN ends |-> EventOf(LineTo(text, ends[n]))]
=============================================================================
