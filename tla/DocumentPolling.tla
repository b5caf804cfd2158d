--------------------------- MODULE DocumentPolling ---------------------------
(***************************************************************************)
(* The server's documents as the pages of the client see them, and the     *)
(* polling loop that pages keep them fresh with                            *)
(* (hooks/use-document-polling.ts).  The pages tell a document whose       *)
(* pipeline is running from one whose pipeline has ended, ready or failed. *)
(***************************************************************************)
EXTENDS Ordering, FiniteSetsExt

CONSTANT MaxDocs   \* bound on documents; they are numbered as they are created

ASSUME PollingAssumption == MaxDocs \in Nat

Docs     == 1..MaxDocs
NoDoc    == 0
Statuses == {"running", "ended"}

VARIABLE stored    \* server: [scope, status, file] of every document ever created

Created == DOMAIN stored
Known   == {d \in Created : stored[d].status # "deleted"}

Ingest(d) ==
  /\ d \in Created /\ stored[d].status = "running"
  /\ stored' = [stored EXCEPT ![d].status = "ended"]

-----------------------------------------------------------------------------
(* A loop is the set it tracks, which is its key, and what a round still   *)
(* awaits: documents asked for, or answered with a status.  Between two    *)
(* rounds nothing is awaited and the timer is armed.                       *)

Awaiting(loop) == DOMAIN loop.round

NewLoop(ids) == [tracked |-> ids, round |-> <<>>]

(* Variant: the replies of the loop before are still passed on. *)
Tracking_KeepsReplies(loop, ids) == [loop EXCEPT !.tracked = ids]

(* Variant: a loop that runs is not started anew. *)
Tracking_Once(loop, ids) == IF loop.tracked # {} THEN loop ELSE NewLoop(ids)

(* The effect: a loop whose set has changed is cancelled, with the replies *)
(* it awaits, and another one started.                                     *)
Tracking(loop, ids) == IF ids = loop.tracked THEN loop ELSE NewLoop(ids)

CanTick(loop) == loop.tracked # {} /\ Awaiting(loop) = {}

Tick(loop) == [loop EXCEPT !.round = [d \in loop.tracked |-> "sent"]]

Awaits(loop, d, answers) == d \in Awaiting(loop) /\ loop.round[d] \in answers

Serve(loop, d) == [loop EXCEPT !.round[d] = stored[d].status]

(* A reply that is passed on, or an error that is swallowed: the last one  *)
(* of a round arms the timer again.                                        *)
Settle(loop, d) == [loop EXCEPT !.round = Restrict(@, Awaiting(loop) \ {d})]

(* What is shown, with x, which shows v unless it was there. *)
Plus(shown, x, v) ==
  [e \in DOMAIN shown \cup {x} |-> IF e \in DOMAIN shown THEN shown[e] ELSE v]

RunningIn(shown) == {d \in DOMAIN shown : shown[d] = "running"}

(* onUpdate of both pages. *)
Updated(shown, d, status) ==
  [e \in DOMAIN shown |-> IF e = d THEN status ELSE shown[e]]

Loops ==
  [tracked : SUBSET Docs,
   round : UNION {[S -> Statuses \cup {"sent"}] : S \in SUBSET Docs}]
=============================================================================
