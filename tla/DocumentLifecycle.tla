-------------------------- MODULE DocumentLifecycle --------------------------
(***************************************************************************)
(* What the ingestion pipeline promises of a document, independently of    *)
(* processes, workers and the database: an accepted document is processed  *)
(* once, ends in ready or failed, is answerable (its chunks can be         *)
(* retrieved) exactly from the moment it is ready, and never returns from  *)
(* a terminal state or from deletion.  docs/CONTRACT.md, "Ingestion        *)
(* pipeline", draws the same states.  Ingestion.tla implements this.       *)
(***************************************************************************)
CONSTANT Docs

VARIABLES
  phase,       \* where each document is in its life
  answerable   \* the documents whose content retrieval can return

vars == <<phase, answerable>>

Phases == {"new", "processing", "ready", "failed", "deleted"}

Init ==
  /\ phase = [d \in Docs |-> "new"]
  /\ answerable = {}

Move(d, from, to) ==
  /\ phase[d] \in from
  /\ phase' = [phase EXCEPT ![d] = to]

Accept(d) == Move(d, {"new"}, "processing") /\ UNCHANGED answerable

Complete(d) == Move(d, {"processing"}, "ready") /\ answerable' = answerable \cup {d}

(* The startup sweep fails several documents in one statement. *)
Fail(S) ==
  /\ \A d \in S : phase[d] = "processing"
  /\ phase' = [d \in Docs |-> IF d \in S THEN "failed" ELSE phase[d]]
  /\ UNCHANGED answerable

Delete(d) ==
  /\ Move(d, {"processing", "ready", "failed"}, "deleted")
  /\ answerable' = answerable \ {d}

Next ==
  \/ \E d \in Docs : Accept(d) \/ Complete(d) \/ Delete(d)
  \/ \E S \in SUBSET Docs : Fail(S)

Spec == Init /\ [][Next]_vars
=============================================================================
