------------------------------ MODULE Retrieval ------------------------------
(***************************************************************************)
(* What a question is answered from: retrieve() of services/retrieval.py   *)
(* and RetrieveAsync of RetrievalService.cs, statement by statement, while *)
(* documents are uploaded, indexed, reviewed (Reviews) and deleted, and    *)
(* backends restart with other API keys.                                   *)
(*                                                                         *)
(* A search reads the providers of its candidates once, keeps two of them, *)
(* and asks each of them in turn: embed the question, rank the chunks.     *)
(* Similarity, the noise floor and the cut to six passages choose among    *)
(* what was ranked and are left out.                                       *)
(***************************************************************************)
EXTENDS Reviews

CONSTANTS
  Backends,     \* the backends that run: "fastapi", "dotnet"
  ProviderOf,   \* embedding_provider of each document, chosen at upload
  MaxSearches   \* bound on the searches going on at a time

RealProviders == {"gemini", "openai"}
Providers     == RealProviders \cup {"demo"}

ASSUME RetrievalAssumption ==
  /\ Backends \subseteq {"fastapi", "dotnet"}
  /\ ProviderOf \in [Docs -> Providers]
  /\ MaxSearches \in Nat

NoBackend == "none"
NoSpace   == "none"

VARIABLES
  phase,     \* a document's row as retrieval tells it apart
  home,      \* the backend whose worker has the document
  space,     \* the vector space its chunks were embedded in
  keys,      \* the real providers each backend is configured for
  searches   \* retrievals in progress

corpus    == <<phase, home, space>>
allVars   == <<vars, phase, home, space, keys, searches>>

(* A phase is "absent", "working" (queued to embedding), "ready", "failed" *)
(* or "gone"; only "ready" has chunks (IngestionProofs!IndexAtomicity; a   *)
(* last commit whose reply was lost is left out here).                     *)

(* todo: the providers still to ask; ranked: the documents compared so     *)
(* far, and the space of the vector they were compared with. Histories:    *)
(* listed, the providers of all candidates, before the cut to two; known,  *)
(* the documents that each statement so far has found to be indexed        *)
(* candidates.                                                             *)
Hits     == [doc : Docs, asked : Providers]
Searches ==
  [by : Users, scope : {"personal", "admin"}, backend : Backends,
   todo : SUBSET Providers, listed : SUBSET Providers,
   known : SUBSET Docs, ranked : SUBSET Hits]

SearchInit ==
  /\ Init
  /\ phase    = [d \in Docs |-> "absent"]
  /\ home     = [d \in Docs |-> NoBackend]
  /\ space    = [d \in Docs |-> NoSpace]
  /\ keys     \in [Backends -> SUBSET RealProviders]
  /\ searches = {}

-----------------------------------------------------------------------------
(* Vector spaces.                                                          *)

Available(b, p) == p = "demo" \/ p \in keys[b]

(* Variant: FastAPI falls back as well. *)
Reachable_Fallback(b, p) == TRUE

(* get_provider raises where .NET resolves to the demo provider. *)
Reachable(b, p) == b = "dotnet" \/ Available(b, p)

SpaceOf(b, p) == IF Available(b, p) THEN p ELSE "demo"

-----------------------------------------------------------------------------
(* Documents.                                                              *)

Upload(d, b) ==
  /\ phase[d] = "absent"
  /\ Reachable(b, ProviderOf[d])
  /\ phase' = [phase EXCEPT ![d] = "working"]
  /\ home'  = [home EXCEPT ![d] = b]
  /\ UNCHANGED <<vars, space, keys, searches>>

(* Chunks, ready and entry into review in one commit (Ingestion!Publish).  *)
(* A FastAPI worker publishes even what a sweep has failed                 *)
(* (Ingestion!PyPublish).                                           *)
Publish(d) ==
  /\ phase[d] \in {"working", "failed"}
  /\ home[d] \in Backends
  /\ phase' = [phase EXCEPT ![d] = "ready"]
  /\ space' = [space EXCEPT ![d] = SpaceOf(home[d], ProviderOf[d])]
  /\ home'  = [home EXCEPT ![d] = NoBackend]
  /\ IF d \in Library THEN EnterReview(d) ELSE UNCHANGED vars
  /\ UNCHANGED <<keys, searches>>

(* The worker's own failure path. *)
Fail(d) ==
  /\ phase[d] \in {"working", "failed"}
  /\ home[d] \in Backends
  /\ phase' = [phase EXCEPT ![d] = "failed"]
  /\ home'  = [home EXCEPT ![d] = NoBackend]
  /\ UNCHANGED <<vars, space, keys, searches>>

(* A .NET worker is not swept (IngestionProofs!TimeoutBeatsSweep). *)
Sweep(d) ==
  /\ phase[d] = "working"
  /\ home[d] # "dotnet"
  /\ phase' = [phase EXCEPT ![d] = "failed"]
  /\ UNCHANGED <<vars, home, space, keys, searches>>

(* The next status commit of a FastAPI worker that was swept. *)
Resume(d) ==
  /\ phase[d] = "failed"
  /\ home[d] = "fastapi"
  /\ phase' = [phase EXCEPT ![d] = "working"]
  /\ UNCHANGED <<vars, home, space, keys, searches>>

DeleteDocument(d) ==
  /\ phase[d] \in {"working", "ready", "failed"}
  /\ Delete(d)
  /\ phase' = [phase EXCEPT ![d] = "gone"]
  /\ home'  = [home EXCEPT ![d] = NoBackend]
  /\ space' = [space EXCEPT ![d] = NoSpace]
  /\ UNCHANGED <<keys, searches>>

(* A restart with another configuration ends all the backend was doing. *)
Restart(b) ==
  /\ keys' \in [Backends -> SUBSET RealProviders]
  /\ \A o \in Backends \ {b} : keys'[o] = keys[o]
  /\ home' = [d \in Docs |-> IF home[d] = b THEN NoBackend ELSE home[d]]
  /\ searches' = {s \in searches : s.backend # b}
  /\ UNCHANGED <<vars, phase, space>>

-----------------------------------------------------------------------------
(* Searches.                                                               *)

(* Own personal documents and approved library documents; everything that  *)
(* has not failed for the admin chat.                                      *)
Visible(u, scope, d) ==
  IF scope = "admin"
  THEN phase[d] \in {"working", "ready"}
  ELSE \/ /\ d \notin Library
          /\ Owner[d] = u
          /\ phase[d] \in {"working", "ready", "failed"}
       \/ /\ d \in Library
          /\ review[d] = "approved"

Rank(p) == CASE p = "demo" -> 1 [] p = "gemini" -> 2 [] p = "openai" -> 3

Before(p, ps) == {q \in ps : Rank(q) < Rank(p)}

(* Variant: one provider only. *)
FirstTwo_One(ps) == {p \in ps : Before(p, ps) = {}}

(* ORDER BY embedding_provider, cut to two. *)
FirstTwo(ps) == {p \in ps : Cardinality(Before(p, ps)) < 2}

Replace(s, t) == searches' = (searches \ {s}) \cup {t}

(* The admin scope is for admins only, checked when the chat session is    *)
(* created.                                                                *)
StartSearch(u, scope, b) ==
  /\ scope = "admin" => u \in Admins
  /\ Cardinality(searches) < MaxSearches
  /\ LET seen      == {d \in Docs : Visible(u, scope, d)}
         providers == {ProviderOf[d] : d \in seen}
     IN  searches' = searches \cup
           {[by |-> u, scope |-> scope, backend |-> b,
             todo   |-> FirstTwo(providers),
             listed |-> providers,
             known  |-> {d \in seen : phase[d] = "ready"},
             ranked |-> {}]}
  /\ UNCHANGED <<vars, corpus, keys>>

(* Variant: the second statement trusts the first. *)
Ranking_ProviderOnly(s, p) == {d \in Docs : phase[d] = "ready" /\ ProviderOf[d] = p}

(* The documents one provider's statement compares the question with. *)
Ranking(s, p) ==
  {d \in Docs : /\ Visible(s.by, s.scope, d)
                /\ ProviderOf[d] = p
                /\ phase[d] = "ready"}

AskProvider(s) ==
  \E p \in s.todo :
    /\ \A q \in s.todo : Rank(p) <= Rank(q)
    /\ Reachable(s.backend, p)
    /\ Replace(s, [s EXCEPT
         !.todo   = @ \ {p},
         !.known  = {d \in @ : Visible(s.by, s.scope, d)},
         !.ranked = @ \cup [doc : Ranking(s, p), asked : {SpaceOf(s.backend, p)}]])
    /\ UNCHANGED <<vars, corpus, keys>>

(* An answer is given, or the question fails: the provider is unavailable, *)
(* its call fails, the client is gone.                                     *)
EndSearch(s) ==
  /\ searches' = searches \ {s}
  /\ UNCHANGED <<vars, corpus, keys>>

-----------------------------------------------------------------------------
ReviewStep ==
  \/ \E u \in Users, d \in Docs, x \in Decisions : PyLoad(u, d, x) \/ NetCheck(u, d, x)
  \/ \E r \in inflight : Serve(r)
  \/ \E t \in Topics, u \in Users : AddSme(t, u) \/ RemoveSme(t, u)

SearchNext ==
  \/ ReviewStep /\ UNCHANGED <<corpus, keys, searches>>
  \/ \E d \in Docs, b \in Backends : Upload(d, b)
  \/ \E d \in Docs : Publish(d) \/ Fail(d) \/ Sweep(d) \/ Resume(d) \/ DeleteDocument(d)
  \/ \E b \in Backends : Restart(b)
  \/ \E u \in Users, scope \in {"personal", "admin"}, b \in Backends :
       StartSearch(u, scope, b)
  \/ \E s \in searches : AskProvider(s) \/ EndSearch(s)

SearchSpec == SearchInit /\ [][SearchNext]_allVars

-----------------------------------------------------------------------------
(* Properties.                                                             *)

(* An approval on record by somebody who had the authority to give it. *)
ApprovedByAuthority(d) ==
  \E r \in audit[d] :
    /\ r.decision = "approved"
    /\ r.by # Owner[d]
    /\ r.by \in Admins \cup designated[TopicOf[d]]

(* A user is answered from their own documents and from library documents  *)
(* that somebody else with authority approved, only an admin in the admin  *)
(* chat from more; whatever happens between the statements of the search   *)
(* (retrieval.py:53-77, RetrievalService.cs:41-67).                        *)
AnsweredFromVisible ==
  \A s \in searches : \A h \in s.ranked :
    \/ s.scope = "admin" /\ s.by \in Admins
    \/ h.doc \notin Library /\ Owner[h.doc] = s.by
    \/ h.doc \in Library /\ (review[h.doc] = "gone" \/ ApprovedByAuthority(h.doc))

(* A search that has asked its providers has compared the question with    *)
(* every document that was there for each of its statements (ADR 0003,     *)
(* "Mixed corpora retrieve correctly from every document"), but for those  *)
(* that the cut to two providers leaves out (CONTRACT.md:188-190, "max     *)
(* two"): two providers of its candidates come before theirs, which may be *)
(* the providers of documents that have no vectors.                        *)
SearchMissesNothing ==
  \A s \in searches : s.todo = {} =>
    \A d \in s.known : \/ \E h \in s.ranked : h.doc = d
                       \/ Cardinality(Before(ProviderOf[d], s.listed)) >= 2

(* CONTRACT.md:188, "Query embedding MUST match each document's provider   *)
(* space", whatever keys the backends have been restarted with. A .NET     *)
(* backend that lacks a key asks in the demo space, and so may any backend *)
(* be answered from vectors that a .NET worker stored there; FastAPI never *)
(* asks in another space than that of the provider.                        *)
QueryMatchesSpace ==
  \A s \in searches : \A h \in s.ranked : phase[h.doc] = "ready" =>
    \/ h.asked = space[h.doc]
    \/ s.backend = "dotnet" /\ h.asked = "demo"
    \/ "dotnet" \in Backends /\ space[h.doc] = "demo"
=============================================================================
