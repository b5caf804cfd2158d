----------------------------- MODULE MC_Console ------------------------------
EXTENDS Console

(* The topic that can be created comes before the one that is there; each  *)
(* user has uploaded one of the documents.                                 *)
MCTopicOf == [d \in Docs |-> 2]
MCOwnerOf == [d \in Docs |-> IF d = 1 THEN "bob" ELSE "ann"]
=============================================================================
