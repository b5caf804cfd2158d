------------------------------ MODULE MC_Access ------------------------------
(* A library and a personal document; an uploading admin, another, and a  *)
(* user who may be designated for the document's topic, another, or both.  *)
EXTENDS Access

CONSTANTS boss, chief, morgan, policy, diary, security, budget

MCOwner   == [d \in Docs |-> IF d = diary THEN morgan ELSE boss]
MCTopicOf == [d \in Docs |-> IF d = diary THEN NoTopic ELSE security]
=============================================================================
