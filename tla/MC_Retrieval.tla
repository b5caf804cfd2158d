---------------------------- MODULE MC_Retrieval ----------------------------
(* A library document and one or two personal ones of its regular reader,  *)
(* who may be designated to review it; its uploader is an admin.           *)
EXTENDS Retrieval

CONSTANTS boss, morgan, policy, diary, memo, security

MCOwner      == [d \in Docs |-> IF d = policy THEN boss ELSE morgan]
MCTopicOf    == [d \in Docs |-> IF d = policy THEN security ELSE NoTopic]
MCProviderOf == [d \in Docs |-> CASE d = policy -> "openai" [] d = diary -> "gemini" [] OTHER -> "demo"]

MCOneProvider == [d \in Docs |-> "gemini"]
=============================================================================
