------------------------------ MODULE MC_Files ------------------------------
(* The user may delete every document: she uploaded them. *)
EXTENDS Files
=============================================================================
