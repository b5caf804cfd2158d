----------------------------- MODULE MC_ChatPage -----------------------------
(* A whole answer whose last line has no line feed; an error event after   *)
(* CR LF, with more behind it.                                             *)
EXTENDS ChatPage

MCBodies == {<<"del", "ta", LF, "done">>, <<"error", CR, LF, "done">>}
=============================================================================
