--------------------------- MODULE MCPayLinkView ---------------------------
(* Two accepted intents in one tab that is left or reloaded once. *)
EXTENDS PayLinkView
=============================================================================
