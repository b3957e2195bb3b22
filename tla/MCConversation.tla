--------------------------- MODULE MCConversation ---------------------------
(***************************************************************************)
(* Instances of Conversation for TLC.                                      *)
(***************************************************************************)
EXTENDS Conversation

\* A text, an image by reference with a text, an image in the request, and a text
\* with a part of a type the gateway does not know.
Contents == {<<"text">>, <<"link", "text">>, <<"inline">>, <<"text", "file">>}
=============================================================================
