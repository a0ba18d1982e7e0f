--------------------------- MODULE MCAgentReport ---------------------------
(***************************************************************************)
(* Instances of AgentReport: two process ids, two images, a list of one    *)
(* process, and enough time for a cached section to be read, sent again and*)
(* read again.                                                             *)
(***************************************************************************)
EXTENDS AgentReport

SomeStarts == {<<"web", "db">>, <<"plain", "port">>, <<"unit", "plain">>}
=============================================================================
