----------------------------- MODULE MCToolLoop -----------------------------
(* Instances of ToolLoop for TLC. *)
EXTENDS ToolLoop

CONSTANTS l1, search, click, unknown

MCAnswers == {<<>>, <<search>>, <<search, click>>, <<unknown, search>>}
=============================================================================
