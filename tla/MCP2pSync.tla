------------------------------ MODULE MCP2pSync ------------------------------
(* Instances of P2pSync for TLC: a laptop and a phone of one Agent OS, and a  *)
(* guest of another.                                                         *)
EXTENDS P2pSync

CONSTANTS laptop, phone, guest, profile, journal

MCAgentOs == [d \in Devices |-> IF d = guest THEN "theirs" ELSE "ours"]

MCRank == [d \in Devices |-> IF d = laptop THEN 1 ELSE IF d = phone THEN 2 ELSE 3]

MCPairs == {<<laptop, phone>>, <<phone, laptop>>, <<laptop, guest>>}
=============================================================================
