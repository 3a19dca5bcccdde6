--------------------------- MODULE MCComposeGraph ---------------------------
(* ComposeGraph with the two lanes of the agent; asyncio is tried only where *)
(* QA is enforced.                                                           *)
EXTENDS ComposeGraph
MCModes == {<<TRUE, FALSE>>, <<FALSE, FALSE>>, <<TRUE, TRUE>>}
MCSync  == {<<TRUE, FALSE>>}
=============================================================================
