-------------------------- MODULE MCAnalyzePipeline --------------------------
(* AnalyzePipeline for a text of four lines, all of them or all but the last *)
(* used, that the stages get in one, two or four chunks.                     *)
EXTENDS AnalyzePipeline
MCNewlines  == {3, 6, 10}
MCCharLimit == [outline |-> 20, timeline |-> 8, entities |-> 3]
=============================================================================
