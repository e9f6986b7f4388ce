------------------------------ MODULE MCPipeline ------------------------------
(* Three elements with scores and one without, a Buffer of two, two        *)
(* failures; Limit is reached when nothing fails.                          *)
EXTENDS Pipeline, TLC

CONSTANTS e1, e2, e3, e4

MCScore == (e1 :> 1) @@ (e2 :> 2) @@ (e3 :> 2) @@ (e4 :> Nothing)
=============================================================================
