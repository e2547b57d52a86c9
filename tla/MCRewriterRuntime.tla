--------------------------- MODULE MCRewriterRuntime ---------------------------
(* RewriterRuntime with two models, one of them loaded at the start.       *)
EXTENDS RewriterRuntime

CONSTANTS a, b
MCModels == {a, b}
MCPreload == a
=============================================================================
