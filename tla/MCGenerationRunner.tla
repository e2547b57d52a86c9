------------------------- MODULE MCGenerationRunner -------------------------
(* Small instances of GenerationRunner: one book of two fragments (MCOne),   *)
(* two books of one fragment (MCPair).                                       *)
EXTENDS GenerationRunner, TLC

CONSTANTS h1, h2, j1, j2, f1, f2, f3, t1, t2

MCOneJobOf == f1 :> j1 @@ f2 :> j1
MCOneSource == f1 :> t1 @@ f2 :> t1
MCOneCatalog == j1 :> <<f1, f2>>

MCPairJobOf == f1 :> j1 @@ f3 :> j2
MCPairSource == f1 :> t1 @@ f3 :> t1
MCPairCatalog == j1 :> <<f1>> @@ j2 :> <<f3>>

HandlerSymmetry == Permutations(Handler)

=============================================================================
