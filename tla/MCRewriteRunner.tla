--------------------------- MODULE MCRewriteRunner ---------------------------
(* Small instances of RewriteRunner: a book of two fragments (MCOne), two  *)
(* books of one fragment (MCPair).                                         *)
EXTENDS RewriteRunner, TLC

CONSTANTS h1, j1, j2, f1, f2, t1, t2, r1, r2, v1, v2

MCOneJobOf == f1 :> j1 @@ f2 :> j1
MCOneSource == f1 :> t1 @@ f2 :> t1
MCOneCatalog == j1 :> <<f1, f2>>

MCPairJobOf == f1 :> j1 @@ f2 :> j2
MCPairSource == f1 :> t1 @@ f2 :> t1
MCPairCatalog == j1 :> <<f1>> @@ j2 :> <<f2>>

\* Ids are taken in any order and revisions are only compared.
IdSymmetry == Permutations(Rewrite) \cup Permutations(ModelRevision)

=============================================================================
