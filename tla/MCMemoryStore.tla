---------------------------- MODULE MCMemoryStore ----------------------------
(* A small instance of MemoryStore: one job of one book, of two fragments.   *)
EXTENDS MemoryStore, TLC

CONSTANTS b1, j1, f1, f2, t1, t2

MCOneJobOf == f1 :> j1 @@ f2 :> j1
MCOneSource == f1 :> t1 @@ f2 :> t1
MCOneCatalog == j1 :> <<f1, f2>>
MCOneBookOf == j1 :> b1

=============================================================================
