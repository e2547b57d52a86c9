----------------------------- MODULE MCMigrations -----------------------------
(* Three programs: two newest binaries, with the five files of the        *)
(* repository, and one of a release that had three.                       *)
EXTENDS Migrations, TLC

CONSTANTS p1, p2, p3

MCKnown == p1 :> 5 @@ p2 :> 5 @@ p3 :> 3

=============================================================================
