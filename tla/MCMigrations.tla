---------------------------- MODULE MCMigrations ----------------------------
(* Instances of Migrations for TLC.                                        *)
EXTENDS Migrations, TLC

OneFile  == {1}
TwoFiles == 1 .. 2
Schema   == {1}
Symm     == Permutations(Instances)
=============================================================================
