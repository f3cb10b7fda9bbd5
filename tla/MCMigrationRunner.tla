-------------------------- MODULE MCMigrationRunner --------------------------
(* Small instances of MigrationRunner: the second of three migrations is    *)
(* the one boot may go on without.                                          *)
EXTENDS MigrationRunner, TLC

SecondOnly == {2}

InstanceSymmetry == Permutations(Instance)
=============================================================================
