-------------------------- MODULE MCCrashRecovery --------------------------
(***************************************************************************)
(* Instances of CrashRecovery for TLC.                                     *)
(***************************************************************************)
EXTENDS CrashRecovery, TLC

Plain == [uid |-> "m1", slots |-> 2, blocks |-> 2, layout |-> "small"]
OtherModel == [uid |-> "m2", slots |-> 2, blocks |-> 2, layout |-> "large"]
ShortTable == [uid |-> "m1", slots |-> 1, blocks |-> 2, layout |-> "small"]

\* A restart as before, under another model, and with a smaller table.
Restarts == {Plain, OtherModel, ShortTable}

\* The hashes are interchangeable.
Hashes == Permutations(Hash)

=============================================================================
