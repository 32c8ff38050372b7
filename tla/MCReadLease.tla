---------------------------- MODULE MCReadLease ----------------------------
(***************************************************************************)
(* Instances of ReadLease for TLC.                                         *)
(***************************************************************************)
EXTENDS ReadLease, TLC

=============================================================================
