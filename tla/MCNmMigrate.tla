---------------------------- MODULE MCNmMigrate ----------------------------
(* Instances of NmMigrate for TLC. *)
EXTENDS NmMigrate

=============================================================================
