------------------------ MODULE MCGraphStoreMigration ------------------------
(* An instance of the conversion of a legacy store for TLC.                  *)
EXTENDS GraphStoreMigration
=============================================================================
