--------------------------- MODULE MCSchemaHistory ---------------------------
(* Instances of SchemaHistory: the constants are given in the .cfg files. *)
EXTENDS SchemaHistory
=============================================================================
