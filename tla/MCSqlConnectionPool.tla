------------------------ MODULE MCSqlConnectionPool ------------------------
(* SqlConnectionPool instantiated for TLC. *)
EXTENDS SqlConnectionPool
=============================================================================
