------------------------------ MODULE MCLogger ------------------------------
(* Logger instantiated for TLC. *)
EXTENDS Logger
=============================================================================
