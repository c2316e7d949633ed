---------------------------- MODULE MCThreadPool ----------------------------
(* ThreadPool instantiated for TLC. *)
EXTENDS ThreadPool
=============================================================================
