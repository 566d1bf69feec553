--------------------- MODULE MCThreadsSharedDataManager ---------------------
(* Instances of ThreadsSharedDataManager for TLC. *)
EXTENDS ThreadsSharedDataManager
=============================================================================
