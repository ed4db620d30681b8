-------------------------- MODULE MCProcessManager --------------------------
(* TLC instance of ProcessManager: constants are given in the .cfg files.  *)
EXTENDS ProcessManager
=============================================================================
