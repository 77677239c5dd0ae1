--------------------------- MODULE MCWorkerManager ---------------------------
(* Model checking of WorkerManager.  The bounds are in the .cfg files. *)
EXTENDS WorkerManager
=============================================================================
