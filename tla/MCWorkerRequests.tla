--------------------------- MODULE MCWorkerRequests ---------------------------
(* One directory with a directory inside, and another beside it. *)
EXTENDS WorkerRequests, TLC

Directories == (1 :> 0) @@ (2 :> 1) @@ (3 :> 0)
===============================================================================
