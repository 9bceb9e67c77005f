---------------------------- MODULE MCWorkerPool ----------------------------
(* WorkerPool for TLC; the bounds are in MCWorkerPool.cfg.                  *)
EXTENDS WorkerPool

CONSTANTS w1, w2
=============================================================================
