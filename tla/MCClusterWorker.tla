---------------------------- MODULE MCClusterWorker ----------------------------
(* ClusterWorker on small instances. *)
EXTENDS ClusterWorker

CONSTANTS t1, t2, c1, r1, r2
===============================================================================
