---------------------------- MODULE MCThreadPool ----------------------------
(* Model-checking instance of ThreadPool.                                  *)
EXTENDS ThreadPool
=============================================================================
