----------------------------- MODULE MCAutoWatch -----------------------------
(* One source with a listing of two contents, one watcher and two processes. *)
EXTENDS AutoWatch
==============================================================================
