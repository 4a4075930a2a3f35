----------------------------- MODULE MCWorkerPool -----------------------------
(* A small instance of WorkerPool. *)
EXTENDS WorkerPool

\* Two workers of the middle tier: a session below it is never served, one above it
\* looks through a pool of its own first, and three sessions cannot all be served.
TwoLite == <<1, 1>>
=============================================================================
