-------------------------- MODULE MCRequestThread --------------------------
(* Three tasks: one executing, one in the worker's batch, one in the queue. *)
EXTENDS RequestThread

MCTasks == {"a", "b", "c"}

=============================================================================
