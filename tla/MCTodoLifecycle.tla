-------------------------- MODULE MCTodoLifecycle --------------------------
(* TodoLifecycle on one or two todos. *)
EXTENDS TodoLifecycle, TLC

Interchangeable == Permutations(Tasks) \cup Permutations(Todos)
=============================================================================
