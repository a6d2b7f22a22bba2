---------------------------- MODULE MCD3D12Queue ----------------------------
(***************************************************************************)
(* D3D12Queue for model checking.  Queues and application threads are      *)
(* interchangeable; only invariants are checked with this symmetry.        *)
(***************************************************************************)
EXTENDS D3D12Queue, TLC

Symmetry == Permutations(Queues) \cup Permutations(AppThreads)

=============================================================================
