---------------------------- MODULE MCSshBackend ----------------------------
(* SshBackend with interchangeable threads.                                  *)
EXTENDS SshBackend, TLC

Symmetry == Permutations(Threads)
=============================================================================
