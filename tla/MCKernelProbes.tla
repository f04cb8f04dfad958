---------------------------- MODULE MCKernelProbes ----------------------------
(* A small instance of KernelProbes.                                         *)
EXTENDS KernelProbes, TLC

(* CPUs and threads are interchangeable.                                     *)
Symmetry == Permutations(Cpus) \cup Permutations(Threads)
=============================================================================
