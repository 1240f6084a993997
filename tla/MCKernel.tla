------------------------------ MODULE MCKernel ------------------------------
(* Model-checking instance of Kernel: a heap in which two tasks, or one    *)
(* and a buffer, fit, with scaled-down sizes.                              *)
EXTENDS Kernel

\* The pointers malloc can return for structs and stacks.
MCTask == {Base + 24 + 8 * i : i \in 0..((AreaSize - 48) \div 8)}
=============================================================================
