----------------------------- MODULE MCSemaphore -----------------------------
(***************************************************************************)
(* Instances of Semaphore, and the abstract semaphore it implements when   *)
(* no caller passes a signal (the buffered path).                          *)
(***************************************************************************)
EXTENDS Semaphore, TLC

\* The array read as the abstract line.
Promise == INSTANCE AbstractSemaphore WITH holders <- Holding, line <- waiters

\* Without signals the semaphore implements its promise.
ImplementsPromise == Promise!Spec

CallerSymmetry == Permutations(Cancellable)
=============================================================================
