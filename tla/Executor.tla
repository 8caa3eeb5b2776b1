------------------------------ MODULE Executor ------------------------------
(***************************************************************************)
(* What EventLoop promises to the threads that hand it functors: every     *)
(* functor accepted by the loop is executed at most once, and in the order *)
(* of acceptance.  EventLoop implements this specification as long as no   *)
(* two threads were ever inside the pending vector at the same time; once  *)
(* that has happened (broken) the C++ program has no defined behaviour and *)
(* the specification allows anything.                                      *)
(***************************************************************************)
EXTENDS Naturals, Sequences

CONSTANT Functor

VARIABLES queued,   \* the functors accepted so far, in order of acceptance
          ran,      \* the functors executed so far, in order of execution
          broken    \* a data race has happened

execVars == <<queued, ran, broken>>

ExecInit ==
  /\ queued = <<>>
  /\ ran = <<>>
  /\ broken = FALSE

Accept(f) ==
  /\ queued' = Append(queued, f)
  /\ UNCHANGED <<ran, broken>>

Execute ==
  /\ Len(ran) < Len(queued)
  /\ ran' = Append(ran, queued[Len(ran) + 1])
  /\ UNCHANGED <<queued, broken>>

Break ==
  /\ broken' = TRUE
  /\ UNCHANGED <<queued, ran>>

ExecNext ==
  \/ \E f \in Functor : Accept(f)
  \/ Execute
  \/ Break
  \/ broken /\ broken'

ExecSpec == ExecInit /\ [][ExecNext]_execVars
=============================================================================
