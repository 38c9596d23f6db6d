-------------------------- MODULE WorkloadService --------------------------
(***************************************************************************)
(* What the unikernel promises its host: a workload that has been streamed *)
(* is executed, once, unchanged, before the next one is taken.             *)
(***************************************************************************)
EXTENDS Integers, Sequences

CONSTANT Payloads  \* the workloads, in the order they are streamed

VARIABLES
  streamed,  \* how many have been streamed completely
  executed   \* the ones that have been run, as they were run

vars == <<streamed, executed>>

Init == streamed = 0 /\ executed = <<>>

Stream ==
  /\ streamed < Len(Payloads) /\ streamed = Len(executed)
  /\ streamed' = streamed + 1
  /\ UNCHANGED executed

Run ==
  /\ Len(executed) < streamed
  /\ executed' = Append(executed, Payloads[streamed])
  /\ UNCHANGED streamed

Spec == Init /\ [][Stream \/ Run]_vars /\ WF_vars(Stream) /\ WF_vars(Run)
=============================================================================
