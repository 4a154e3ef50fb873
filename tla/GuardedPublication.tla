------------------------- MODULE GuardedPublication -------------------------
(***************************************************************************)
(* Publication by the processes of RunGuard: a process publishes only from *)
(* inside its runner, one item at a time, and takes its invocation with it *)
(* when it dies.  This is where Publication's Exclusive comes from.        *)
(***************************************************************************)
EXTENDS Publication, RunGuard

ASSUME GuardedAssumption == Process = Run

guardedVars == <<vars, guardVars>>

GuardedInit == Init /\ GuardInit

\* The runner awaits each stage: it goes on when no invocation is under way.
RunnerStep(r) ==
  /\ run[r].pc = "idle"
  /\ Entrypoint(r)
  /\ UNCHANGED vars

PublicationStage(r) ==
  /\ process[r].pc = "runner"
  /\ Invocation(r)
  /\ UNCHANGED guardVars

FinalComplianceStage(r) ==
  /\ process[r].pc = "runner"
  /\ run[r].pc = "idle"
  /\ FinalCompliance
  /\ UNCHANGED guardVars

ProcessDies(r) ==
  /\ Die(r)
  /\ IF run[r].pc = "idle" THEN UNCHANGED vars ELSE Crash(r)

GuardedNext ==
  \/ \E r \in Run : RunnerStep(r) \/ PublicationStage(r) \/ FinalComplianceStage(r) \/ ProcessDies(r)
  \/ \E n \in RunId : Reclaim(n) /\ UNCHANGED vars
  \/ \E p \in Provider, t \in Token : (Complete(p, t) \/ Expire(p, t)) /\ UNCHANGED guardVars
  \/ Owner /\ UNCHANGED guardVars

GuardedSpec == GuardedInit /\ [][GuardedNext]_guardedVars

-----------------------------------------------------------------------------
\* While the Owner reclaims only dead processes' runs, the system_runs row is
\* the lock that Publication assumes: everything proved of an exclusive engine
\* is true of these processes.
Exclusively == INSTANCE Publication WITH Exclusive <- TRUE
GuardMakesExclusive == Exclusively!Spec

=============================================================================
