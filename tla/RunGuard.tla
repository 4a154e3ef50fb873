------------------------------ MODULE RunGuard ------------------------------
(***************************************************************************)
(* The single-run guard: system_runs rows as the only lock between the     *)
(* processes that execute runAutonomousEntrypoint (index.js), and the      *)
(* Owner's reclamation of a row its process left behind (SystemRun.js).    *)
(*                                                                         *)
(* One action is one SQL statement or transaction, or the code between two *)
(* of them.  Any write can fail: the database may be busy for too long.    *)
(***************************************************************************)
EXTENDS Naturals

CONSTANTS
  Process,     \* processes that may enter the entrypoint
  OwnerChecks, \* TRUE: the Owner reclaims only the row of a process that is gone
  MaxRun       \* bound: system_runs rows ever inserted

ASSUME RunGuardAssumption ==
  /\ OwnerChecks \in BOOLEAN
  /\ MaxRun \in Nat

VARIABLES
  systemRun,  \* the system_runs rows, by order of insertion
  process     \* the local state of each process

guardVars == <<systemRun, process>>

RunId == 1..MaxRun
NoRun == 0

RunStatus == {"none", "RUNNING", "COMPLETED", "FAILED", "STOPPED"}
SystemRun == [status : RunStatus, reason : {"none", "own", "OWNER_RECLAIMED"}]

\* outside, discovering and running with the guard held, the runner's own
\* catch, and the catch of the entrypoint.
ProcessPc == {"outside", "discovery", "runner", "runnerCatch", "catch"}
ProcessLocal == [pc : ProcessPc, id : RunId \cup {NoRun}]
Outside == [pc |-> "outside", id |-> NoRun]

GuardTypeOK ==
  /\ systemRun \in [RunId -> SystemRun]
  /\ process \in [Process -> ProcessLocal]

GuardInit ==
  /\ systemRun = [n \in RunId |-> [status |-> "none", reason |-> "none"]]
  /\ process = [p \in Process |-> Outside]

-----------------------------------------------------------------------------
IsNext(n) == systemRun[n].status = "none" /\ \A m \in RunId : m < n => systemRun[m].status # "none"

\* Mutant: the row is inserted without looking for a RUNNING one.
AcquireUnchecked(p) ==
  /\ process[p].pc = "outside"
  /\ \E n \in RunId :
       /\ IsNext(n)
       /\ systemRun' = [systemRun EXCEPT ![n] = [status |-> "RUNNING", reason |-> "none"]]
       /\ process' = [process EXCEPT ![p] = [pc |-> "discovery", id |-> n]]

\* acquireExclusive: one INSERT decides.  A refusal writes no row.
Acquire(p) ==
  /\ process[p].pc = "outside"
  /\ \A n \in RunId : systemRun[n].status # "RUNNING"
  /\ \E n \in RunId :
       /\ IsNext(n)
       /\ systemRun' = [systemRun EXCEPT ![n] = [status |-> "RUNNING", reason |-> "none"]]
       /\ process' = [process EXCEPT ![p] = [pc |-> "discovery", id |-> n]]

Move(p, pc) ==
  process' = [process EXCEPT ![p] = [pc |-> pc, id |-> @.id]]

Exit(p) == process' = [process EXCEPT ![p] = Outside]

\* Discovery is done and the Owner's switch allows the mode.
Start(p) ==
  /\ process[p].pc = "discovery"
  /\ Move(p, "runner")
  /\ UNCHANGED systemRun

\* Discovery threw, or assertRunAllowed did: the runner has not begun.
RunRefused(p) ==
  /\ process[p].pc = "discovery"
  /\ Move(p, "catch")
  /\ UNCHANGED systemRun

\* A stage threw, or finish did.
RunnerThrows(p) ==
  /\ process[p].pc = "runner"
  /\ Move(p, "runnerCatch")
  /\ UNCHANGED systemRun

\* SystemRunRecorder.finish: by id, whatever the status, unless reclaimed.
Finish(n, status) ==
  systemRun' = IF systemRun[n].reason = "OWNER_RECLAIMED" THEN systemRun
               ELSE [systemRun EXCEPT ![n] = [status |-> status, reason |-> "own"]]

\* The runner ends its sweeps and releases the guard; the process is done.
CompleteRun(p) ==
  /\ process[p].pc = "runner"
  /\ \E status \in {"COMPLETED", "FAILED"} : Finish(process[p].id, status)
  /\ Exit(p)

\* Once finish has returned, nobody calls it again for this run.
RunnerReleases(p) ==
  /\ process[p].pc = "runnerCatch"
  /\ Finish(process[p].id, "FAILED")
  /\ Exit(p)

RunnerCannotRelease(p) ==
  /\ process[p].pc = "runnerCatch"
  /\ Move(p, "catch")
  /\ UNCHANGED systemRun

Release(p) ==
  /\ process[p].pc = "catch"
  /\ Finish(process[p].id, "FAILED")
  /\ Exit(p)

\* The process is killed, or its last release fails and is swallowed: the row
\* stays RUNNING.
Die(p) ==
  /\ process[p].pc # "outside"
  /\ Exit(p)
  /\ UNCHANGED systemRun

\* Mutant: a run is reclaimed for its age, its process alive or not.
ReclaimHasty(n) ==
  /\ systemRun[n].status = "RUNNING"
  /\ systemRun' = [systemRun EXCEPT ![n] = [status |-> "STOPPED", reason |-> "OWNER_RECLAIMED"]]
  /\ UNCHANGED process

\* reclaimOrphanedRun: decided by the UPDATE's own WHERE clause.
Reclaim(n) ==
  /\ systemRun[n].status = "RUNNING"
  /\ OwnerChecks => \A p \in Process : process[p].id # n
  /\ systemRun' = [systemRun EXCEPT ![n] = [status |-> "STOPPED", reason |-> "OWNER_RECLAIMED"]]
  /\ UNCHANGED process

-----------------------------------------------------------------------------
Entrypoint(p) ==
  \/ Acquire(p) \/ Start(p) \/ RunRefused(p)
  \/ RunnerThrows(p) \/ CompleteRun(p)
  \/ RunnerReleases(p) \/ RunnerCannotRelease(p) \/ Release(p)

GuardNext ==
  \/ \E p \in Process : Entrypoint(p) \/ Die(p)
  \/ \E n \in RunId : Reclaim(n)

GuardSpec == GuardInit /\ [][GuardNext]_guardVars

-----------------------------------------------------------------------------
(* Whatever the Owner does.                                                *)

\* The guard is one row: two RUNNING rows never exist.
AtMostOneRunning ==
  \A n, m \in RunId :
    systemRun[n].status = "RUNNING" /\ systemRun[m].status = "RUNNING" => n = m

\* A run that has ended has ended: no late finish, of a process the Owner gave
\* up on or of a second catch, rewrites how, nor releases another's guard.
EndedRunsStay ==
  [][\A n \in RunId :
       systemRun[n].status \notin {"none", "RUNNING"} => systemRun'[n] = systemRun[n]]_guardVars

(* When the Owner checks that the process is gone.                         *)

\* One engine at a time: this is what publication assumes as Exclusive.
AtMostOneEngine ==
  \A p, q \in Process : process[p].pc # "outside" /\ process[q].pc # "outside" => p = q

\* A process that works still holds its row.
WorkersHoldTheGuard ==
  \A p \in Process : process[p].pc # "outside" => systemRun[process[p].id].status = "RUNNING"

=============================================================================
