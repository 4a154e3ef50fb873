---------------------- MODULE ConcurrentPublicationProofs ----------------------
(***************************************************************************)
(* Several processes at once.  First under the single-run guard, for any   *)
(* set of processes and any number of runs: those it admits publish as if  *)
(* they were alone.  Then without it, on the platforms that remember       *)
(* nothing of an upload: with any number of live processes TikTok and      *)
(* Facebook show a content version at most once, and what a row says of    *)
(* them is true.                                                           *)
(***************************************************************************)
EXTENDS GuardedPublication, ShortFormPublication, PublicationProofs

Busy(p) == process[p].pc # "outside"

\* A row a process may still hold: RUNNING, or taken from it by the Owner.
Kept(w) == w.status = "RUNNING" \/ w.reason = "OWNER_RECLAIMED"

RowsInv ==
  /\ AtMostOneRunning
  /\ \A n \in RunId : systemRun[n].reason = "OWNER_RECLAIMED" => systemRun[n].status = "STOPPED"

HoldInv ==
  /\ \A p \in Process :
       IF Busy(p) THEN process[p].id \in RunId /\ Kept(systemRun[process[p].id])
                  ELSE process[p].id = NoRun
  /\ \A p, q \in Process : Busy(p) /\ Busy(q) /\ process[p].id = process[q].id => p = q

GuardInv == GuardTypeOK /\ RowsInv /\ HoldInv

-----------------------------------------------------------------------------
LEMMA GuardInvInit == GuardInit => GuardInv
  BY DEF GuardInit, GuardInv, GuardTypeOK, RowsInv, HoldInv, AtMostOneRunning, Busy, Outside,
         SystemRun, RunStatus, ProcessLocal, ProcessPc

\* What a step of the entrypoint does: it takes a new row, goes on with the
\* one it has, or lets go of it.
Takes(p, n) ==
  /\ ~Busy(p)
  /\ \A m \in RunId : systemRun[m].status # "RUNNING"
  /\ systemRun[n].status = "none"
  /\ systemRun' = [systemRun EXCEPT ![n] = [status |-> "RUNNING", reason |-> "none"]]
  /\ process' = [process EXCEPT ![p] = [pc |-> "discovery", id |-> n]]

GoesOn(p) ==
  /\ Busy(p)
  /\ \E pc \in ProcessPc \ {"outside"} : process' = [process EXCEPT ![p] = [pc |-> pc, id |-> @.id]]
  /\ UNCHANGED systemRun

Ends(p) ==
  /\ Busy(p)
  /\ \E status \in {"COMPLETED", "FAILED"} : Finish(process[p].id, status)
  /\ process' = [process EXCEPT ![p] = Outside]

Vanishes(p) ==
  /\ Busy(p)
  /\ process' = [process EXCEPT ![p] = Outside]
  /\ UNCHANGED systemRun

LEMMA EntrypointStep ==
  ASSUME NEW p \in Process, Entrypoint(p) \/ Die(p)
  PROVE  (\E n \in RunId : Takes(p, n)) \/ GoesOn(p) \/ Ends(p) \/ Vanishes(p)
<1>1. CASE Acquire(p)
  BY <1>1 DEF Acquire, IsNext, Takes, Busy
<1>2. CASE Start(p) \/ RunRefused(p) \/ RunnerThrows(p) \/ RunnerCannotRelease(p)
  <2>1. Busy(p) /\ UNCHANGED systemRun
    BY <1>2 DEF Start, RunRefused, RunnerThrows, RunnerCannotRelease, Busy
  <2>2. \E pc \in ProcessPc \ {"outside"} : Move(p, pc)
    BY <1>2 DEF Start, RunRefused, RunnerThrows, RunnerCannotRelease, ProcessPc
  <2>3. QED
    BY <2>1, <2>2 DEF Move, GoesOn
<1>3. CASE CompleteRun(p) \/ RunnerReleases(p) \/ Release(p)
  BY <1>3 DEF CompleteRun, RunnerReleases, Release, Exit, Ends, Busy
<1>4. CASE Die(p)
  BY <1>4 DEF Die, Exit, Vanishes, Busy
<1>5. QED
  BY <1>1, <1>2, <1>3, <1>4 DEF Entrypoint

LEMMA GuardInvStep ==
  ASSUME GuardInv, GuardNext
  PROVE  GuardInv'
<1> USE DEF GuardInv
<1>1. ASSUME NEW p \in Process, NEW n \in RunId, Takes(p, n) PROVE GuardInv'
  <2>1. GuardTypeOK'
    BY <1>1 DEF Takes, GuardTypeOK, SystemRun, RunStatus, ProcessLocal, ProcessPc
  <2>2. RowsInv'
    BY <1>1 DEF Takes, GuardTypeOK, RowsInv, AtMostOneRunning
  <2>3. process'[p].id = n /\ process'[p].pc = "discovery" /\ Kept(systemRun'[n])
    BY <1>1 DEF Takes, GuardTypeOK, Kept
  <2>4. ASSUME NEW q \in Process \ {p}
        PROVE  /\ process'[q] = process[q]
               /\ process[q].id # NoRun => process[q].id # n /\ systemRun'[process[q].id] = systemRun[process[q].id]
    BY <1>1, <2>4 DEF Takes, GuardTypeOK, RowsInv, HoldInv, Kept, Busy, NoRun, RunId
  <2>5. HoldInv'
    BY <2>3, <2>4 DEF HoldInv, Busy, Kept, NoRun, RunId
  <2>6. QED
    BY <2>1, <2>2, <2>5
<1>2. ASSUME NEW p \in Process, GoesOn(p) PROVE GuardInv'
  <2>1. PICK pc \in ProcessPc \ {"outside"} : process' = [process EXCEPT ![p] = [pc |-> pc, id |-> @.id]]
    BY <1>2 DEF GoesOn
  <2>2. GuardTypeOK'
    BY <1>2, <2>1 DEF GoesOn, GuardTypeOK, ProcessLocal
  <2>3. \A q \in Process : process'[q].id = process[q].id /\ (process'[q].pc = "outside" <=> process[q].pc = "outside")
    BY <1>2, <2>1 DEF GoesOn, GuardTypeOK, Busy, ProcessLocal
  <2>4. QED
    BY <1>2, <2>2, <2>3 DEF GoesOn, RowsInv, HoldInv, AtMostOneRunning, Busy, Kept
<1>3. ASSUME NEW p \in Process, Ends(p) \/ Vanishes(p) PROVE GuardInv'
  <2>1. Busy(p) /\ process[p].id \in RunId /\ process' = [process EXCEPT ![p] = Outside]
    BY <1>3 DEF Ends, Vanishes, HoldInv
  <2>2. GuardTypeOK'
    <3>1. systemRun' \in [RunId -> SystemRun]
      BY <1>3, <2>1 DEF Ends, Vanishes, Finish, GuardTypeOK, SystemRun, RunStatus
    <3>2. process' \in [Process -> ProcessLocal]
      BY <2>1 DEF GuardTypeOK, ProcessLocal, ProcessPc, Outside
    <3>3. QED
      BY <3>1, <3>2 DEF GuardTypeOK
  <2>3. /\ \A n \in RunId : n # process[p].id => systemRun'[n] = systemRun[n]
        /\ systemRun'[process[p].id].status = "RUNNING" => systemRun[process[p].id].status = "RUNNING"
        /\ \/ systemRun'[process[p].id] = systemRun[process[p].id]
           \/ systemRun'[process[p].id].reason = "own"
    BY <1>3, <2>1 DEF Ends, Vanishes, Finish, GuardTypeOK
  <2>4. RowsInv'
    BY <2>3 DEF RowsInv, AtMostOneRunning
  <2>5. \A q \in Process : IF q = p THEN process'[q] = Outside ELSE process'[q] = process[q]
    BY <2>1 DEF GuardTypeOK
  <2>6. HoldInv'
    BY <2>1, <2>3, <2>5 DEF HoldInv, Busy, Kept, Outside
  <2>7. QED
    BY <2>2, <2>4, <2>6
<1>4. ASSUME NEW n \in RunId, Reclaim(n) PROVE GuardInv'
  <2>1. GuardTypeOK'
    BY <1>4 DEF Reclaim, GuardTypeOK, SystemRun, RunStatus
  <2>2. \A m \in RunId : IF m = n THEN systemRun'[m] = [status |-> "STOPPED", reason |-> "OWNER_RECLAIMED"]
                         ELSE systemRun'[m] = systemRun[m]
    BY <1>4 DEF Reclaim, GuardTypeOK
  <2>3. RowsInv'
    BY <2>2 DEF RowsInv, AtMostOneRunning
  <2>4. HoldInv'
    BY <1>4, <2>2 DEF Reclaim, HoldInv, Busy, Kept
  <2>5. QED
    BY <2>1, <2>3, <2>4
<1>5. QED
  BY EntrypointStep, <1>1, <1>2, <1>3, <1>4 DEF GuardNext

LEMMA GuardInvariant == GuardSpec => []GuardInv
<1>1. GuardInv /\ UNCHANGED guardVars => GuardInv'
  BY DEF GuardInv, GuardTypeOK, RowsInv, HoldInv, AtMostOneRunning, Busy, Kept, guardVars
<1>2. QED
  BY <1>1, GuardInvInit, GuardInvStep, PTL DEF GuardSpec

-----------------------------------------------------------------------------
\* Rows and processes are well typed.
THEOREM GuardTypeCorrect == GuardSpec => []GuardTypeOK
<1>1. GuardInv => GuardTypeOK
  BY DEF GuardInv
<1>2. QED
  BY <1>1, GuardInvariant, PTL

\* Whatever crashes and whatever the Owner reclaims, one row is RUNNING.
THEOREM OneRunningRow == GuardSpec => []AtMostOneRunning
<1>1. GuardInv => AtMostOneRunning
  BY DEF GuardInv, RowsInv
<1>2. QED
  BY <1>1, GuardInvariant, PTL

\* A run the Owner reclaimed, or that ended, keeps its record: the UPDATE of
\* finish has no status guard, and needs none.
THEOREM EndedRunsAreHistory == GuardSpec => EndedRunsStay
<1> DEFINE Stay == \A n \in RunId : systemRun[n].status \notin {"none", "RUNNING"}
                                      => systemRun'[n] = systemRun[n]
<1>1. GuardInv /\ [GuardNext]_guardVars => [Stay]_guardVars
  <2> SUFFICES ASSUME GuardInv, GuardNext PROVE Stay
    OBVIOUS
  <2>1. ASSUME NEW p \in Process, NEW n \in RunId, Takes(p, n) PROVE Stay
    BY <2>1 DEF Takes, GuardInv, GuardTypeOK
  <2>2. ASSUME NEW p \in Process, GoesOn(p) \/ Vanishes(p) PROVE Stay
    BY <2>2 DEF GoesOn, Vanishes
  <2>3. ASSUME NEW p \in Process, Ends(p) PROVE Stay
    BY <2>3 DEF Ends, Finish, GuardInv, GuardTypeOK, HoldInv, Kept
  <2>4. ASSUME NEW n \in RunId, Reclaim(n) PROVE Stay
    BY <2>4 DEF Reclaim, GuardInv, GuardTypeOK
  <2>5. QED
    BY EntrypointStep, <2>1, <2>2, <2>3, <2>4 DEF GuardNext
<1>2. QED
  BY <1>1, GuardInvariant, PTL DEF GuardSpec, EndedRunsStay

-----------------------------------------------------------------------------
\* An Owner who checks never takes the row of a process that still works.
LEMMA WorkersStep ==
  ASSUME OwnerChecks, GuardInv, GuardNext, WorkersHoldTheGuard
  PROVE  WorkersHoldTheGuard'
<1> USE DEF GuardInv, GuardTypeOK
<1>1. ASSUME NEW p \in Process, NEW n \in RunId, Takes(p, n) PROVE WorkersHoldTheGuard'
  <2>1. ASSUME NEW q \in Process \ {p}, process'[q].pc # "outside" PROVE FALSE
    BY <1>1, <2>1 DEF Takes, WorkersHoldTheGuard, HoldInv, Busy
  <2>2. systemRun'[process'[p].id].status = "RUNNING"
    BY <1>1 DEF Takes
  <2>3. QED
    BY <2>1, <2>2 DEF WorkersHoldTheGuard
<1>2. ASSUME NEW p \in Process, GoesOn(p) \/ Vanishes(p) PROVE WorkersHoldTheGuard'
  BY <1>2 DEF GoesOn, Vanishes, Outside, WorkersHoldTheGuard, Busy
<1>3. ASSUME NEW p \in Process, Ends(p) PROVE WorkersHoldTheGuard'
  <2>1. ASSUME NEW q \in Process, process'[q].pc # "outside"
        PROVE  q # p /\ process'[q] = process[q] /\ process[q].id # process[p].id
    BY <1>3, <2>1 DEF Ends, Outside, HoldInv, Busy
  <2>2. \A n \in RunId : n # process[p].id => systemRun'[n] = systemRun[n]
    BY <1>3 DEF Ends, Finish
  <2>3. QED
    BY <2>1, <2>2 DEF WorkersHoldTheGuard, HoldInv, Busy
<1>4. ASSUME NEW n \in RunId, Reclaim(n) PROVE WorkersHoldTheGuard'
  BY <1>4 DEF Reclaim, WorkersHoldTheGuard, HoldInv, Busy
<1>5. QED
  BY EntrypointStep, <1>1, <1>2, <1>3, <1>4 DEF GuardNext

\* A process that works holds its row, so that one process works.
THEOREM WorkersAreGuarded == ASSUME OwnerChecks PROVE GuardSpec => []WorkersHoldTheGuard
<1>1. GuardInit => WorkersHoldTheGuard
  BY DEF GuardInit, Outside, WorkersHoldTheGuard
<1>2. GuardInv /\ WorkersHoldTheGuard /\ [GuardNext]_guardVars => WorkersHoldTheGuard'
  <2>1. WorkersHoldTheGuard /\ UNCHANGED guardVars => WorkersHoldTheGuard'
    BY DEF WorkersHoldTheGuard, guardVars
  <2>2. QED
    BY <2>1, WorkersStep
<1>3. QED
  BY <1>1, <1>2, GuardInvariant, PTL DEF GuardSpec

LEMMA OneEngine == GuardInv /\ WorkersHoldTheGuard => AtMostOneEngine
  BY DEF GuardInv, RowsInv, HoldInv, Busy, AtMostOneRunning, WorkersHoldTheGuard, AtMostOneEngine

THEOREM EnginesExclude == ASSUME OwnerChecks PROVE GuardSpec => []AtMostOneEngine
  BY OneEngine, GuardInvariant, WorkersAreGuarded, PTL

-----------------------------------------------------------------------------
(* The processes of RunGuard publish as if they were alone.                *)

\* An invocation of runPublication runs inside the runner of its process.
Inside == \A r \in Run : run[r].pc # "idle" => process[r].pc = "runner"

GuardedInv == TypeOK /\ GuardInv /\ WorkersHoldTheGuard /\ Inside

LEMMA GuardedInvInit == GuardedInit => GuardedInv
<1>1. GuardInit => WorkersHoldTheGuard
  BY DEF GuardInit, Outside, WorkersHoldTheGuard
<1>2. Init => Inside
  BY DEF Init, Idle, Inside
<1>3. QED
  BY <1>1, <1>2, InitType, GuardInvInit DEF GuardedInit, GuardedInv

LEMMA InsideStep ==
  ASSUME GuardedInv, GuardedNext
  PROVE  Inside'
<1> USE GuardedAssumption DEF GuardedAssumption, GuardedInv
<1>1. ASSUME NEW r \in Run, RunnerStep(r) PROVE Inside'
  <2>1. \A q \in Process \ {r} : process'[q] = process[q]
    <3>1. (\E n \in RunId : Takes(r, n)) \/ GoesOn(r) \/ Ends(r) \/ Vanishes(r)
      BY <1>1, EntrypointStep DEF RunnerStep
    <3>2. QED
      BY <3>1 DEF Takes, GoesOn, Ends, Vanishes, GuardInv, GuardTypeOK
  <2>2. QED
    BY <1>1, <2>1 DEF RunnerStep, Inside, vars
<1>2. ASSUME NEW r \in Run, PublicationStage(r) PROVE Inside'
  <2>1. \A q \in Run \ {r} : run'[q] = run[q]
    BY <1>2, OthersStay DEF PublicationStage
  <2>2. QED
    BY <1>2, <2>1 DEF PublicationStage, Inside, guardVars
<1>3. ASSUME NEW r \in Run, ProcessDies(r) PROVE Inside'
  <2>1. run'[r].pc = "idle" /\ \A q \in Run \ {r} : run'[q] = run[q] /\ process'[q] = process[q]
    <3>1. \A q \in Run \ {r} : process'[q] = process[q]
      BY <1>3 DEF ProcessDies, Die, Exit, GuardInv, GuardTypeOK
    <3>2. CASE run[r].pc = "idle"
      BY <1>3, <3>1, <3>2 DEF ProcessDies, vars
    <3>3. CASE run[r].pc # "idle"
      BY <1>3, <3>1, <3>3 DEF ProcessDies, Crash, Return, Idle, TypeOK
    <3>4. QED
      BY <3>2, <3>3
  <2>2. QED
    BY <2>1 DEF Inside
<1>4. CASE UNCHANGED <<run, process>>
  BY <1>4 DEF Inside
<1>5. QED
  BY <1>1, <1>2, <1>3, <1>4
     DEF GuardedNext, FinalComplianceStage, FinalCompliance, Reclaim, Complete, Expire, Owner,
         SetGrant, Reactivate, GateChanges, vars, guardVars

LEMMA GuardedInvStep ==
  ASSUME OwnerChecks, GuardedInv, GuardedNext
  PROVE  GuardedInv'
<1> USE GuardedAssumption DEF GuardedAssumption
<1>1. TypeOK'
  <2>1. ASSUME NEW r \in Run, ProcessDies(r) PROVE Invocation(r) \/ UNCHANGED vars
    BY <2>1 DEF ProcessDies, Invocation, Pipeline
  <2>2. (\E r \in Run : Invocation(r)) \/ World \/ UNCHANGED vars
    BY <2>1 DEF GuardedNext, RunnerStep, PublicationStage, FinalComplianceStage, World
  <2>3. UNCHANGED vars /\ TypeOK => TypeOK'
    BY DEF TypeOK, vars
  <2>4. QED
    BY <2>2, <2>3, InvocationType, WorldType DEF GuardedInv
<1>2. GuardNext \/ UNCHANGED guardVars
  BY DEF GuardedNext, RunnerStep, PublicationStage, FinalComplianceStage, ProcessDies, GuardNext
<1>3. GuardInv'
  <2>1. GuardInv /\ UNCHANGED guardVars => GuardInv'
    BY DEF GuardInv, GuardTypeOK, RowsInv, HoldInv, AtMostOneRunning, Busy, Kept, guardVars
  <2>2. QED
    BY <1>2, <2>1, GuardInvStep DEF GuardedInv
<1>4. WorkersHoldTheGuard'
  <2>1. WorkersHoldTheGuard /\ UNCHANGED guardVars => WorkersHoldTheGuard'
    BY DEF WorkersHoldTheGuard, guardVars
  <2>2. QED
    BY <1>2, <2>1, WorkersStep DEF GuardedInv
<1>5. QED
  BY <1>1, <1>3, <1>4, InsideStep DEF GuardedInv

-----------------------------------------------------------------------------
\* The definitions of the exclusive engine are those of the engine, but for
\* the guard of Begin.
LEMMA ExclusiveValues ==
  /\ Exclusively!Idle = Idle /\ Exclusively!NoToken = NoToken /\ Exclusively!Token = Token
  /\ \A w : /\ Exclusively!IsReclaimable(w) = IsReclaimable(w)
           /\ Exclusively!IsResumable(w) = IsResumable(w)
           /\ Exclusively!IsInterrupted(w) = IsInterrupted(w)
  BY DEF Exclusively!Idle, Idle, Exclusively!NoToken, NoToken, Exclusively!Token, Token,
         Exclusively!IsReclaimable, IsReclaimable, Exclusively!IsResumable, IsResumable,
         Exclusively!IsInterrupted, IsInterrupted

LEMMA ExclusiveBegin ==
  ASSUME \A q \in Run : run[q].pc = "idle", NEW r \in Run, NEW p \in Provider
  PROVE  /\ BeginPublished(r, p) => Exclusively!BeginPublished(r, p)
         /\ BeginInterrupted(r, p) => Exclusively!BeginInterrupted(r, p)
         /\ BeginAttempt(r, p) => Exclusively!BeginAttempt(r, p)
<1>1. \A pc, visibility : Begin(r, p, pc, visibility) => Exclusively!Begin(r, p, pc, visibility)
  BY ExclusiveValues DEF Begin, Exclusively!Begin
<1>2. QED
  BY <1>1, ExclusiveValues DEF BeginPublished, BeginInterrupted, BeginAttempt, GateOpen,
     Exclusively!BeginPublished, Exclusively!BeginInterrupted, Exclusively!BeginAttempt,
     Exclusively!GateOpen

LEMMA ExclusiveInvocation ==
  ASSUME NEW r \in Run, Invocation(r), run[r].pc = "idle" => \A q \in Run : run[q].pc = "idle"
  PROVE  Exclusively!Invocation(r)
<1>1. CASE \E p \in Provider : BeginPublished(r, p) \/ BeginInterrupted(r, p) \/ BeginAttempt(r, p)
  <2>1. \A q \in Run : run[q].pc = "idle"
    BY <1>1 DEF BeginPublished, BeginInterrupted, BeginAttempt, Begin
  <2>2. QED
    BY <1>1, <2>1, ExclusiveBegin DEF Exclusively!Invocation, Exclusively!Pipeline
<1>2. CASE MarkInterrupted(r)
  BY <1>2, ExclusiveValues DEF Exclusively!Invocation, Exclusively!Pipeline, MarkInterrupted,
     Exclusively!MarkInterrupted, Return, Exclusively!Return
<1>3. CASE ClaimNew(r)
  BY <1>3 DEF Exclusively!Invocation, Exclusively!Pipeline, ClaimNew, Exclusively!ClaimNew,
     Claimed, Exclusively!Claimed, Goto, Exclusively!Goto, NoToken, Exclusively!NoToken
<1>4. CASE ClaimFailed(r)
  BY <1>4 DEF Exclusively!Invocation, Exclusively!Pipeline, ClaimFailed,
     Exclusively!ClaimFailed, IsReclaimable, Exclusively!IsReclaimable, Claimed,
     Exclusively!Claimed, Goto, Exclusively!Goto, NoToken, Exclusively!NoToken
<1>5. CASE ClaimResume(r)
  BY <1>5 DEF Exclusively!Invocation, Exclusively!Pipeline, ClaimResume,
     Exclusively!ClaimResume, IsResumable, Exclusively!IsResumable, NoToken,
     Exclusively!NoToken
<1>6. CASE ClaimRaced(r)
  BY <1>6 DEF Exclusively!Invocation, Exclusively!Pipeline, ClaimRaced,
     Exclusively!ClaimRaced, IsVisibilityMismatch, Exclusively!IsVisibilityMismatch,
     IsInterrupted, Exclusively!IsInterrupted, Return, Exclusively!Return, Idle,
     Exclusively!Idle, NoToken, Exclusively!NoToken
<1>7. CASE Open(r)
  <2>1. \A p, t : IsFresh(p, t) => Exclusively!IsFresh(p, t)
    BY ExclusiveValues DEF IsFresh, Exclusively!IsFresh
  <2>2. Exclusively!Held(run[r]) = Held(run[r])
    BY ExclusiveValues DEF Held, Exclusively!Held
  <2>3. Exclusively!Open(r)
    BY <1>7, <2>1, <2>2, ExclusiveValues DEF Open, OpenSession, Exclusively!Open, Exclusively!OpenSession
  <2>4. QED
    BY <2>3 DEF Exclusively!Invocation, Exclusively!Adapter
<1>8. CASE DropSession(r)
  BY <1>8 DEF Exclusively!Invocation, Exclusively!Adapter, DropSession,
     Exclusively!DropSession, Held, Exclusively!Held, NoToken, Exclusively!NoToken
<1>9. CASE AnswerSuccess(r)
  BY <1>9 DEF Exclusively!Invocation, Exclusively!Adapter, AnswerSuccess,
     Exclusively!AnswerSuccess, Held, Exclusively!Held, Answer, Exclusively!Answer, NoToken,
     Exclusively!NoToken
<1>10. CASE AnswerFailure(r)
  BY <1>10 DEF Exclusively!Invocation, Exclusively!Adapter, AnswerFailure,
     Exclusively!AnswerFailure, Held, Exclusively!Held, Answer, Exclusively!Answer, NoToken,
     Exclusively!NoToken
<1>11. CASE AnswerAmbiguous(r)
  BY <1>11 DEF Exclusively!Invocation, Exclusively!Adapter, AnswerAmbiguous,
     Exclusively!AnswerAmbiguous, Answer, Exclusively!Answer
<1>12. CASE SettleFailure(r)
  BY <1>12 DEF Exclusively!Invocation, Exclusively!Pipeline, SettleFailure,
     Exclusively!SettleFailure, Failed, Exclusively!Failed, RecordFailedAttempt,
     Exclusively!RecordFailedAttempt, Return, Exclusively!Return, Idle, Exclusively!Idle,
     NoToken, Exclusively!NoToken
<1>13. CASE SettleAmbiguous(r)
  BY <1>13 DEF Exclusively!Invocation, Exclusively!Pipeline, SettleAmbiguous,
     Exclusively!SettleAmbiguous, Return, Exclusively!Return, Idle, Exclusively!Idle,
     NoToken, Exclusively!NoToken
<1>14. CASE SettleMismatch(r)
  BY <1>14 DEF Exclusively!Invocation, Exclusively!Pipeline, SettleMismatch,
     Exclusively!SettleMismatch, IsMismatch, Exclusively!IsMismatch, Failed,
     Exclusively!Failed, Return, Exclusively!Return, Idle, Exclusively!Idle, NoToken,
     Exclusively!NoToken
<1>15. CASE SettlePublished(r)
  BY <1>15 DEF Exclusively!Invocation, Exclusively!Pipeline, SettlePublished,
     Exclusively!SettlePublished, IsMismatch, Exclusively!IsMismatch, Published,
     Exclusively!Published, Goto, Exclusively!Goto, NoToken, Exclusively!NoToken
<1>16. CASE ThumbnailStart(r)
  BY <1>16 DEF Exclusively!Invocation, Exclusively!Pipeline, ThumbnailStart,
     Exclusively!ThumbnailStart, Goto, Exclusively!Goto
<1>17. CASE ThumbnailSkip(r)
  BY <1>17 DEF Exclusively!Invocation, Exclusively!Pipeline, ThumbnailSkip,
     Exclusively!ThumbnailSkip, Return, Exclusively!Return, Idle, Exclusively!Idle, NoToken,
     Exclusively!NoToken
<1>18. CASE ThumbnailEnd(r)
  BY <1>18 DEF Exclusively!Invocation, Exclusively!Pipeline, ThumbnailEnd,
     Exclusively!ThumbnailEnd, Return, Exclusively!Return, Idle, Exclusively!Idle, NoToken,
     Exclusively!NoToken
<1>19. CASE Crash(r)
  BY <1>19 DEF Exclusively!Invocation, Exclusively!Pipeline, Crash, Exclusively!Crash,
     Return, Exclusively!Return, Idle, Exclusively!Idle, NoToken, Exclusively!NoToken
<1> QED
  BY Invocation(r), <1>1, <1>2, <1>3, <1>4, <1>5, <1>6, <1>7, <1>8, <1>9, <1>10, <1>11, <1>12, <1>13, <1>14, <1>15, <1>16, <1>17, <1>18, <1>19
     DEF Invocation, Pipeline, Adapter

LEMMA ExclusiveWorld ==
  ASSUME (\E p \in Provider, t \in Token : Complete(p, t) \/ Expire(p, t)) \/ Owner
  PROVE  Exclusively!World
<1>1. CASE \E p \in Provider, t \in Token : Complete(p, t) \/ Expire(p, t)
  BY <1>1, ExclusiveValues DEF Complete, Expire, Exclusively!World, Exclusively!Complete, Exclusively!Expire
<1>2. CASE Owner
  <2>1. CASE \E p \in Provider, g \in Grant : SetGrant(p, g)
    BY <2>1 DEF SetGrant, Grant, Exclusively!World, Exclusively!Owner, Exclusively!SetGrant, Exclusively!Grant
  <2>2. CASE \E p \in Provider : Reactivate(p)
    BY <2>2 DEF Reactivate, Exclusively!World, Exclusively!Owner, Exclusively!Reactivate
  <2>3. CASE GateChanges
    BY <2>3 DEF GateChanges, Exclusively!World, Exclusively!Owner, Exclusively!GateChanges
  <2>4. QED
    BY <1>2, <2>1, <2>2, <2>3 DEF Owner
<1>3. QED
  BY <1>1, <1>2

LEMMA ExclusiveCompliance ==
  ASSUME FinalCompliance, \A q \in Run : run[q].pc = "idle"
  PROVE  Exclusively!World
  BY DEF FinalCompliance, Exclusively!World, Exclusively!FinalCompliance

\* One process is inside its runner, so one invocation is under way.
LEMMA GuardedStep ==
  ASSUME GuardedInv, GuardedNext
  PROVE  [Exclusively!Next]_vars
<1> USE GuardedAssumption DEF GuardedAssumption
<1>1. \A r, q \in Run : process[r].pc # "outside" /\ process[q].pc # "outside" => r = q
  BY OneEngine DEF GuardedInv, AtMostOneEngine
<1>2. \A r \in Run : process[r].pc = "runner" /\ run[r].pc = "idle" => \A q \in Run : run[q].pc = "idle"
  BY <1>1 DEF GuardedInv, Inside
<1>3. ASSUME NEW r \in Run, PublicationStage(r) PROVE Exclusively!Next
  BY <1>2, <1>3, ExclusiveInvocation DEF PublicationStage, Exclusively!Next
<1>4. ASSUME NEW r \in Run, ProcessDies(r), run[r].pc # "idle" PROVE Exclusively!Next
  <2>1. Invocation(r)
    BY <1>4 DEF ProcessDies, Invocation, Pipeline
  <2>2. QED
    BY <1>4, <2>1, ExclusiveInvocation DEF Exclusively!Next
<1>5. ASSUME NEW r \in Run, FinalComplianceStage(r) PROVE Exclusively!Next
  BY <1>2, <1>5, ExclusiveCompliance DEF FinalComplianceStage, Exclusively!Next
<1>6. ASSUME (\E p \in Provider, t \in Token : Complete(p, t) \/ Expire(p, t)) \/ Owner
      PROVE  Exclusively!Next
  BY <1>6, ExclusiveWorld DEF Exclusively!Next
<1>7. QED
  BY <1>3, <1>4, <1>5, <1>6 DEF GuardedNext, RunnerStep, ProcessDies

\* An Owner who reclaims only what is dead gives publication the exclusive
\* engine that its guarantees need: with PublicationDeliversOnce, the processes
\* together deliver a content version at most once.
THEOREM GuardExcludes == ASSUME OwnerChecks PROVE GuardedSpec => GuardMakesExclusive
<1>1. GuardedInv /\ UNCHANGED guardedVars => GuardedInv'
  BY DEF GuardedInv, GuardInv, GuardTypeOK, RowsInv, HoldInv, AtMostOneRunning, Busy, Kept, Inside,
         WorkersHoldTheGuard, TypeOK, guardedVars, guardVars, vars
<1>2. GuardedInv /\ [GuardedNext]_guardedVars => [Exclusively!Next]_(Exclusively!vars)
  BY GuardedStep DEF guardedVars, vars, Exclusively!vars
<1>3. Init => Exclusively!Init
  BY ExclusiveValues DEF Init, Exclusively!Init, NoRow, Exclusively!NoRow
<1>4. GuardedInit => Init
  BY DEF GuardedInit
<1>5. QED
  BY <1>1, <1>2, <1>3, <1>4, GuardedInvInit, GuardedInvStep, PTL
     DEF GuardedSpec, GuardMakesExclusive, Exclusively!Spec

-----------------------------------------------------------------------------
(* The platforms that remember nothing, without the guard.                 *)

\* What publish knows at each of its steps.
AdapterInv(r) ==
  /\ run[r].pc # "adapter" => adapter[r].at = "start"
  /\ run[r].pc = "adapter" =>
       /\ adapter[r].at = "start" <=> run[r].token = NoToken
       /\ adapter[r].at = "check" /\ ~IsPolled(r) => run[r].token \in accepted[run[r].p]

\* A provider shows only what it accepted, and whoever says that an item
\* exists says so of a provider that accepted one.
AcceptedInv ==
  /\ \A p \in Provider : Items(p) \subseteq accepted[p]
  /\ \A p \in Provider : SaysDelivered(row[p]) => accepted[p] # {}
  /\ \A r \in Run : Confirms(run[r]) => accepted[run[r].p] # {}

StatelessClaims == \A p \in Provider : StatelessInv(p)

ShortFormInv ==
  /\ Resumable = {}
  /\ ShortFormTypeOK /\ StatelessClaims /\ AcceptedInv /\ \A r \in Run : AdapterInv(r)

-----------------------------------------------------------------------------
LEMMA FreshType == Fresh \in [at : At, polls : 0..Polls]
  BY ShortFormAssumption DEF ShortFormAssumption, Fresh, At

LEMMA AdapterUpdates ==
  ASSUME NEW l \in [at : At, polls : 0..Polls]
  PROVE  /\ \A at \in At : [l EXCEPT !.at = at] \in [at : At, polls : 0..Polls]
         /\ l.polls + 1 < Polls => [l EXCEPT !.polls = @ + 1] \in [at : At, polls : 0..Polls]
  BY ShortFormAssumption DEF ShortFormAssumption

LEMMA ShortFormInvInit == ASSUME Resumable = {} PROVE ShortFormInit => ShortFormInv
<1> SUFFICES ASSUME ShortFormInit PROVE ShortFormInv
  OBVIOUS
<1>1. ShortFormTypeOK
  BY InitType, FreshType DEF ShortFormInit, ShortFormTypeOK, Told
<1>2. StatelessClaims
  BY DEF ShortFormInit, Init, StatelessClaims, StatelessInv, Holds, Live, NoRow, Idle, IsReclaimable
<1>3. AcceptedInv
  BY DEF ShortFormInit, Init, AcceptedInv, Items, SaysDelivered, IsVisibilityMismatch, Confirms, NoRow, Idle
<1>4. \A r \in Run : AdapterInv(r)
  BY DEF ShortFormInit, Init, AdapterInv, Idle, Fresh
<1>5. QED
  BY <1>1, <1>2, <1>3, <1>4 DEF ShortFormInv

-----------------------------------------------------------------------------
\* Each step of publish is one the contract of PublicationProvider.js allows,
\* or none of its business.  The one exception is ReelConfirmed, which may
\* answer for a reel that has since failed.
LEMMA PublishStep ==
  ASSUME ShortFormInv, NEW r \in Run, Publish(r)
  PROVE  Invocation(r) \/ UNCHANGED vars \/ ReelConfirmed(r)
<1>1. CASE Initiate(r)
  <2>1. run[r].token = NoToken
    BY <1>1 DEF Initiate, IsAt, ShortFormInv, AdapterInv
  <2>2. Held(run[r]) = "none"
    BY <2>1 DEF Held
  <2>3. Open(r)
    BY <1>1, <2>2 DEF Initiate, Open
  <2>4. QED
    BY <2>3 DEF Invocation, Adapter
<1>2. CASE PollComplete(r)
  <2>1. AnswerSuccess(r)
    BY <1>2 DEF PollComplete, IsAt, AnswerSuccess
  <2>2. QED
    BY <2>1 DEF Invocation, Adapter
<1>3. CASE Refused(r) \/ Rejected(r) \/ Lost(r) \/ CheckFailed(r) \/ PollUndecided(r)
  BY <1>3 DEF Refused, Rejected, Lost, CheckFailed, PollUndecided, Invocation, Adapter
<1>4. CASE SendBody(r) \/ BodyTaken(r) \/ SendFinish(r) \/ Finished(r) \/ PollAgain(r)
  BY <1>4 DEF SendBody, BodyTaken, SendFinish, Finished, PollAgain, Tell, vars
<1>5. QED
  BY <1>1, <1>2, <1>3, <1>4 DEF Publish

\* A row of these providers names no session, so nothing is ever resumed.
LEMMA NothingToResume ==
  ASSUME ShortFormInv, NEW r \in Run
  PROVE  ~ClaimResume(r) /\ ~DropSession(r)
  BY LocalType
     DEF ShortFormInv, ShortFormTypeOK, StatelessClaims, StatelessInv, ClaimResume, IsResumable, DropSession

LEMMA ConfirmedType ==
  ASSUME TypeOK, NEW r \in Run, ReelConfirmed(r)
  PROVE  TypeOK'
<1>1. [run[r] EXCEPT !.pc = "settle", !.result = "success"] \in Local
  BY LocalUpdates DEF TypeOK, Result
<1>2. run' = [run EXCEPT ![r] = [run[r] EXCEPT !.pc = "settle", !.result = "success"]]
  BY DEF ReelConfirmed, Answer
<1>3. QED
  BY <1>1, <1>2 DEF ReelConfirmed, TypeOK

LEMMA ShortFormTypeStep ==
  ASSUME ShortFormInv, ShortFormNext
  PROVE  ShortFormTypeOK'
<1>t. /\ TypeOK /\ polled \subseteq Provider
      /\ told \in [Provider -> [Token -> Told]]
      /\ accepted \in [Provider -> SUBSET Token]
      /\ adapter \in [Run -> [at : At, polls : 0..Polls]]
  BY DEF ShortFormInv, ShortFormTypeOK
<1>1. TypeOK'
  <2>1. ASSUME NEW r \in Run, Publish(r) PROVE TypeOK'
    <3>1. UNCHANGED vars => TypeOK'
      BY <1>t DEF vars, TypeOK
    <3>2. QED
      BY <1>t, <2>1, <3>1, PublishStep, InvocationType, ConfirmedType
  <2>2. ASSUME NEW r \in Run, Pipeline(r) PROVE TypeOK'
    BY <1>t, <2>2, InvocationType DEF Invocation
  <2>3. ASSUME NEW p \in Provider, NEW t \in Token, Accept(p, t) \/ Moderate(p, t) PROVE TypeOK'
    BY <1>t, <2>3, WorldType DEF Accept, Moderate, World
  <2>4. ASSUME NEW p \in Provider, NEW t \in Token, ProcessingFails(p, t) PROVE TypeOK'
    BY <1>t, <2>4 DEF ProcessingFails, TypeOK, UploadStatus
  <2>5. Owner \/ FinalCompliance => TypeOK'
    BY <1>t, WorldType DEF World
  <2>6. QED
    BY <2>1, <2>2, <2>3, <2>4, <2>5 DEF ShortFormNext
<1>2. (polled \subseteq Provider)'
  BY <1>t DEF ShortFormNext, Publish, Refused, Initiate, SendBody, BodyTaken, SendFinish, Finished, Rejected, Lost,
      CheckFailed, PollComplete, PollAgain, PollUndecided, ReelConfirmed, Leave, Tell, Accept, Moderate, ProcessingFails
<1>3. (told \in [Provider -> [Token -> Told]])'
  <2>1. ASSUME NEW r \in Run, SendBody(r) \/ SendFinish(r) PROVE (told \in [Provider -> [Token -> Told]])'
    BY <1>t, <2>1 DEF SendBody, SendFinish, Tell, Told
  <2>2. UNCHANGED told => (told \in [Provider -> [Token -> Told]])'
    BY <1>t
  <2>3. QED
    BY <2>1, <2>2 DEF ShortFormNext, Publish, Refused, Initiate, BodyTaken, Finished, Rejected, Lost,
       CheckFailed, PollComplete, PollAgain, PollUndecided, ReelConfirmed, Leave, Accept, Moderate, ProcessingFails
<1>4. (accepted \in [Provider -> SUBSET Token])'
  <2>1. ASSUME NEW p \in Provider, NEW t \in Token, Accept(p, t) PROVE (accepted \in [Provider -> SUBSET Token])'
    BY <1>t, <2>1 DEF Accept
  <2>2. UNCHANGED accepted => (accepted \in [Provider -> SUBSET Token])'
    BY <1>t
  <2>3. QED
    BY <2>1, <2>2 DEF ShortFormNext, Publish, Refused, Initiate, SendBody, BodyTaken, SendFinish, Finished, Rejected,
       Lost, CheckFailed, PollComplete, PollAgain, PollUndecided, ReelConfirmed, Leave, Tell, Moderate, ProcessingFails
<1>5. (adapter \in [Run -> [at : At, polls : 0..Polls]])'
  <2>1. ASSUME NEW r \in Run, NEW at \in At, Step(r, at) PROVE (adapter \in [Run -> [at : At, polls : 0..Polls]])'
    BY <1>t, <2>1, AdapterUpdates DEF Step
  <2>2. ASSUME NEW r \in Run, Leave(r) PROVE (adapter \in [Run -> [at : At, polls : 0..Polls]])'
    BY <1>t, <2>2, FreshType DEF Leave
  <2>3. ASSUME NEW r \in Run, PollAgain(r) PROVE (adapter \in [Run -> [at : At, polls : 0..Polls]])'
    BY <1>t, <2>3, AdapterUpdates DEF PollAgain
  <2>4. UNCHANGED adapter => (adapter \in [Run -> [at : At, polls : 0..Polls]])'
    BY <1>t
  <2>5. QED
    BY <2>1, <2>2, <2>3, <2>4 DEF ShortFormNext, Publish, Refused, Initiate, SendBody, BodyTaken, SendFinish, Finished,
       Rejected, Lost, CheckFailed, PollComplete, PollUndecided, ReelConfirmed, Accept, Moderate, ProcessingFails, At
<1>6. QED
  BY <1>1, <1>2, <1>3, <1>4, <1>5 DEF ShortFormTypeOK

-----------------------------------------------------------------------------
\* One invocation at a time, also when a reel is confirmed or fails later.
LEMMA ClaimsStep ==
  ASSUME ShortFormInv, ShortFormNext
  PROVE  StatelessClaims'
<1>t. TypeOK /\ StatelessClaims /\ \A p \in Provider : p \in Provider \ Resumable /\ StatelessInv(p)
  BY DEF ShortFormInv, ShortFormTypeOK, StatelessClaims
<1>1. ASSUME NEW r \in Run, Invocation(r) PROVE StatelessClaims'
  BY <1>t, <1>1, StatelessOwn, StatelessOther DEF StatelessClaims
<1>2. ASSUME UNCHANGED vars PROVE StatelessClaims'
  BY <1>t, <1>2 DEF StatelessClaims, StatelessInv, Holds, Live, vars
<1>3. ASSUME NEW r \in Run, ReelConfirmed(r) PROVE StatelessClaims'
  <2>1. /\ run[r].pc = "adapter" /\ UNCHANGED <<row, upload>>
        /\ Answer(r, "success") /\ "success" \in Result
    BY <1>3 DEF ReelConfirmed, IsAt, Result
  <2>2. \A p \in Provider : Live(p)' = Live(p)
    BY <2>1 DEF Live
  <2>3. ASSUME NEW p \in Provider, p = run[r].p PROVE StatelessInv(p)'
    BY <1>t, <2>1, <2>2, <2>3, StatelessAnswered
  <2>4. ASSUME NEW p \in Provider, p # run[r].p PROVE StatelessInv(p)'
    <3>1. run'[r].p # p /\ \A q \in Run \ {r} : run'[q] = run[q]
      BY <1>t, <2>1, <2>4 DEF Answer, TypeOK, Local
    <3>2. QED
      BY <1>t, <2>1, <2>2, <3>1, StatelessLeft DEF StatelessInv
  <2>5. QED
    BY <2>3, <2>4 DEF StatelessClaims
<1>4. ASSUME NEW b \in Provider, NEW t \in Token, ProcessingFails(b, t) PROVE StatelessClaims'
  <2>1. \A p \in Provider : Live(p)' \subseteq Live(p)
    BY <1>t, <1>4 DEF ProcessingFails, Live, TypeOK
  <2>2. QED
    BY <1>t, <1>4, <2>1, StatelessShrinks DEF ProcessingFails, StatelessClaims
<1>5. World => StatelessClaims'
  BY <1>t, StatelessWorld DEF StatelessClaims
<1>6. QED
  BY <1>1, <1>2, <1>3, <1>4, <1>5, PublishStep DEF ShortFormNext, Invocation, World, Accept, Moderate

\* Being at a step of publish means holding the upload that step is about.
LEMMA AdapterStep ==
  ASSUME ShortFormInv, ShortFormNext
  PROVE  \A r \in Run : AdapterInv(r)'
<1>t. /\ TypeOK /\ adapter \in [Run -> [at : At, polls : 0..Polls]]
      /\ accepted \in [Provider -> SUBSET Token]
      /\ \A r \in Run : run[r] \in Local /\ AdapterInv(r)
  BY DEF ShortFormInv, ShortFormTypeOK, TypeOK
<1>s. ASSUME NEW q \in Run, run'[q] = run[q], adapter'[q] = adapter[q], UNCHANGED polled,
             \A p \in Provider : accepted[p] \subseteq accepted'[p]
      PROVE  AdapterInv(q)'
  BY <1>t, <1>s, LocalType DEF AdapterInv, IsPolled
<1>m. polled' = polled /\ \A p \in Provider : accepted[p] \subseteq accepted'[p]
  BY <1>t DEF ShortFormNext, Publish, Refused, Initiate, SendBody, BodyTaken, SendFinish, Finished, Rejected, Lost,
      CheckFailed, PollComplete, PollAgain, PollUndecided, ReelConfirmed, Leave, Tell, Accept, Moderate, ProcessingFails
<1>1. ASSUME NEW r \in Run, Publish(r) \/ (Pipeline(r) /\ Leave(r))
      PROVE  \A q \in Run : AdapterInv(q)'
  <2>1. \A q \in Run \ {r} : adapter'[q] = adapter[q]
    BY <1>t, <1>1 DEF Publish, Refused, Initiate, SendBody, BodyTaken, SendFinish, Finished, Rejected, Lost,
       CheckFailed, PollComplete, PollAgain, PollUndecided, ReelConfirmed, Leave, Step
  <2>2. \A q \in Run \ {r} : run'[q] = run[q]
    <3>1. CASE Invocation(r)
      BY <1>t, <3>1, OthersStay
    <3>2. CASE UNCHANGED vars \/ ReelConfirmed(r)
      BY <1>t, <3>2 DEF vars, ReelConfirmed, Answer, TypeOK
    <3>3. QED
      BY <1>1, <3>1, <3>2, PublishStep DEF Invocation
  <2>3. AdapterInv(r)'
    <3>a. ASSUME NEW result \in Result, Answer(r, result), Leave(r) PROVE AdapterInv(r)'
      BY <1>t, <3>a DEF Answer, Leave, TypeOK, Local, AdapterInv, Fresh
    <3>1. CASE \/ Refused(r) \/ Rejected(r) \/ Lost(r) \/ CheckFailed(r) \/ PollComplete(r)
               \/ PollUndecided(r) \/ ReelConfirmed(r)
      BY <3>1, <3>a DEF Refused, Rejected, Lost, CheckFailed, PollComplete, PollUndecided,
         ReelConfirmed, AnswerFailure, AnswerAmbiguous, Result
    <3>2. CASE Initiate(r)
      <4>1. PICK t \in Token : run' = [run EXCEPT ![r].token = t]
        BY <3>2 DEF Initiate, OpenSession
      <4>2. run'[r].pc = "adapter" /\ run'[r].token # NoToken /\ adapter'[r].at = "started"
        BY <1>t, <3>2, <4>1 DEF Initiate, IsAt, Step, TypeOK, Local, Token, NoToken
      <4>3. QED
        BY <4>2 DEF AdapterInv
    <3>3. CASE SendBody(r) \/ BodyTaken(r) \/ SendFinish(r) \/ Finished(r)
      <4>1. PICK at \in {"sent", "finishing", "check"} :
              /\ Step(r, at) /\ UNCHANGED run
              /\ at = "check" => IsPolled(r) \/ run[r].token \in accepted[run[r].p]
        BY <3>3 DEF SendBody, BodyTaken, SendFinish, Finished, Tell, vars
      <4>2. run[r].pc = "adapter" /\ adapter[r].at # "start"
        BY <3>3 DEF SendBody, BodyTaken, SendFinish, Finished, IsAt
      <4>3. adapter'[r].at = at
        BY <1>t, <4>1 DEF Step
      <4>4. QED
        BY <1>t, <1>m, <4>1, <4>2, <4>3, LocalType DEF AdapterInv, IsPolled
    <3>4. CASE PollAgain(r)
      <4>1. UNCHANGED run /\ adapter'[r].at = adapter[r].at
        BY <1>t, <3>4 DEF PollAgain, vars
      <4>2. QED
        BY <1>t, <1>m, <4>1, LocalType DEF AdapterInv, IsPolled
    <3>5. CASE Pipeline(r) /\ Leave(r)
      <4>1. adapter'[r].at = "start"
        BY <1>t, <3>5 DEF Leave, Fresh
      <4>2. run'[r].pc = "adapter" => run'[r].token = NoToken
        <5>1. CASE ClaimNew(r) \/ ClaimFailed(r)
          <6>1. run[r].pc = "claim" /\ Goto(r, "adapter")
            BY <5>1 DEF ClaimNew, ClaimFailed
          <6>2. run[r].token = NoToken
            BY <1>t, <6>1, LocalType DEF ShortFormInv, StatelessClaims, StatelessInv
          <6>3. QED
            BY <1>t, <6>1, <6>2 DEF Goto, TypeOK, Local
        <5>2. CASE Return(r) \/ \E pc \in {"thumbnail", "thumbnailing"} : Goto(r, pc)
          BY <1>t, <5>2 DEF Return, Goto, Idle, TypeOK, Local
        <5>3. CASE \E b \in Provider : BeginPublished(r, b) \/ BeginInterrupted(r, b) \/ BeginAttempt(r, b)
          <6>1. PICK b \in Provider, pc \in {"thumbnail", "interrupt", "claim"},
                     visibility \in {"default", "public"} : Begin(r, b, pc, visibility)
            BY <5>3 DEF BeginPublished, BeginInterrupted, BeginAttempt
          <6>2. run'[r].pc = pc
            BY <1>t, <6>1, IdleType DEF Begin, TypeOK, Local
          <6>3. QED
            BY <6>2
        <5>4. QED
          BY <3>5, <5>1, <5>2, <5>3, NothingToResume
             DEF Pipeline, MarkInterrupted, ClaimRaced, SettleFailure, SettleAmbiguous, SettleMismatch,
                 SettlePublished, ThumbnailStart, ThumbnailSkip, ThumbnailEnd, Crash
      <4>3. QED
        BY <4>1, <4>2 DEF AdapterInv
    <3>6. QED
      BY <1>1, <3>1, <3>2, <3>3, <3>4, <3>5 DEF Publish
  <2>4. QED
    BY <1>m, <1>s, <2>1, <2>2, <2>3
<1>2. UNCHANGED <<run, adapter>> => \A q \in Run : AdapterInv(q)'
  BY <1>m, <1>s
<1>3. QED
  BY <1>1, <1>2
     DEF ShortFormNext, Accept, Moderate, ProcessingFails, Complete, Expire, Owner, SetGrant, Reactivate,
         GateChanges, FinalCompliance

\* An item is accepted before it is shown, and an answer says yes only of an
\* upload that is done, or of a reel whose finish was confirmed.
LEMMA AcceptedStep ==
  ASSUME ShortFormInv, ShortFormNext
  PROVE  AcceptedInv'
<1>t. TypeOK /\ AcceptedInv /\ accepted \in [Provider -> SUBSET Token]
  BY DEF ShortFormInv, ShortFormTypeOK
<1>p. \A q \in Run : run[q].p \in Provider /\ run[q] \in Local
  BY <1>t, LocalType DEF TypeOK
<1>1. ASSUME NEW r \in Run, Invocation(r), UNCHANGED accepted PROVE AcceptedInv'
  <2>1. \A p \in Provider : Items(p)' \subseteq accepted'[p]
    BY <1>t, <1>1, InvocationKeepsItems DEF AcceptedInv
  <2>2. \A p \in Provider : SaysDelivered(row'[p]) => accepted'[p] # {}
    BY <1>t, <1>1, DeliveredFromAnswer DEF AcceptedInv
  <2>3. ASSUME NEW q \in Run, Confirms(run'[q]) PROVE accepted'[run'[q].p] # {}
    <3>1. run'[q].p = run[q].p /\ (Confirms(run[q]) \/ Items(run[q].p) # {})
      BY <1>t, <1>1, <2>3, ConfirmedFromItem
    <3>2. QED
      BY <1>t, <1>p, <1>1, <3>1 DEF AcceptedInv
  <2>4. QED
    BY <2>1, <2>2, <2>3 DEF AcceptedInv
<1>2. ASSUME UNCHANGED <<row, run>>, \A p \in Provider : accepted[p] \subseteq accepted'[p],
             \A p \in Provider : Items(p)' \subseteq accepted'[p]
      PROVE  AcceptedInv'
  BY <1>t, <1>p, <1>2 DEF AcceptedInv
<1>3. ASSUME NEW r \in Run, ReelConfirmed(r) PROVE AcceptedInv'
  <2>1. run[r].token \in accepted[run[r].p] /\ UNCHANGED <<row, upload, accepted>> /\ Answer(r, "success")
    BY <1>3 DEF ReelConfirmed, IsAt, Leave, ShortFormInv, AdapterInv
  <2>2. \A q \in Run : run'[q].p = run[q].p /\ (q # r => run'[q] = run[q])
    BY <1>t, <1>p, <2>1 DEF Answer, TypeOK, Local
  <2>3. \A q \in Run : Confirms(run'[q]) => accepted[run[q].p] # {}
    BY <1>t, <2>1, <2>2 DEF AcceptedInv
  <2>4. \A p \in Provider : Items(p)' = Items(p)
    BY <2>1 DEF Items
  <2>5. QED
    BY <1>t, <2>1, <2>2, <2>3, <2>4 DEF AcceptedInv
<1>4. ASSUME NEW r \in Run, Publish(r) PROVE AcceptedInv'
  <2>1. UNCHANGED accepted
    BY <1>4 DEF Publish, Refused, Initiate, SendBody, BodyTaken, SendFinish, Finished, Rejected, Lost,
       CheckFailed, PollComplete, PollAgain, PollUndecided, ReelConfirmed, Leave, Tell
  <2>2. CASE UNCHANGED vars
    <3>1. \A p \in Provider : Items(p)' = Items(p)
      BY <2>2 DEF Items, vars
    <3>2. QED
      BY <1>t, <1>2, <2>1, <2>2, <3>1 DEF AcceptedInv, vars
  <2>3. QED
    BY <1>1, <1>3, <1>4, <2>1, <2>2, PublishStep
<1>5. ASSUME NEW r \in Run, Pipeline(r) /\ Leave(r) PROVE AcceptedInv'
  BY <1>1, <1>5 DEF Invocation, Leave
<1>6. ASSUME NEW p \in Provider, NEW t \in Token, Accept(p, t) PROVE AcceptedInv'
  <2>1. /\ UNCHANGED <<row, run>>
        /\ upload' = [upload EXCEPT ![p][t] = "done"]
        /\ accepted' = [accepted EXCEPT ![p] = @ \cup {t}]
    BY <1>6 DEF Accept, Complete
  <2>2. \A b \in Provider : Items(b)' \subseteq accepted'[b] /\ accepted[b] \subseteq accepted'[b]
    BY <1>t, <2>1 DEF AcceptedInv, Items, TypeOK
  <2>3. QED
    BY <1>2, <2>1, <2>2
<1>7. ASSUME NEW p \in Provider, NEW t \in Token, Moderate(p, t) \/ ProcessingFails(p, t) PROVE AcceptedInv'
  <2>1. /\ UNCHANGED <<row, run, accepted>>
        /\ upload' = [upload EXCEPT ![p][t] = "dead"]
    BY <1>7 DEF Moderate, Expire, ProcessingFails
  <2>2. \A b \in Provider : Items(b)' \subseteq Items(b)
    BY <1>t, <2>1 DEF Items, TypeOK
  <2>3. QED
    BY <1>t, <1>2, <2>1, <2>2 DEF AcceptedInv
<1>8. ASSUME Owner \/ FinalCompliance, UNCHANGED accepted PROVE AcceptedInv'
  <2>1. UNCHANGED <<row, run, upload>>
    BY <1>8 DEF Owner, SetGrant, Reactivate, GateChanges, FinalCompliance
  <2>2. \A p \in Provider : Items(p)' = Items(p)
    BY <2>1 DEF Items
  <2>3. QED
    BY <1>t, <1>2, <1>8, <2>1, <2>2 DEF AcceptedInv
<1>9. QED
  BY <1>4, <1>5, <1>6, <1>7, <1>8 DEF ShortFormNext

-----------------------------------------------------------------------------
LEMMA ShortFormInvariant == ASSUME Resumable = {} PROVE ShortFormSpec => []ShortFormInv
<1>1. ShortFormInv /\ [ShortFormNext]_shortFormVars => ShortFormInv'
  <2>1. ASSUME ShortFormInv, UNCHANGED shortFormVars PROVE ShortFormInv'
    <3>1. ShortFormTypeOK'
      BY <2>1 DEF shortFormVars, vars, ShortFormInv, ShortFormTypeOK, TypeOK
    <3>2. StatelessClaims' /\ AcceptedInv'
      BY <2>1 DEF shortFormVars, vars, ShortFormInv, StatelessClaims, StatelessInv, Holds, Live, AcceptedInv, Items
    <3>3. \A r \in Run : AdapterInv(r)'
      BY <2>1 DEF shortFormVars, vars, ShortFormInv, AdapterInv, IsPolled
    <3>4. QED
      BY <2>1, <3>1, <3>2, <3>3 DEF ShortFormInv
  <2>2. QED
    BY <2>1, ShortFormTypeStep, ClaimsStep, AcceptedStep, AdapterStep DEF ShortFormInv
<1>2. QED
  BY <1>1, ShortFormInvInit, PTL DEF ShortFormSpec

\* Every reachable state of the adapters without sessions is well typed.
THEOREM ShortFormTypeCorrect == ASSUME Resumable = {} PROVE ShortFormSpec => []ShortFormTypeOK
<1>1. ShortFormInv => ShortFormTypeOK
  BY DEF ShortFormInv
<1>2. QED
  BY <1>1, ShortFormInvariant, PTL

\* TikTok and Facebook show a content version at most once, however many
\* live processes race for the claim and whatever request loses its answer.
THEOREM ShortFormPublishedOnce == ASSUME Resumable = {} PROVE ShortFormSpec => []StatelessOnlyOnce
<1>1. ShortFormInv => StatelessOnlyOnce
  BY DEF ShortFormInv, StatelessClaims, StatelessInv, StatelessOnlyOnce, Live, Items
<1>2. QED
  BY <1>1, ShortFormInvariant, PTL

\* A row says PUBLISHED only of an upload the provider accepted, and one that
\* may be claimed again stands for nothing the provider could still show.
THEOREM ShortFormAnswersAreTrue == ASSUME Resumable = {} PROVE ShortFormSpec => []AnswersAreTrue
<1>1. ShortFormInv => AnswersAreTrue
  BY DEF ShortFormInv, StatelessClaims, StatelessInv, AcceptedInv, SaysDelivered, AnswersAreTrue
<1>2. QED
  BY <1>1, ShortFormInvariant, PTL
=============================================================================
