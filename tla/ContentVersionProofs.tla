------------------------ MODULE ContentVersionProofs ------------------------
(***************************************************************************)
(* Proofs about ContentVersion, for any number of processes, scripts and   *)
(* renders, with regeneration and forced fact checks.                      *)
(***************************************************************************)
EXTENDS ContentVersion, TLAPS

-----------------------------------------------------------------------------
(* Types.                                                                  *)

LEMMA NoContentIsNone == NoContent \notin Content /\ NoContent.script = 0
  BY ContentAssumption DEF ContentAssumption, NoContent, NoScript, Content, Script

LEMMA IdleType == Idle \in Local
  BY DEF Idle, Working, Local, Pc, State, BeforeGate1, Verdict

\* A value that enters a comparison of verdicts and the worst of them.
LEMMA WorstType ==
  ASSUME NEW V \in SUBSET Verdict
  PROVE  Worst(V) \in Verdict /\ (Worst(V) = "PASS" => \A v \in V : v = "PASS")
  BY DEF Worst, Verdict

\* What the begin of a stage and its next step leave in the process.
LEMMA WorkingType ==
  ASSUME NEW pc \in Pc, NEW s \in Script \cup {NoScript}
  PROVE  /\ Working(pc, s) \in Local
         /\ Working(pc, s).pc = pc /\ Working(pc, s).script = s
         /\ \A v \in Verdict : /\ [Working(pc, s) EXCEPT !.verdict = v] \in Local
                               /\ [Working(pc, s) EXCEPT !.verdict = v].pc = pc
                               /\ [Working(pc, s) EXCEPT !.verdict = v].script = s
                               /\ [Working(pc, s) EXCEPT !.verdict = v].verdict = v
  BY DEF Working, Local, State, BeforeGate1, Verdict

LEMMA LocalUpdates ==
  ASSUME NEW l \in Local, NEW pc \in Pc
  PROVE  /\ [l EXCEPT !.pc = pc] \in Local
         /\ [l EXCEPT !.pc = pc].pc = pc
         /\ [l EXCEPT !.pc = pc].script = l.script
         /\ [l EXCEPT !.pc = pc].content = l.content
         /\ [l EXCEPT !.pc = pc].verdict = l.verdict
         /\ [l EXCEPT !.pc = pc].from = l.from
  BY DEF Local

LEMMA ContentUpdate ==
  ASSUME NEW l \in Local, NEW pc \in Pc, NEW c \in Content \cup {NoContent}
  PROVE  /\ [l EXCEPT !.pc = pc, !.content = c] \in Local
         /\ [l EXCEPT !.pc = pc, !.content = c].pc = pc
         /\ [l EXCEPT !.pc = pc, !.content = c].script = l.script
  BY DEF Local

LEMMA InitType == Init => TypeOK
<1> SUFFICES ASSUME Init PROVE TypeOK
  OBVIOUS
<1>1. state \in State
  BY DEF Init, State, BeforeGate1
<1>2. retry \in [RetryStage -> 0..RetryCap]
  BY ContentAssumption DEF ContentAssumption, Init
<1>3. record \in Record
  BY DEF Init, Record, NoRecord
<1>4. proc \in [Proc -> Local]
  BY IdleType DEF Init
<1>5. QED
  BY <1>1, <1>2, <1>3, <1>4 DEF Init, TypeOK

\* A stage writes the local state of its own process alone.
LEMMA OthersStay ==
  ASSUME TypeOK, NEW p \in Proc, Stage(p)
  PROVE  \A q \in Proc \ {p} : proc'[q] = proc[q]
<1>1. (\E l : proc' = [proc EXCEPT ![p] = l]) => \A q \in Proc \ {p} : proc'[q] = proc[q]
  BY DEF TypeOK
<1>2. ASSUME Editorial(p) PROVE \E l : proc' = [proc EXCEPT ![p] = l]
  BY <1>2 DEF Editorial, ScriptBegin, ScriptExhausted, ScriptAccepted, ScriptPersist,
     FactCheckBegin, FactCheckCommit, OriginalityBegin, OriginalityCommit, GateBegin,
     GateCommit, RefuseStale, Start, Goto, Return
<1>3. ASSUME Making(p) PROVE \E l : proc' = [proc EXCEPT ![p] = l]
  BY <1>3 DEF Making, ProductionBegin, BlockCommit, ManifestFailed, ProductionCommit,
     RenderBegin, RenderPromote, RenderHash, RenderInsert, Start, Goto, Return
<1>4. ASSUME Releasing(p) \/ Crash(p) PROVE \E l : proc' = [proc EXCEPT ![p] = l]
  BY <1>4 DEF Releasing, Crash, ComplyBegin, ComplyCommit, BoundaryPass, Upload, Settle,
     Start, Goto, Return
<1>5. QED
  BY <1>1, <1>2, <1>3, <1>4 DEF Stage

LEMMA LocalTypeStep ==
  ASSUME TypeOK, NEW p \in Proc, Stage(p)
  PROVE  proc' \in [Proc -> Local]
<1>1. (\E l \in Local : proc' = [proc EXCEPT ![p] = l]) => proc' \in [Proc -> Local]
  BY DEF TypeOK
<1>2. proc[p] \in Local /\ script \in Script \cup {NoScript}
  BY DEF TypeOK
<1>3. \A pc \in Pc : Goto(p, pc) => proc' = [proc EXCEPT ![p] = [proc[p] EXCEPT !.pc = pc]]
  BY DEF Goto
<1>4. \A pc \in Pc : Goto(p, pc) => \E l \in Local : proc' = [proc EXCEPT ![p] = l]
  BY <1>2, <1>3, LocalUpdates
<1>5. Return(p) => \E l \in Local : proc' = [proc EXCEPT ![p] = l]
  BY IdleType DEF Return
<1>6. \A l \in Local : Start(p, l) => \E m \in Local : proc' = [proc EXCEPT ![p] = m]
  BY DEF Start
<1>7. \A pc \in Pc : Start(p, Working(pc, script)) \/ Start(p, Working(pc, NoScript))
                       => \E l \in Local : proc' = [proc EXCEPT ![p] = l]
  BY <1>2, <1>6, WorkingType
<1>8. ASSUME Editorial(p) PROVE \E l \in Local : proc' = [proc EXCEPT ![p] = l]
  <2>1. CASE GateBegin(p)
    <3>1. PICK v : v \in Verdict /\ Start(p, [Working("gate", script) EXCEPT !.verdict = v])
      <4>1. PICK rights \in Verdict :
              Start(p, [Working("gate", script) EXCEPT !.verdict =
                   Worst({FactCheckResult(script), OriginalityResult(script), rights})])
        BY <2>1 DEF GateBegin
      <4>2. {FactCheckResult(script), OriginalityResult(script), rights} \in SUBSET Verdict
        BY DEF FactCheckResult, OriginalityResult, Verdict
      <4>3. QED
        BY <4>1, <4>2, WorstType
    <3>2. QED
      BY <1>2, <1>6, <3>1, WorkingType DEF Pc
  <2>2. CASE ScriptBegin(p) \/ FactCheckBegin(p) \/ OriginalityBegin(p)
    BY <1>7, <2>2 DEF ScriptBegin, FactCheckBegin, OriginalityBegin, Pc
  <2>3. CASE ScriptAccepted(p)
    BY <1>4, <2>3 DEF ScriptAccepted, Pc
  <2>4. QED
    BY <1>5, <1>8, <2>1, <2>2, <2>3 DEF Editorial, ScriptExhausted, ScriptPersist,
       FactCheckCommit, OriginalityCommit, GateCommit, RefuseStale
<1>9. ASSUME Making(p) PROVE \E l \in Local : proc' = [proc EXCEPT ![p] = l]
  <2>1. CASE RenderHash(p)
    <3>1. [proc[p] EXCEPT !.pc = "insert", !.content = file] \in Local
      <4>1. file \in Content \cup {NoContent} /\ "insert" \in Pc
        BY DEF TypeOK, Pc
      <4>2. QED
        BY <1>2, <4>1, ContentUpdate
    <3>2. proc' = [proc EXCEPT ![p] = [proc[p] EXCEPT !.pc = "insert", !.content = file]]
      BY <2>1 DEF RenderHash
    <3>3. QED
      BY <3>1, <3>2
  <2>2. CASE ProductionBegin(p) \/ RenderBegin(p)
    BY <1>7, <2>2 DEF ProductionBegin, RenderBegin, Pc
  <2>3. CASE RenderPromote(p)
    BY <1>4, <2>3 DEF RenderPromote, Pc
  <2>4. QED
    BY <1>5, <1>9, <2>1, <2>2, <2>3
       DEF Making, BlockCommit, ManifestFailed, ProductionCommit, RenderInsert
<1>10. ASSUME Releasing(p) PROVE \E l \in Local : proc' = [proc EXCEPT ![p] = l]
  <2>1. CASE ComplyBegin(p)
    <3>1. PICK v : v \in Verdict /\ Start(p, [pc |-> "comply", script |-> script, content |-> media,
                                              from |-> state, verdict |-> v])
      <4>1. PICK others \in Verdict :
              Start(p, [pc |-> "comply", script |-> script, content |-> media, from |-> state,
                        verdict |-> Worst({Integrity, Consistency, Provenance, others})])
        BY <2>1 DEF ComplyBegin
      <4>2. {Integrity, Consistency, Provenance, others} \in SUBSET Verdict
        BY DEF Integrity, Consistency, Provenance, Verdict
      <4>3. QED
        BY <4>1, <4>2, WorstType
    <3>2. [pc |-> "comply", script |-> script, content |-> media, from |-> state, verdict |-> v] \in Local
      BY <3>1 DEF Local, TypeOK, Pc
    <3>3. QED
      BY <1>6, <3>1, <3>2
  <2>2. CASE BoundaryPass(p)
    BY <1>7, <2>2 DEF BoundaryPass, Pc
  <2>3. CASE Upload(p)
    BY <1>4, <2>3 DEF Upload, Pc
  <2>4. QED
    BY <1>5, <1>10, <2>1, <2>2, <2>3 DEF Releasing, ComplyCommit, Settle
<1>11. QED
  BY <1>1, <1>5, <1>8, <1>9, <1>10 DEF Stage, Crash

\* Whoever works on a script works on one that was persisted.
ScriptStages == {"factcheck", "originality", "gate", "block", "produce", "render", "hash",
                 "insert", "comply", "upload"}
WorksOnScript ==
  \A p \in Proc : proc[p].pc \in ScriptStages => 1 <= proc[p].script /\ proc[p].script <= script

LEMMA StageType ==
  ASSUME TypeOK, WorksOnScript, NEW p \in Proc, Stage(p)
  PROVE  TypeOK'
<1> USE ContentAssumption DEF ContentAssumption
<1>1. proc' \in [Proc -> Local]
  BY LocalTypeStep
<1>2. /\ proc[p].script \in Script \cup {NoScript} /\ proc[p].content \in Content \cup {NoContent}
      /\ proc[p].verdict \in Verdict /\ proc[p].from \in State
  BY DEF TypeOK, Local
<1>3. \A a, b \in State : Advance(a, b) => state' \in State
  BY DEF TypeOK, Advance
<1>4. \A g \in RetryStage : RecordFailedAttempt(g) => retry' \in [RetryStage -> 0..RetryCap]
  BY DEF TypeOK, RecordFailedAttempt, IsQuarantined
<1>5. \A v \in Verdict : Gate1Target(v) \in State /\ Gate2Target(v) \in State
  BY DEF Verdict, Gate1Target, Gate2Target, State, BeforeGate1, AfterGate2, Refused
<1>6. ASSUME Editorial(p) PROVE TypeOK'
  <2>1. state' \in State
    <3>1. CASE ScriptPersist(p)
      BY <3>1 DEF ScriptPersist, TypeOK, State, BeforeGate1
    <3>2. CASE FactCheckCommit(p) \/ OriginalityCommit(p)
      BY <1>3, <3>2 DEF FactCheckCommit, OriginalityCommit, State, BeforeGate1, Refused
    <3>3. CASE GateCommit(p)
      BY <1>2, <1>3, <1>5, <3>3 DEF GateCommit, State, BeforeGate1
    <3>4. QED
      BY <1>6, <3>1, <3>2, <3>3 DEF Editorial, ScriptBegin, ScriptExhausted, ScriptAccepted,
         FactCheckBegin, OriginalityBegin, GateBegin, RefuseStale, TypeOK
  <2>2. script' \in Script \cup {NoScript} /\ accepted' \in 0..2
    BY <1>6 DEF Editorial, ScriptBegin, ScriptExhausted, ScriptAccepted, ScriptPersist,
       FactCheckBegin, FactCheckCommit, OriginalityBegin, OriginalityCommit, GateBegin,
       GateCommit, RefuseStale, TypeOK, editorial, Script, NoScript
  <2>3. check' \in [Script -> {"NONE", "PASS", "REVIEW", "REJECT"}]
    BY <1>6 DEF Editorial, ScriptBegin, ScriptExhausted, ScriptAccepted, ScriptPersist,
       FactCheckBegin, FactCheckCommit, OriginalityBegin, OriginalityCommit, GateBegin,
       GateCommit, RefuseStale, TypeOK, editorial
  <2>4. original' \subseteq Script /\ gated' \subseteq Script
    <3>1. OriginalityCommit(p) \/ GateCommit(p) => script \in Script
      BY <1>2 DEF OriginalityCommit, GateCommit, WorksOnScript, ScriptStages, Script, NoScript
    <3>2. QED
      BY <1>6, <3>1 DEF Editorial, ScriptBegin, ScriptExhausted, ScriptAccepted, ScriptPersist,
       FactCheckBegin, FactCheckCommit, OriginalityBegin, OriginalityCommit, GateBegin,
       GateCommit, RefuseStale, TypeOK, editorial
  <2>5. retry' \in [RetryStage -> 0..RetryCap]
    BY <1>4, <1>6 DEF Editorial, ScriptBegin, ScriptExhausted, ScriptAccepted, ScriptPersist,
       FactCheckBegin, FactCheckCommit, OriginalityBegin, OriginalityCommit, GateBegin,
       GateCommit, RefuseStale, TypeOK, RetryStage
  <2>6. UNCHANGED <<production, media, file, record, uploaded>>
    BY <1>6 DEF Editorial, ScriptBegin, ScriptExhausted, ScriptAccepted, ScriptPersist,
       FactCheckBegin, FactCheckCommit, OriginalityBegin, OriginalityCommit, GateBegin,
       GateCommit, RefuseStale, artifacts, release
  <2>7. QED
    BY <1>1, <2>1, <2>2, <2>3, <2>4, <2>5, <2>6 DEF TypeOK
<1>7. ASSUME Making(p) PROVE TypeOK'
  <2>1. state' \in State /\ production' \in Script \cup {NoScript}
    BY <1>7 DEF Making, ProductionBegin, BlockCommit, ManifestFailed, ProductionCommit,
       RenderBegin, RenderPromote, RenderHash, RenderInsert, TypeOK, State, Refused, artifacts
  <2>2. retry' \in [RetryStage -> 0..RetryCap]
    BY <1>4, <1>7 DEF Making, ProductionBegin, BlockCommit, ManifestFailed, ProductionCommit,
       RenderBegin, RenderPromote, RenderHash, RenderInsert, TypeOK, RetryStage
  <2>3. media' \in Content \cup {NoContent}
    BY <1>2, <1>7 DEF Making, ProductionBegin, BlockCommit, ManifestFailed, ProductionCommit,
       RenderBegin, RenderPromote, RenderHash, RenderInsert, TypeOK, artifacts
  <2>4. UNCHANGED <<editorial, release>>
    BY <1>7 DEF Making, ProductionBegin, BlockCommit, ManifestFailed, ProductionCommit,
       RenderBegin, RenderPromote, RenderHash, RenderInsert
  <2>5. file' \in Content \cup {NoContent}
    <3>1. CASE RenderPromote(p)
      BY <1>2, <3>1 DEF RenderPromote, WorksOnScript, ScriptStages, Content, Script, NoScript
    <3>2. QED
      BY <1>7, <3>1 DEF Making, ProductionBegin, BlockCommit, ManifestFailed,
         ProductionCommit, RenderBegin, RenderHash, RenderInsert, TypeOK, artifacts
  <2>6. QED
    BY <1>1, <2>1, <2>2, <2>3, <2>4, <2>5 DEF TypeOK, editorial, release
<1>8. ASSUME Releasing(p) PROVE TypeOK'
  <2>1. state' \in State /\ record' \in Record
    <3>1. CASE ComplyCommit(p)
      BY <1>2, <1>5, <3>1 DEF ComplyCommit, TypeOK, Record
    <3>2. CASE Settle(p)
      BY <1>3, <3>2 DEF Settle, State, AfterGate2, TypeOK, release
    <3>3. QED
      BY <1>8, <3>1, <3>2 DEF Releasing, ComplyBegin, BoundaryPass, Upload, TypeOK, release
  <2>2. uploaded' \subseteq Content \cup {NoContent}
    BY <1>8 DEF Releasing, ComplyBegin, ComplyCommit, BoundaryPass, Upload, Settle, TypeOK, release
  <2>3. UNCHANGED <<retry, editorial, artifacts>>
    BY <1>8 DEF Releasing, ComplyBegin, ComplyCommit, BoundaryPass, Upload, Settle
  <2>4. QED
    BY <1>1, <2>1, <2>2, <2>3 DEF TypeOK, editorial, artifacts
<1>9. ASSUME Crash(p) PROVE TypeOK'
  BY <1>1, <1>9 DEF Crash, TypeOK, editorial, artifacts, release
<1>10. QED
  BY <1>6, <1>7, <1>8, <1>9 DEF Stage

-----------------------------------------------------------------------------
(* How a stage moves its process.                                          *)

LEMMA Moves ==
  ASSUME TypeOK, NEW p \in Proc
  PROVE  /\ \A l : Start(p, l) => proc[p].pc = "idle" /\ proc'[p] = l
         /\ \A pc \in Pc : Goto(p, pc) =>
              /\ proc'[p].pc = pc /\ proc'[p].script = proc[p].script
              /\ proc'[p].verdict = proc[p].verdict
         /\ Return(p) => proc'[p].pc = "idle"
<1>1. \A l : Start(p, l) => proc[p].pc = "idle" /\ proc'[p] = l
  BY DEF Start, TypeOK
<1>2. ASSUME NEW pc \in Pc, Goto(p, pc)
      PROVE  /\ proc'[p].pc = pc /\ proc'[p].script = proc[p].script
             /\ proc'[p].verdict = proc[p].verdict
  <2>1. proc'[p] = [proc[p] EXCEPT !.pc = pc]
    BY <1>2 DEF Goto, TypeOK
  <2>2. QED
    BY <2>1, LocalUpdates DEF TypeOK
<1>3. Return(p) => proc'[p].pc = "idle"
  BY DEF Return, Idle, Working, TypeOK
<1>4. QED
  BY <1>1, <1>2, <1>3

\* A stage that works on a script took the current one, or goes on with its own.
LEMMA ScriptTaken ==
  ASSUME TypeOK, NEW p \in Proc, Stage(p), proc'[p].pc \in ScriptStages
  PROVE  \/ proc[p].pc \in ScriptStages /\ proc'[p].script = proc[p].script
         \/ /\ proc'[p].script = script /\ proc[p].pc = "idle"
            /\ script # NoScript \/ state # "BRIEF_CREATED"
<1>1. script \in Script \cup {NoScript}
  BY DEF TypeOK
<1>2. \A pc \in Pc : Start(p, Working(pc, script)) =>
        proc[p].pc = "idle" /\ proc'[p].pc = pc /\ proc'[p].script = script
  BY <1>1, Moves, WorkingType
<1>3. ~ Return(p)
  BY Moves DEF ScriptStages
<1>4. ASSUME Editorial(p) PROVE proc'[p].script = script /\ proc[p].pc = "idle" /\ script # NoScript
  <2>1. CASE FactCheckBegin(p) \/ OriginalityBegin(p)
    BY <1>2, <2>1 DEF FactCheckBegin, OriginalityBegin, Pc
  <2>2. CASE GateBegin(p)
    <3>1. PICK v : Start(p, [Working("gate", script) EXCEPT !.verdict = v])
      BY <2>2 DEF GateBegin
    <3>2. proc[p].pc = "idle" /\ proc'[p] = [Working("gate", script) EXCEPT !.verdict = v]
      BY <3>1 DEF Start, TypeOK
    <3>3. [Working("gate", script) EXCEPT !.verdict = v].script = script
      BY DEF Working
    <3>4. QED
      BY <2>2, <3>2, <3>3 DEF GateBegin
  <2>3. ~ ScriptBegin(p) /\ ~ ScriptAccepted(p)
    <3>1. Start(p, Working("generate", NoScript)) => proc'[p].pc = "generate"
      BY Moves, WorkingType DEF Pc
    <3>2. QED
      BY <3>1, Moves DEF ScriptBegin, ScriptAccepted, ScriptStages, Pc
  <2>4. QED
    BY <1>3, <1>4, <2>1, <2>2, <2>3 DEF Editorial, ScriptExhausted, ScriptPersist,
       FactCheckCommit, OriginalityCommit, GateCommit, RefuseStale
<1>5. ASSUME Making(p)
      PROVE  \/ proc[p].pc \in ScriptStages /\ proc'[p].script = proc[p].script
             \/ /\ proc'[p].script = script /\ proc[p].pc = "idle" /\ state # "BRIEF_CREATED"
  <2>1. CASE ProductionBegin(p) \/ RenderBegin(p)
    BY <1>2, <2>1 DEF ProductionBegin, RenderBegin, Pc
  <2>2. CASE RenderPromote(p)
    BY <2>2, Moves DEF RenderPromote, Pc, ScriptStages
  <2>3. CASE RenderHash(p)
    <3>1. proc'[p] = [proc[p] EXCEPT !.pc = "insert", !.content = file]
      BY <2>3 DEF RenderHash, TypeOK
    <3>2. file \in Content \cup {NoContent} /\ "insert" \in Pc /\ proc[p] \in Local
      BY DEF TypeOK, Pc
    <3>3. [proc[p] EXCEPT !.pc = "insert", !.content = file].script = proc[p].script
      BY <3>2 DEF Local
    <3>4. proc'[p].script = proc[p].script
      BY <3>1, <3>3
    <3>5. proc[p].pc = "hash"
      BY <2>3 DEF RenderHash
    <3>6. QED
      BY <3>4, <3>5 DEF ScriptStages
  <2>4. QED
    BY <1>3, <1>5, <2>1, <2>2, <2>3
       DEF Making, BlockCommit, ManifestFailed, ProductionCommit, RenderInsert
<1>6. ASSUME Releasing(p)
      PROVE  \/ proc[p].pc \in ScriptStages /\ proc'[p].script = proc[p].script
             \/ /\ proc'[p].script = script /\ proc[p].pc = "idle" /\ state # "BRIEF_CREATED"
  <2>1. CASE ComplyBegin(p)
    <3>1. PICK v : Start(p, [pc |-> "comply", script |-> script, content |-> media,
                             from |-> state, verdict |-> v])
      BY <2>1 DEF ComplyBegin
    <3>2. proc[p].pc = "idle" /\ proc'[p].script = script
      BY <3>1 DEF Start, TypeOK
    <3>3. QED
      BY <2>1, <3>2 DEF ComplyBegin
  <2>2. CASE BoundaryPass(p)
    BY <1>2, <2>2 DEF BoundaryPass, Authorizing, AfterGate2, Pc
  <2>3. CASE Upload(p)
    BY <2>3, Moves DEF Upload, Pc, ScriptStages
  <2>4. QED
    BY <1>3, <1>6, <2>1, <2>2, <2>3 DEF Releasing, ComplyCommit, Settle
<1>7. QED
  BY <1>3, <1>4, <1>5, <1>6 DEF Stage, Crash

\* The only action that enters each of the stages the invariants speak of.
LEMMA Enters ==
  ASSUME TypeOK, NEW p \in Proc, Stage(p)
  PROVE  /\ proc'[p].pc = "persist" => ScriptAccepted(p)
         /\ proc'[p].pc = "gate" => GateBegin(p)
         /\ proc'[p].pc = "render" => RenderBegin(p)
         /\ proc'[p].pc = "comply" => ComplyBegin(p)
         /\ proc'[p].pc = "upload" => BoundaryPass(p)
<1> DEFINE watched == {"persist", "gate", "render", "comply", "upload"}
<1>1. \A pc \in Pc : Start(p, Working(pc, script)) \/ Start(p, Working(pc, NoScript))
                       => proc'[p].pc = pc
  BY Moves, WorkingType DEF TypeOK
<1>2. CASE GateBegin(p)
  <2>1. PICK v : Start(p, [Working("gate", script) EXCEPT !.verdict = v])
    BY <1>2 DEF GateBegin
  <2>2. proc'[p] = [Working("gate", script) EXCEPT !.verdict = v]
    BY <2>1 DEF Start, TypeOK
  <2>3. proc'[p].pc = "gate"
    BY <2>2 DEF Working
  <2>4. QED
    BY <1>2, <2>3
<1>3. CASE RenderHash(p)
  <2>1. proc'[p] = [proc[p] EXCEPT !.pc = "insert", !.content = file]
    BY <1>3 DEF RenderHash, TypeOK
  <2>2. [proc[p] EXCEPT !.pc = "insert", !.content = file].pc = "insert"
    BY DEF TypeOK, Local
  <2>3. proc'[p].pc \notin watched
    BY <2>1, <2>2
  <2>4. QED
    BY <2>3
<1>4. CASE ComplyBegin(p)
  <2>1. PICK v : Start(p, [pc |-> "comply", script |-> script, content |-> media,
                           from |-> state, verdict |-> v])
    BY <1>4 DEF ComplyBegin
  <2>2. proc'[p].pc = "comply"
    BY <2>1 DEF Start, TypeOK
  <2>3. QED
    BY <1>4, <2>2
<1>5. ASSUME Editorial(p), ~ GateBegin(p), ~ ScriptAccepted(p) PROVE proc'[p].pc \notin watched
  BY <1>1, <1>5, Moves DEF Editorial, ScriptBegin, ScriptExhausted, ScriptPersist,
     FactCheckBegin, FactCheckCommit, OriginalityBegin, OriginalityCommit, GateCommit,
     RefuseStale, Pc
<1>6. CASE ScriptAccepted(p)
  BY <1>6, Moves DEF ScriptAccepted, Pc
<1>7. ASSUME Making(p), ~ RenderHash(p), ~ RenderBegin(p) PROVE proc'[p].pc \notin watched
  BY <1>1, <1>7, Moves DEF Making, ProductionBegin, BlockCommit, ManifestFailed,
     ProductionCommit, RenderPromote, RenderInsert, Pc
<1>8. CASE RenderBegin(p)
  BY <1>1, <1>8 DEF RenderBegin, Pc
<1>9. ASSUME Releasing(p) \/ Crash(p), ~ ComplyBegin(p), ~ BoundaryPass(p) PROVE proc'[p].pc \notin watched
  BY <1>9, Moves DEF Releasing, Crash, ComplyCommit, Upload, Settle, Pc
<1>10. CASE BoundaryPass(p)
  BY <1>1, <1>10 DEF BoundaryPass, Pc
<1>11. QED
  BY <1>2, <1>3, <1>4, <1>5, <1>6, <1>7, <1>8, <1>9, <1>10 DEF Stage

\* What is only ever added to.
LEMMA StageGrows ==
  ASSUME TypeOK, NEW p \in Proc, Stage(p)
  PROVE  /\ script <= script' /\ accepted <= accepted'
         /\ gated \subseteq gated' /\ original \subseteq original'
         /\ \A s \in Script : check[s] # "NONE" => check'[s] # "NONE"
         /\ media # NoContent => media' = media
<1> USE ContentAssumption DEF ContentAssumption
<1>1. script \in Nat /\ accepted \in 0..2
  BY DEF TypeOK, Script, NoScript
<1>2. CASE Editorial(p)
  <2>1. script <= script' /\ accepted <= accepted'
    BY <1>1, <1>2 DEF Editorial, ScriptBegin, ScriptExhausted, ScriptAccepted, ScriptPersist,
       FactCheckBegin, FactCheckCommit, OriginalityBegin, OriginalityCommit, GateBegin,
       GateCommit, RefuseStale, editorial
  <2>2. gated \subseteq gated' /\ original \subseteq original'
    BY <1>2 DEF Editorial, ScriptBegin, ScriptExhausted, ScriptAccepted, ScriptPersist,
       FactCheckBegin, FactCheckCommit, OriginalityBegin, OriginalityCommit, GateBegin,
       GateCommit, RefuseStale, editorial
  <2>3. \A s \in Script : check[s] # "NONE" => check'[s] # "NONE"
    <3>1. CASE FactCheckCommit(p)
      BY <3>1 DEF FactCheckCommit, TypeOK
    <3>2. QED
      BY <1>2, <3>1 DEF Editorial, ScriptBegin, ScriptExhausted, ScriptAccepted, ScriptPersist,
         FactCheckBegin, OriginalityBegin, OriginalityCommit, GateBegin, GateCommit,
         RefuseStale, editorial
  <2>4. media' = media
    BY <1>2 DEF Editorial, ScriptBegin, ScriptExhausted, ScriptAccepted, ScriptPersist,
       FactCheckBegin, FactCheckCommit, OriginalityBegin, OriginalityCommit, GateBegin,
       GateCommit, RefuseStale, artifacts
  <2>5. QED
    BY <2>1, <2>2, <2>3, <2>4
<1>3. CASE Making(p)
  BY <1>1, <1>3 DEF Making, ProductionBegin, BlockCommit, ManifestFailed, ProductionCommit,
     RenderBegin, RenderPromote, RenderHash, RenderInsert, editorial, artifacts
<1>4. CASE Releasing(p) \/ Crash(p)
  BY <1>1, <1>4 DEF Releasing, Crash, ComplyBegin, ComplyCommit, BoundaryPass, Upload, Settle,
     editorial, artifacts
<1>5. QED
  BY <1>2, <1>3, <1>4 DEF Stage

-----------------------------------------------------------------------------
(* Scripts: what has been persisted bounds what anybody works on, what was *)
(* gated and what was rendered.                                            *)

ScriptInv ==
  /\ WorksOnScript
  /\ state # "BRIEF_CREATED" => script # NoScript
  /\ \A s \in gated : s <= script
  /\ file.script <= script

LEMMA ScriptInvStep ==
  ASSUME TypeOK, ScriptInv, NEW p \in Proc, Stage(p)
  PROVE  ScriptInv'
<1> USE ContentAssumption DEF ContentAssumption
<1>1. /\ script \in Nat /\ script' \in Nat /\ script <= script'
      /\ file.script \in Nat /\ \A q \in Proc : proc[q].script \in Nat
  <2>1. TypeOK'
    BY StageType DEF ScriptInv
  <2>2. script \in Nat /\ script' \in Nat
    BY <2>1 DEF TypeOK, Script, NoScript
  <2>3. file.script \in Nat /\ \A q \in Proc : proc[q].script \in Nat
    BY DEF TypeOK, Local, Content, NoContent, Script, NoScript
  <2>4. QED
    BY <2>2, <2>3, StageGrows
<1>2. WorksOnScript'
  <2>1. ASSUME NEW q \in Proc, proc'[q].pc \in ScriptStages
        PROVE  1 <= proc'[q].script /\ proc'[q].script <= script'
    <3>1. CASE q = p
      <4>1. \/ proc[p].pc \in ScriptStages /\ proc'[p].script = proc[p].script
            \/ proc'[p].script = script /\ script # NoScript
        BY <2>1, <3>1, ScriptTaken DEF ScriptInv
      <4>2. QED
        BY <1>1, <3>1, <4>1 DEF ScriptInv, WorksOnScript, NoScript
    <3>2. CASE q # p
      <4>1. proc'[q] = proc[q]
        BY <3>2, OthersStay
      <4>2. QED
        BY <1>1, <2>1, <4>1 DEF ScriptInv, WorksOnScript
    <3>3. QED
      BY <3>1, <3>2
  <2>2. QED
    BY <2>1 DEF WorksOnScript
<1>3. state' # "BRIEF_CREATED" => script' # NoScript
  <2>1. CASE state # "BRIEF_CREATED"
    BY <1>1, <2>1 DEF ScriptInv, NoScript
  <2>2. CASE script' = NoScript
    <3>1. script = NoScript
      BY <1>1, <2>2 DEF NoScript
    <3>2. proc[p].pc \notin ScriptStages
      BY <1>1, <3>1 DEF ScriptInv, WorksOnScript, NoScript
    <3>3. CASE Editorial(p)
      BY <1>1, <2>2, <3>1, <3>2, <3>3 DEF ScriptInv, ScriptStages, NoScript, Editorial,
         ScriptBegin, ScriptExhausted, ScriptAccepted, ScriptPersist, FactCheckBegin,
         FactCheckCommit, OriginalityBegin, OriginalityCommit, GateBegin, GateCommit, RefuseStale
    <3>4. CASE Making(p)
      BY <3>1, <3>2, <3>4 DEF ScriptInv, ScriptStages, Making, ProductionBegin,
         BlockCommit, ManifestFailed, ProductionCommit, RenderBegin, RenderPromote,
         RenderHash, RenderInsert
    <3>5. CASE Releasing(p) \/ Crash(p)
      BY <3>1, <3>2, <3>5 DEF ScriptInv, ScriptStages, Releasing, Crash, ComplyBegin,
         ComplyCommit, BoundaryPass, Upload, Settle, Advance
    <3>6. QED
      BY <3>3, <3>4, <3>5 DEF Stage
  <2>3. CASE state = "BRIEF_CREATED" /\ script' # NoScript
    BY <2>3
  <2>4. QED
    BY <2>1, <2>2, <2>3
<1>4. \A s \in gated' : s <= script'
  <2>1. gated' \subseteq gated \cup {script}
    BY DEF Stage, Editorial, Making, Releasing, Crash, ScriptBegin, ScriptExhausted,
       ScriptAccepted, ScriptPersist, FactCheckBegin, FactCheckCommit, OriginalityBegin,
       OriginalityCommit, GateBegin, GateCommit, RefuseStale, ProductionBegin, BlockCommit,
       ManifestFailed, ProductionCommit, RenderBegin, RenderPromote, RenderHash, RenderInsert,
       ComplyBegin, ComplyCommit, BoundaryPass, Upload, Settle, editorial
  <2>2. \A s \in gated : s \in Nat
    BY DEF TypeOK, Script
  <2>3. QED
    BY <1>1, <2>1, <2>2 DEF ScriptInv
<1>5. file'.script <= script'
  <2>1. CASE RenderPromote(p)
    <3>1. file'.script = proc[p].script /\ proc[p].pc = "render"
      BY <2>1 DEF RenderPromote
    <3>2. QED
      BY <1>1, <3>1 DEF ScriptInv, WorksOnScript, ScriptStages
  <2>2. CASE file' = file
    BY <1>1, <2>2 DEF ScriptInv
  <2>3. QED
    BY <2>1, <2>2 DEF Stage, Editorial, Making, Releasing, Crash, ScriptBegin, ScriptExhausted,
       ScriptAccepted, ScriptPersist, FactCheckBegin, FactCheckCommit, OriginalityBegin,
       OriginalityCommit, GateBegin, GateCommit, RefuseStale, ProductionBegin, BlockCommit,
       ManifestFailed, ProductionCommit, RenderBegin, RenderHash, RenderInsert,
       ComplyBegin, ComplyCommit, BoundaryPass, Upload, Settle, artifacts
<1>6. QED
  BY <1>2, <1>3, <1>4, <1>5 DEF ScriptInv

-----------------------------------------------------------------------------
(* Provenance: one accepted generation means one script, and nobody about  *)
(* to persist another.                                                     *)

ProvenanceInv ==
  /\ script # NoScript => accepted >= 1
  /\ script >= 2 => accepted = 2
  /\ \A p \in Proc : proc[p].pc = "persist" => accepted >= 1 /\ (script # NoScript => accepted = 2)
  /\ \A p, q \in Proc : (p # q /\ proc[p].pc = "persist" /\ proc[q].pc = "persist") => accepted = 2

LEMMA ProvenanceInvStep ==
  ASSUME TypeOK, ScriptInv, ProvenanceInv, NEW p \in Proc, Stage(p)
  PROVE  ProvenanceInv'
<1> USE ContentAssumption DEF ContentAssumption
<1>1. /\ script \in Nat /\ accepted \in 0..2
      /\ \A q \in Proc \ {p} : proc'[q] = proc[q]
  BY OthersStay DEF TypeOK, Script, NoScript
<1>2. CASE ScriptAccepted(p)
  <2>1. /\ accepted' = IF accepted = 2 THEN 2 ELSE accepted + 1
        /\ script' = script
    BY <1>2 DEF ScriptAccepted
  <2>2. QED
    BY <1>1, <2>1 DEF ProvenanceInv, NoScript
<1>3. CASE ScriptPersist(p)
  <2>1. /\ accepted' = accepted /\ script' = script + 1 /\ proc[p].pc = "persist"
        /\ proc'[p].pc = "idle"
    BY <1>3, Moves DEF ScriptPersist
  <2>2. QED
    BY <1>1, <2>1 DEF ProvenanceInv, NoScript
<1>4. ASSUME ~ ScriptAccepted(p), ~ ScriptPersist(p) PROVE ProvenanceInv'
  <2>1. accepted' = accepted /\ script' = script
    BY <1>4 DEF Stage, Editorial, Making, Releasing, Crash, ScriptBegin, ScriptExhausted,
       FactCheckBegin, FactCheckCommit, OriginalityBegin, OriginalityCommit, GateBegin,
       GateCommit, RefuseStale, ProductionBegin, BlockCommit, ManifestFailed, ProductionCommit,
       RenderBegin, RenderPromote, RenderHash, RenderInsert, ComplyBegin, ComplyCommit,
       BoundaryPass, Upload, Settle, editorial
  <2>2. proc'[p].pc # "persist"
    BY <1>4, Enters
  <2>3. QED
    BY <1>1, <2>1, <2>2 DEF ProvenanceInv
<1>5. QED
  BY <1>2, <1>3, <1>4

-----------------------------------------------------------------------------
(* Evidence: a passing verdict about to be committed has its evidence.     *)

EvidenceOf(s) == check[s] # "NONE" /\ s \in original
EvidenceInv ==
  /\ GatedHasEvidence
  /\ \A p \in Proc : (proc[p].pc = "gate" /\ proc[p].verdict = "PASS") => EvidenceOf(proc[p].script)

LEMMA EvidenceInvStep ==
  ASSUME TypeOK, ScriptInv, EvidenceInv, NEW p \in Proc, Stage(p)
  PROVE  EvidenceInv'
<1> USE ContentAssumption DEF ContentAssumption
<1>1. \A s \in Script : EvidenceOf(s) => EvidenceOf(s)'
  BY StageGrows DEF EvidenceOf
<1>2. \A q \in Proc : proc[q].pc = "gate" => proc[q].script \in Script
  BY DEF TypeOK, Local, ScriptInv, WorksOnScript, ScriptStages, NoScript, Script
<1>3. GatedHasEvidence'
  <2>1. CASE GateCommit(p)
    <3>1. gated' \subseteq gated \/ (gated' = gated \cup {script} /\ EvidenceOf(script))
      BY <2>1 DEF GateCommit, EvidenceInv
    <3>2. \A s \in gated' : EvidenceOf(s)
      BY <3>1 DEF EvidenceInv, GatedHasEvidence, EvidenceOf
    <3>3. gated' \subseteq Script
      <4>1. TypeOK'
        BY StageType DEF ScriptInv
      <4>2. QED
        BY <4>1 DEF TypeOK
    <3>4. QED
      BY <1>1, <3>2, <3>3 DEF GatedHasEvidence, EvidenceOf
  <2>2. CASE gated' = gated
    <3>1. \A s \in gated : EvidenceOf(s)'
      BY <1>1 DEF TypeOK, EvidenceInv, GatedHasEvidence, EvidenceOf
    <3>2. QED
      BY <2>2, <3>1 DEF GatedHasEvidence, EvidenceOf
  <2>3. QED
    BY <2>1, <2>2 DEF Stage, Editorial, Making, Releasing, Crash, ScriptBegin, ScriptExhausted,
       ScriptAccepted, ScriptPersist, FactCheckBegin, FactCheckCommit, OriginalityBegin,
       OriginalityCommit, GateBegin, RefuseStale, ProductionBegin, BlockCommit,
       ManifestFailed, ProductionCommit, RenderBegin, RenderPromote, RenderHash, RenderInsert,
       ComplyBegin, ComplyCommit, BoundaryPass, Upload, Settle, editorial
<1>4. (proc'[p].pc = "gate" /\ proc'[p].verdict = "PASS") =>
        proc'[p].script \in Script /\ EvidenceOf(proc'[p].script)
  <2>1. CASE GateBegin(p)
    <3>1. PICK rights \in Verdict :
            Start(p, [Working("gate", script) EXCEPT !.verdict =
                 Worst({FactCheckResult(script), OriginalityResult(script), rights})])
      BY <2>1 DEF GateBegin
    <3>2. proc'[p] = [Working("gate", script) EXCEPT !.verdict =
                 Worst({FactCheckResult(script), OriginalityResult(script), rights})]
      BY <3>1 DEF Start, TypeOK
    <3>3. /\ proc'[p].script = script
          /\ proc'[p].verdict = Worst({FactCheckResult(script), OriginalityResult(script), rights})
      BY <3>2 DEF Working
    <3>4. {FactCheckResult(script), OriginalityResult(script), rights} \in SUBSET Verdict
      BY DEF FactCheckResult, OriginalityResult, Verdict
    <3>5. proc'[p].verdict = "PASS" => FactCheckResult(script) = "PASS" /\ OriginalityResult(script) = "PASS"
      BY <3>3, <3>4, WorstType
    <3>6. FactCheckResult(script) = "PASS" /\ OriginalityResult(script) = "PASS" => EvidenceOf(script)
      BY DEF FactCheckResult, OriginalityResult, EvidenceOf
    <3>7. script \in Script
      BY <2>1 DEF GateBegin, TypeOK
    <3>8. QED
      BY <3>3, <3>5, <3>6, <3>7
  <2>2. ~ GateBegin(p) => proc'[p].pc # "gate"
    BY Enters
  <2>3. QED
    BY <2>1, <2>2
<1>5. \A q \in Proc : (proc'[q].pc = "gate" /\ proc'[q].verdict = "PASS")
                        => proc'[q].script \in Script /\ EvidenceOf(proc'[q].script)
  BY <1>2, <1>4, OthersStay DEF EvidenceInv
<1>6. \A q \in Proc : (proc'[q].pc = "gate" /\ proc'[q].verdict = "PASS")
                        => check'[proc'[q].script] # "NONE" /\ proc'[q].script \in original'
  BY <1>5, StageGrows DEF EvidenceOf
<1>7. QED
  BY <1>3, <1>6 DEF EvidenceInv, EvidenceOf

-----------------------------------------------------------------------------
(* Release: past Gate 1 some script was gated, past Gate 2 there is a      *)
(* media row, and whoever uploads saw the only script there ever was.      *)

PastGate1 == {"PRODUCTION_READY", "PRODUCED"} \cup AfterGate2

\* What the boundary established, and no late render can spoil.
Cleared ==
  /\ media # NoContent
  /\ file.script = 1
  /\ 1 \in gated
  /\ \A q \in Proc : proc[q].pc = "render" => proc[q].script = 1

ReleaseInv ==
  /\ state \in PastGate1 => gated # {}
  /\ state \in AfterGate2 => media # NoContent
  /\ \A p \in Proc : proc[p].pc = "comply" =>
       media # NoContent /\ proc[p].from \in {"PRODUCED", "FINAL_COMPLIANCE"}
  /\ \A p \in Proc : proc[p].pc = "upload" => Cleared
  /\ UploadedWasGated

LEMMA BoundaryClears ==
  ASSUME TypeOK, ScriptInv, ProvenanceInv, ReleaseInv, Authorizing
  PROVE  Cleared
<1> USE ContentAssumption DEF ContentAssumption
<1>1. accepted = 1 /\ file = media /\ state \in AfterGate2
  BY DEF Authorizing, Provenance, Integrity
<1>2. script = 1 
  BY <1>1 DEF ProvenanceInv, ScriptInv, TypeOK, AfterGate2, Script, NoScript
<1>3. media # NoContent
  BY <1>1 DEF ReleaseInv
<1>4. file.script = 1
  BY <1>1, <1>2, <1>3 DEF TypeOK, ScriptInv, Content, Script
<1>5. 1 \in gated
  <2>1. PICK s \in gated : TRUE
    BY <1>1 DEF ReleaseInv, PastGate1
  <2>2. s = 1
    BY <1>2, <2>1 DEF ScriptInv, TypeOK, Script
  <2>3. QED
    BY <2>1, <2>2
<1>6. \A q \in Proc : proc[q].pc = "render" => proc[q].script = 1
  BY <1>2 DEF ScriptInv, WorksOnScript, ScriptStages, TypeOK, Local, Script, NoScript
<1>7. QED
  BY <1>3, <1>4, <1>5, <1>6 DEF Cleared

\* Without a render to come, nothing spoils it: the media row bars new ones.
LEMMA StaysCleared ==
  ASSUME TypeOK, Cleared, NEW p \in Proc, Stage(p)
  PROVE  Cleared'
<1>1. media' # NoContent /\ 1 \in gated'
  BY StageGrows DEF Cleared
<1>2. file'.script = 1
  BY DEF Cleared, Stage, Editorial, Making, Releasing, Crash, ScriptBegin, ScriptExhausted,
     ScriptAccepted, ScriptPersist, FactCheckBegin, FactCheckCommit, OriginalityBegin,
     OriginalityCommit, GateBegin, GateCommit, RefuseStale, ProductionBegin, BlockCommit,
     ManifestFailed, ProductionCommit, RenderBegin, RenderPromote, RenderHash, RenderInsert,
     ComplyBegin, ComplyCommit, BoundaryPass, Upload, Settle, artifacts
<1>3. ASSUME NEW q \in Proc, proc'[q].pc = "render" PROVE proc'[q].script = 1
  <2>1. q # p
    BY <1>3, Enters DEF RenderBegin, Cleared
  <2>2. QED
    BY <1>3, <2>1, OthersStay DEF Cleared
<1>4. QED
  BY <1>1, <1>2, <1>3 DEF Cleared

LEMMA ReleaseInvStep ==
  ASSUME TypeOK, ScriptInv, ProvenanceInv, ReleaseInv, NEW p \in Proc, Stage(p)
  PROVE  ReleaseInv'
<1> USE ContentAssumption DEF ContentAssumption
<1>1. media # NoContent => media' # NoContent
  BY StageGrows
<1>2. state' \in PastGate1 => gated' # {}
  <2>1. gated # {} => gated' # {}
    BY StageGrows
  <2>2. CASE GateCommit(p)
    <3>1. Advance("ORIGINALITY_CHECK", Gate1Target(proc[p].verdict))
      BY <2>2 DEF GateCommit
    <3>2. CASE state = "ORIGINALITY_CHECK" /\ proc[p].verdict = "PASS"
      BY <2>2, <3>2 DEF GateCommit
    <3>3. CASE state = "ORIGINALITY_CHECK" /\ proc[p].verdict # "PASS"
      <4>1. proc[p].verdict \in {"REVIEW", "BLOCK"}
        BY <3>3 DEF TypeOK, Local, Verdict
      <4>2. QED
        BY <3>1, <3>3, <4>1 DEF Advance, Gate1Target, PastGate1, AfterGate2
    <3>4. CASE state # "ORIGINALITY_CHECK"
      BY <2>1, <3>1, <3>4 DEF Advance, ReleaseInv
    <3>5. QED
      BY <3>2, <3>3, <3>4
  <2>3. CASE Editorial(p) /\ ~ GateCommit(p)
    BY <2>1, <2>3 DEF ReleaseInv, PastGate1, AfterGate2, Editorial, ScriptBegin,
       ScriptExhausted, ScriptAccepted, ScriptPersist, FactCheckBegin, FactCheckCommit,
       OriginalityBegin, OriginalityCommit, GateBegin, RefuseStale, Advance
  <2>4. CASE Making(p)
    BY <2>1, <2>4 DEF ReleaseInv, PastGate1, AfterGate2, Making, ProductionBegin, BlockCommit,
       ManifestFailed, ProductionCommit, RenderBegin, RenderPromote, RenderHash, RenderInsert
  <2>5. CASE Releasing(p) \/ Crash(p)
    BY <2>1, <2>5 DEF ReleaseInv, PastGate1, AfterGate2, Releasing, Crash, ComplyBegin,
       ComplyCommit, BoundaryPass, Upload, Settle, Advance
  <2>6. QED
    BY <2>2, <2>3, <2>4, <2>5 DEF Stage
<1>3. state' \in AfterGate2 => media' # NoContent
  <2>1. CASE GateCommit(p)
    <3>1. proc[p].verdict \in Verdict
      BY DEF TypeOK, Local
    <3>2. QED
      BY <1>1, <2>1, <3>1 DEF GateCommit, Advance, Gate1Target, Verdict, AfterGate2, ReleaseInv
  <2>2. CASE Editorial(p) /\ ~ GateCommit(p)
    BY <1>1, <2>2 DEF ReleaseInv, AfterGate2, Editorial, ScriptBegin, ScriptExhausted,
       ScriptAccepted, ScriptPersist, FactCheckBegin, FactCheckCommit, OriginalityBegin,
       OriginalityCommit, GateBegin, RefuseStale, Advance
  <2>3. CASE Making(p)
    BY <1>1, <2>3 DEF ReleaseInv, AfterGate2, Making, ProductionBegin, BlockCommit,
       ManifestFailed, ProductionCommit, RenderBegin, RenderPromote, RenderHash, RenderInsert
  <2>4. CASE Releasing(p) \/ Crash(p)
    BY <1>1, <2>4 DEF ReleaseInv, AfterGate2, Releasing, Crash, ComplyBegin,
       ComplyCommit, BoundaryPass, Upload, Settle, Advance
  <2>5. QED
    BY <2>1, <2>2, <2>3, <2>4 DEF Stage
<1>4. ASSUME NEW q \in Proc, proc'[q].pc = "comply"
      PROVE  media' # NoContent /\ proc'[q].from \in {"PRODUCED", "FINAL_COMPLIANCE"}
  <2>1. CASE q = p
    <3>1. ComplyBegin(p)
      BY <1>4, <2>1, Enters
    <3>2. PICK v : Start(p, [pc |-> "comply", script |-> script, content |-> media,
                             from |-> state, verdict |-> v])
      BY <3>1 DEF ComplyBegin
    <3>3. proc'[p].from = state
      BY <3>2 DEF Start, TypeOK
    <3>4. QED
      BY <1>1, <2>1, <3>1, <3>3 DEF ComplyBegin
  <2>2. CASE q # p
    BY <1>1, <1>4, <2>2, OthersStay DEF ReleaseInv
  <2>3. QED
    BY <2>1, <2>2
<1>5. ASSUME NEW q \in Proc, proc'[q].pc = "upload" PROVE Cleared'
  <2>1. Cleared
    <3>1. CASE q = p
      BY <1>5, <3>1, Enters, BoundaryClears DEF BoundaryPass
    <3>2. CASE q # p
      BY <1>5, <3>2, OthersStay DEF ReleaseInv
    <3>3. QED
      BY <3>1, <3>2
  <2>2. QED
    BY <2>1, StaysCleared
<1>6. UploadedWasGated'
  <2>1. gated \subseteq gated'
    BY StageGrows
  <2>2. CASE Upload(p)
    <3>1. file.script \in gated
      BY <2>2 DEF Upload, ReleaseInv, Cleared
    <3>2. QED
      BY <2>1, <2>2, <3>1 DEF Upload, ReleaseInv, UploadedWasGated
  <2>3. CASE uploaded' = uploaded
    BY <2>1, <2>3 DEF ReleaseInv, UploadedWasGated
  <2>4. QED
    BY <2>2, <2>3 DEF Stage, Editorial, Making, Releasing, Crash, ScriptBegin, ScriptExhausted,
       ScriptAccepted, ScriptPersist, FactCheckBegin, FactCheckCommit, OriginalityBegin,
       OriginalityCommit, GateBegin, GateCommit, RefuseStale, ProductionBegin, BlockCommit,
       ManifestFailed, ProductionCommit, RenderBegin, RenderPromote, RenderHash, RenderInsert,
       ComplyBegin, ComplyCommit, BoundaryPass, Settle, release
<1>7. QED
  BY <1>2, <1>3, <1>4, <1>5, <1>6 DEF ReleaseInv

-----------------------------------------------------------------------------
(* The invariant and its theorems.                                         *)

Inv == TypeOK /\ ScriptInv /\ ProvenanceInv /\ EvidenceInv /\ ReleaseInv

LEMMA InvInit == Init => Inv
<1> SUFFICES ASSUME Init PROVE Inv
  OBVIOUS
<1>1. \A p \in Proc : proc[p].pc = "idle"
  BY DEF Init, Idle, Working
<1>2. ScriptInv
  BY <1>1, NoContentIsNone DEF Init, ScriptInv, WorksOnScript, ScriptStages, NoScript
<1>3. ProvenanceInv /\ EvidenceInv
  BY <1>1 DEF Init, ProvenanceInv, EvidenceInv, GatedHasEvidence, NoScript
<1>4. ReleaseInv
  BY <1>1 DEF Init, ReleaseInv, PastGate1, AfterGate2, UploadedWasGated
<1>5. QED
  BY <1>2, <1>3, <1>4, InitType DEF Inv

LEMMA InvStep == Inv /\ [Next]_vars => Inv'
<1> SUFFICES ASSUME Inv, [Next]_vars PROVE Inv'
  OBVIOUS
<1>1. ASSUME NEW p \in Proc, Stage(p) PROVE Inv'
  BY <1>1, StageType, ScriptInvStep, ProvenanceInvStep, EvidenceInvStep, ReleaseInvStep
     DEF Inv, ScriptInv
<1>2. ASSUME NEW g \in RetryStage, Reactivate(g) PROVE Inv'
  <2>1. UNCHANGED <<state, proc, editorial, artifacts, release>> /\ retry' = [retry EXCEPT ![g] = 0]
    BY <1>2 DEF Reactivate
  <2>2. TypeOK'
    BY <2>1, ContentAssumption DEF ContentAssumption, Inv, TypeOK, editorial, artifacts, release
  <2>3. QED
    BY <2>1, <2>2 DEF Inv, ScriptInv, WorksOnScript, ProvenanceInv, EvidenceInv, EvidenceOf,
       GatedHasEvidence, ReleaseInv, Cleared, UploadedWasGated, editorial, artifacts, release
<1>3. CASE UNCHANGED vars
  BY <1>3 DEF vars, Inv, TypeOK, ScriptInv, WorksOnScript, ProvenanceInv, EvidenceInv, EvidenceOf,
     GatedHasEvidence, ReleaseInv, Cleared, UploadedWasGated
<1>4. QED
  BY <1>1, <1>2, <1>3 DEF Next

THEOREM InvHolds == Spec => []Inv
  BY InvInit, InvStep, PTL DEF Spec

\* Every state is well typed: in particular no retry record passes its cap,
\* whichever processes fail at once.
THEOREM TypeCorrect == Spec => []TypeOK
<1>1. Inv => TypeOK
  BY DEF Inv
<1>2. QED
  BY <1>1, InvHolds, PTL

\* The script of every upload passed Gate 1, for any number of processes,
\* regenerations and racing renders.
THEOREM UploadsWereGated == Spec => []UploadedWasGated
<1>1. Inv => UploadedWasGated
  BY DEF Inv, ReleaseInv
<1>2. QED
  BY <1>1, InvHolds, PTL

\* A script that passed Gate 1 was fact checked and found original, as those
\* stages judged it and not an earlier one.
THEOREM GatedScriptsHaveEvidence == Spec => []GatedHasEvidence
<1>1. Inv => GatedHasEvidence
  BY DEF Inv, EvidenceInv
<1>2. QED
  BY <1>1, InvHolds, PTL

LEMMA StageKeepsRefusal ==
  ASSUME Inv, NEW p \in Proc, Stage(p), state \in Refused
  PROVE  state' \in Refused
<1>1. CASE Editorial(p)
  BY <1>1 DEF Refused, Editorial, ScriptBegin, ScriptExhausted, ScriptAccepted, ScriptPersist,
     FactCheckBegin, FactCheckCommit, OriginalityBegin, OriginalityCommit, GateBegin,
     GateCommit, RefuseStale, Advance
<1>2. CASE Making(p)
  BY <1>2 DEF Refused, Making, ProductionBegin, BlockCommit, ManifestFailed, ProductionCommit,
     RenderBegin, RenderPromote, RenderHash, RenderInsert
<1>3. CASE Releasing(p) \/ Crash(p)
  <2>1. proc[p].pc = "comply" => state # proc[p].from
    BY DEF Inv, ReleaseInv, Refused
  <2>2. QED
    BY <1>3, <2>1 DEF Refused, Releasing, Crash, ComplyBegin, ComplyCommit, BoundaryPass,
       Upload, Settle, Advance
<1>4. QED
  BY <1>1, <1>2, <1>3 DEF Stage

\* A refused item never comes back, whatever was read before the refusal.
THEOREM RefusalIsFinal == Spec => RefusedStays
<1>1. Inv /\ [Next]_vars => [(state \in Refused) => (state' \in Refused)]_vars
  BY StageKeepsRefusal DEF Next, Reactivate, vars
<1>2. QED
  BY <1>1, InvHolds, PTL DEF Spec, RefusedStays

LEMMA StagePassesGate2 ==
  ASSUME Inv, NEW p \in Proc, Stage(p)
  PROVE  /\ (state # "FINAL_COMPLIANCE" /\ state' = "FINAL_COMPLIANCE"
               => state = "PRODUCED" /\ record'.decision = "PASS")
         /\ (state \in AfterGate2 => state' \in AfterGate2 \cup Refused)
<1>1. proc[p].verdict \in Verdict
  BY DEF Inv, TypeOK, Local
<1>2. CASE Editorial(p)
  BY <1>1, <1>2 DEF AfterGate2, Refused, Verdict, Gate1Target, Editorial, ScriptBegin,
     ScriptExhausted, ScriptAccepted, ScriptPersist, FactCheckBegin, FactCheckCommit,
     OriginalityBegin, OriginalityCommit, GateBegin, GateCommit, RefuseStale, Advance
<1>3. CASE Making(p)
  BY <1>3 DEF AfterGate2, Refused, Making, ProductionBegin, BlockCommit, ManifestFailed,
     ProductionCommit, RenderBegin, RenderPromote, RenderHash, RenderInsert
<1>4. CASE ComplyCommit(p)
  <2>1. proc[p].pc = "comply" /\ proc[p].from \in {"PRODUCED", "FINAL_COMPLIANCE"}
    BY <1>4 DEF ComplyCommit, Inv, ReleaseInv
  <2>2. QED
    BY <1>1, <1>4, <2>1 DEF ComplyCommit, AfterGate2, Refused, Verdict, Gate2Target
<1>5. CASE (Releasing(p) /\ ~ ComplyCommit(p)) \/ Crash(p)
  BY <1>5 DEF AfterGate2, Refused, Releasing, Crash, ComplyBegin, BoundaryPass, Upload,
     Settle, Advance
<1>6. QED
  BY <1>2, <1>3, <1>4, <1>5 DEF Stage

\* Nothing but a passing record of Gate 2 on a produced item leads past it.
THEOREM Gate2Decides == Spec => Gate2IsTheOnlyWay
<1>1. Inv /\ [Next]_vars =>
        [/\ (state # "FINAL_COMPLIANCE" /\ state' = "FINAL_COMPLIANCE"
               => state = "PRODUCED" /\ record'.decision = "PASS")
         /\ (state \in AfterGate2 => state' \in AfterGate2 \cup Refused)
        ]_vars
  BY StagePassesGate2 DEF Next, Reactivate, vars
<1>2. QED
  BY <1>1, InvHolds, PTL DEF Spec, Gate2IsTheOnlyWay

=============================================================================
