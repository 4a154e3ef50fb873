--------------------------- MODULE ContentVersion ---------------------------
(***************************************************************************)
(* The life of one content version, from its brief to its upload: script,  *)
(* fact check, originality, Gate 1, production, media, Gate 2 and the      *)
(* check at the publication boundary, run by the processes of Proc.        *)
(*                                                                         *)
(* Every stage is a function any driver may invoke at any time; it reads   *)
(* the database, works, and commits in one transaction that checks again   *)
(* some of what it read.  An action is the code between two points where   *)
(* another process can write or this one can die.  What a check concludes  *)
(* from data the model leaves out (claims, rights of assets, metadata,     *)
(* policy) is nondeterministic.                                            *)
(***************************************************************************)
EXTENDS Integers

CONSTANTS
  Proc,          \* engine processes and manual callers
  Take,          \* what distinguishes two renders of one script
  RetryCap,      \* STAGE_RETRY_CAP
  MaxScript,     \* bound: script versions ever persisted
  MayForce,      \* TRUE: somebody calls runFactCheck with force
  MayRegenerate  \* TRUE: somebody calls createScript with regenerate

ASSUME ContentAssumption ==
  /\ RetryCap \in Nat \ {0}
  /\ MaxScript \in Nat \ {0}
  /\ MayForce \in BOOLEAN
  /\ MayRegenerate \in BOOLEAN

VARIABLES
  state,       \* content_versions.state
  script,      \* content_versions.script_id: always the newest version
  check,       \* status of the latest fact_checks row of each script
  original,    \* scripts with an originality_checks row
  accepted,    \* ACCEPTED script-generation rows of the brief, 2 for more
  gated,       \* scripts Gate 1 made PRODUCTION_READY
  retry,       \* failed attempts of a stage in its current cycle
  production,  \* script of the productions row
  media,       \* the bytes whose checksum the media_artifacts row holds
  file,        \* the bytes at video.mp4
  record,      \* the newest gate2_compliance_records row
  uploaded,    \* the bytes a provider has been sent
  proc         \* local state of each process

vars == <<state, script, check, original, accepted, gated, retry, production,
          media, file, record, uploaded, proc>>

Script == 1..MaxScript
NoScript == 0
Content == [script : Script, take : Take]
NoContent == [script |-> NoScript, take |-> "none"]

Refused == {"REJECTED", "BLOCKED", "NEEDS_REVIEW"}
BeforeGate1 == {"BRIEF_CREATED", "SCRIPT_DRAFT", "FACT_CHECK", "ORIGINALITY_CHECK"}
AfterGate2 == {"FINAL_COMPLIANCE", "PUBLISHED"}
\* QUALITY_GATE is entered and left within one transaction.
State == BeforeGate1 \cup {"PRODUCTION_READY", "PRODUCED"} \cup AfterGate2 \cup Refused

RetryStage == {"SCRIPT", "PRODUCTION"}
Verdict == {"PASS", "REVIEW", "BLOCK"}
Worst(V) == IF "BLOCK" \in V THEN "BLOCK" ELSE IF "REVIEW" \in V THEN "REVIEW" ELSE "PASS"

Record == [decision : Verdict \cup {"NONE"}, script : Script \cup {NoScript},
           content : Content \cup {NoContent}]
NoRecord == [decision |-> "NONE", script |-> NoScript, content |-> NoContent]

Pc == {"idle", "generate", "persist", "factcheck", "originality", "gate", "block",
       "produce", "render", "hash", "insert", "comply", "upload", "settle"}
Local == [pc : Pc, script : Script \cup {NoScript}, content : Content \cup {NoContent},
          verdict : Verdict, from : State]
Working(pc, s) == [pc |-> pc, script |-> s, content |-> NoContent,
                   verdict |-> "PASS", from |-> "BRIEF_CREATED"]
Idle == Working("idle", NoScript)

TypeOK ==
  /\ state \in State
  /\ script \in Script \cup {NoScript}
  /\ check \in [Script -> {"NONE", "PASS", "REVIEW", "REJECT"}]
  /\ original \subseteq Script
  /\ accepted \in 0..2
  /\ gated \subseteq Script
  /\ retry \in [RetryStage -> 0..RetryCap]
  /\ production \in Script \cup {NoScript}
  /\ media \in Content \cup {NoContent}
  /\ file \in Content \cup {NoContent}
  /\ record \in Record
  /\ uploaded \subseteq Content \cup {NoContent}
  /\ proc \in [Proc -> Local]

Init ==
  /\ state = "BRIEF_CREATED"
  /\ script = NoScript
  /\ check = [s \in Script |-> "NONE"]
  /\ original = {}
  /\ accepted = 0
  /\ gated = {}
  /\ retry = [g \in RetryStage |-> 0]
  /\ production = NoScript
  /\ media = NoContent
  /\ file = NoContent
  /\ record = NoRecord
  /\ uploaded = {}
  /\ proc = [p \in Proc |-> Idle]

-----------------------------------------------------------------------------
(* Helpers.                                                                *)

Start(p, local) == proc[p].pc = "idle" /\ proc' = [proc EXCEPT ![p] = local]
Goto(p, pc) == proc' = [proc EXCEPT ![p].pc = pc]
Return(p) == proc' = [proc EXCEPT ![p] = Idle]

IsQuarantined(g) == retry[g] = RetryCap
RecordFailedAttempt(g) ==
  retry' = IF IsQuarantined(g) THEN retry ELSE [retry EXCEPT ![g] = @ + 1]

\* transition: one step along the order of STATES, or into a failure state.
Advance(from, to) == state' = IF state = from THEN to ELSE state

editorial == <<script, check, original, accepted, gated>>
artifacts == <<production, media, file>>
release == <<record, uploaded>>

-----------------------------------------------------------------------------
(* createScript.                                                           *)

\* An existing script is returned unless another is asked for.
ScriptBegin(p) ==
  /\ script = NoScript \/ MayRegenerate
  /\ ~IsQuarantined("SCRIPT")
  /\ Start(p, Working("generate", NoScript))
  /\ UNCHANGED <<state, retry, editorial, artifacts, release>>

\* No generation passed validation: one failed attempt for the whole call.
ScriptExhausted(p) ==
  /\ proc[p].pc = "generate"
  /\ RecordFailedAttempt("SCRIPT")
  /\ Return(p)
  /\ UNCHANGED <<state, editorial, artifacts, release>>

\* The ACCEPTED row is logged before, and outside, the transaction that persists.
ScriptAccepted(p) ==
  /\ proc[p].pc = "generate"
  /\ accepted' = IF accepted = 2 THEN 2 ELSE accepted + 1
  /\ Goto(p, "persist")
  /\ UNCHANGED <<state, script, check, original, gated, retry, artifacts, release>>

\* The first version moves the state; a later one only moves the pointer.
ScriptPersist(p) ==
  /\ proc[p].pc = "persist"
  /\ script < MaxScript
  /\ script' = script + 1
  /\ IF script = NoScript
       THEN state = "BRIEF_CREATED" /\ state' = "SCRIPT_DRAFT"
       ELSE UNCHANGED state
  /\ Return(p)
  /\ UNCHANGED <<check, original, accepted, gated, retry, artifacts, release>>

-----------------------------------------------------------------------------
(* runFactCheck, runOriginalityCheck, runQualityGate: a script is read,    *)
(* examined, and the result is committed if it still is the current one.   *)

FactCheckBegin(p) ==
  /\ script # NoScript
  /\ check[script] = "NONE" \/ MayForce
  /\ Start(p, Working("factcheck", script))
  /\ UNCHANGED <<state, retry, editorial, artifacts, release>>

\* REJECT moves an item only out of FACT_CHECK; the others only into it.
FactCheckCommit(p) ==
  /\ proc[p].pc = "factcheck"
  /\ proc[p].script = script
  /\ \E status \in {"PASS", "REVIEW", "REJECT"} :
       /\ check' = [check EXCEPT ![script] = status]
       /\ IF status = "REJECT" THEN Advance("FACT_CHECK", "REJECTED")
          ELSE Advance("SCRIPT_DRAFT", "FACT_CHECK")
  /\ Return(p)
  /\ UNCHANGED <<script, original, accepted, gated, retry, artifacts, release>>

OriginalityBegin(p) ==
  /\ script # NoScript
  /\ Start(p, Working("originality", script))
  /\ UNCHANGED <<state, retry, editorial, artifacts, release>>

\* The measurement is kept whatever the state; it moves only FACT_CHECK on.
OriginalityCommit(p) ==
  /\ proc[p].pc = "originality"
  /\ proc[p].script = script
  /\ original' = original \cup {script}
  /\ Advance("FACT_CHECK", "ORIGINALITY_CHECK")
  /\ Return(p)
  /\ UNCHANGED <<script, check, accepted, gated, retry, artifacts, release>>

FactCheckResult(s) ==
  CASE check[s] = "PASS" -> "PASS" [] check[s] = "REVIEW" -> "REVIEW" [] OTHER -> "BLOCK"
OriginalityResult(s) == IF s \in original THEN "PASS" ELSE "BLOCK"

\* The evidence is read before the transaction; "rights" are the asset rights.
GateBegin(p) ==
  /\ script # NoScript
  /\ \E rights \in Verdict :
       Start(p, [Working("gate", script) EXCEPT !.verdict =
                   Worst({FactCheckResult(script), OriginalityResult(script), rights})])
  /\ UNCHANGED <<state, retry, editorial, artifacts, release>>

Gate1Target(v) ==
  CASE v = "PASS" -> "PRODUCTION_READY" [] v = "REVIEW" -> "NEEDS_REVIEW" [] v = "BLOCK" -> "BLOCKED"

\* Mutant: the verdict on an older script is applied to the current one.
GateCommitStale(p) ==
  /\ proc[p].pc = "gate"
  /\ Advance("ORIGINALITY_CHECK", Gate1Target(proc[p].verdict))
  /\ gated' = IF state = "ORIGINALITY_CHECK" /\ proc[p].verdict = "PASS"
              THEN gated \cup {script} ELSE gated
  /\ Return(p)
  /\ UNCHANGED <<script, check, original, accepted, retry, artifacts, release>>

\* A resolved item is not resolved again.
GateCommit(p) ==
  /\ proc[p].pc = "gate"
  /\ proc[p].script = script
  /\ Advance("ORIGINALITY_CHECK", Gate1Target(proc[p].verdict))
  /\ gated' = IF state = "ORIGINALITY_CHECK" /\ proc[p].verdict = "PASS"
              THEN gated \cup {script} ELSE gated
  /\ Return(p)
  /\ UNCHANGED <<script, check, original, accepted, retry, artifacts, release>>

\* The transactions above throw when another script has become current.
RefuseStale(p) ==
  /\ proc[p].pc \in {"factcheck", "originality", "gate", "block", "produce"}
  /\ proc[p].script # script
  /\ Return(p)
  /\ UNCHANGED <<state, retry, editorial, artifacts, release>>

-----------------------------------------------------------------------------
(* runProduction.                                                          *)

\* An asset that is not verified blocks; otherwise the manifest is written.
ProductionBegin(p) ==
  /\ state = "PRODUCTION_READY"
  /\ ~IsQuarantined("PRODUCTION")
  /\ \E pc \in {"block", "produce"} :
       Start(p, Working(pc, script))
  /\ UNCHANGED <<state, retry, editorial, artifacts, release>>

\* Mutant: the state found by the transaction is not looked at.
ProductionCommitBlind(p) ==
  /\ proc[p].pc = "produce"
  /\ proc[p].script = script
  /\ state' = "PRODUCED" /\ production' = script
  /\ Return(p)
  /\ UNCHANGED <<retry, editorial, media, file, release>>

\* Whatever the state has become, it may be blocked.
BlockCommit(p) ==
  /\ proc[p].pc = "block"
  /\ proc[p].script = script
  /\ state' = "BLOCKED"
  /\ Return(p)
  /\ UNCHANGED <<retry, editorial, artifacts, release>>

ManifestFailed(p) ==
  /\ proc[p].pc = "produce"
  /\ RecordFailedAttempt("PRODUCTION")
  /\ Return(p)
  /\ UNCHANGED <<state, editorial, artifacts, release>>

ProductionCommit(p) ==
  /\ proc[p].pc = "produce"
  /\ proc[p].script = script
  /\ IF state = "PRODUCTION_READY"
       THEN state' = "PRODUCED" /\ production' = script
       ELSE UNCHANGED <<state, production>>
  /\ Return(p)
  /\ UNCHANGED <<retry, editorial, media, file, release>>

-----------------------------------------------------------------------------
(* runMediaProduction.  No failure of it establishes a transient cause, so *)
(* none is counted; a failure is Crash.                                    *)

\* The script that is rendered is the current one, not that of the production.
RenderBegin(p) ==
  /\ production # NoScript
  /\ state = "PRODUCED"
  /\ media = NoContent
  /\ Start(p, Working("render", script))
  /\ UNCHANGED <<state, retry, editorial, artifacts, release>>

\* finalizeArtifact: the validated file is renamed over whatever is there.
RenderPromote(p) ==
  /\ proc[p].pc = "render"
  /\ \E t \in Take : file' = [script |-> proc[p].script, take |-> t]
  /\ Goto(p, "hash")
  /\ UNCHANGED <<state, retry, editorial, production, media, release>>

\* sha256File reads the final path again.
RenderHash(p) ==
  /\ proc[p].pc = "hash"
  /\ proc' = [proc EXCEPT ![p] = [@ EXCEPT !.pc = "insert", !.content = file]]
  /\ UNCHANGED <<state, retry, editorial, artifacts, release>>

RenderInsert(p) ==
  /\ proc[p].pc = "insert"
  /\ media' = IF media = NoContent THEN proc[p].content ELSE media
  /\ Return(p)
  /\ UNCHANGED <<state, retry, editorial, production, file, release>>

-----------------------------------------------------------------------------
(* runFinalCompliance and verifyGate2Pass.                                 *)

\* Mutant: several accepted generations are no ambiguity.
ProvenanceLenient == IF accepted >= 1 THEN "PASS" ELSE "REVIEW"

\* GC-005: exactly one accepted generation of the brief's script.
Provenance == IF accepted = 1 THEN "PASS" ELSE "REVIEW"
\* GC-001: the file is the one the row was made for.
Integrity == IF file = media THEN "PASS" ELSE "BLOCK"
\* GC-004: production and content version agree on the script.
Consistency == IF production = script THEN "PASS" ELSE "BLOCK"

\* The newest record is a PASS, bound to what is current now.
Authorizing ==
  /\ state \in AfterGate2
  /\ record.decision = "PASS"
  /\ record.script = script
  /\ Consistency = "PASS"
  /\ record.content = media
  /\ Integrity = "PASS"
  /\ Provenance = "PASS"

\* GC-002 and GC-003 (rights, metadata) are not modelled, nor is the policy
\* version whose change makes a PASS stale: an item in FINAL_COMPLIANCE is
\* examined again or found ALREADY_VALID, which changes nothing.
ComplyBegin(p) ==
  /\ state \in {"PRODUCED", "FINAL_COMPLIANCE"}
  /\ media # NoContent
  /\ \E others \in Verdict :
       Start(p, [pc |-> "comply", script |-> script, content |-> media, from |-> state,
                 verdict |-> Worst({Integrity, Consistency, Provenance, others})])
  /\ UNCHANGED <<state, retry, editorial, artifacts, release>>

Gate2Target(v) ==
  CASE v = "PASS" -> "FINAL_COMPLIANCE" [] v = "REVIEW" -> "NEEDS_REVIEW" [] v = "BLOCK" -> "BLOCKED"

\* Mutant: the state is not compared with the one that was examined.
ComplyCommitBlind(p) ==
  /\ proc[p].pc = "comply"
  /\ record' = [decision |-> proc[p].verdict, script |-> proc[p].script,
                content |-> proc[p].content]
  /\ state' = Gate2Target(proc[p].verdict)
  /\ Return(p)
  /\ UNCHANGED <<retry, editorial, artifacts, uploaded>>

\* Nothing is written for an item whose state has moved meanwhile.
ComplyCommit(p) ==
  /\ proc[p].pc = "comply"
  /\ IF state = proc[p].from
       THEN /\ record' = [decision |-> proc[p].verdict, script |-> proc[p].script,
                          content |-> proc[p].content]
            /\ state' = Gate2Target(proc[p].verdict)
       ELSE UNCHANGED <<record, state>>
  /\ Return(p)
  /\ UNCHANGED <<retry, editorial, artifacts, uploaded>>

-----------------------------------------------------------------------------
(* runPublication, as far as it depends on the content version; its rows   *)
(* and its retries are module Publication.                                 *)

BoundaryPass(p) ==
  /\ Authorizing
  /\ Start(p, Working("upload", script))
  /\ UNCHANGED <<state, retry, editorial, artifacts, release>>

\* The adapter opens the path it was given.
Upload(p) ==
  /\ proc[p].pc = "upload"
  /\ uploaded' = uploaded \cup {file}
  /\ Goto(p, "settle")
  /\ UNCHANGED <<state, retry, editorial, artifacts, record>>

Settle(p) ==
  /\ proc[p].pc = "settle"
  /\ Advance("FINAL_COMPLIANCE", "PUBLISHED")
  /\ Return(p)
  /\ UNCHANGED <<retry, editorial, artifacts, release>>

-----------------------------------------------------------------------------
(* A process dies, or its stage throws or fails without counting; and the  *)
(* Owner reactivates a quarantined stage (reactivateQuarantined).          *)

Crash(p) ==
  /\ proc[p].pc # "idle"
  /\ Return(p)
  /\ UNCHANGED <<state, retry, editorial, artifacts, release>>

Reactivate(g) ==
  /\ IsQuarantined(g)
  /\ retry' = [retry EXCEPT ![g] = 0]
  /\ UNCHANGED <<state, proc, editorial, artifacts, release>>

Editorial(p) ==
  \/ ScriptBegin(p) \/ ScriptExhausted(p) \/ ScriptAccepted(p) \/ ScriptPersist(p)
  \/ FactCheckBegin(p) \/ FactCheckCommit(p)
  \/ OriginalityBegin(p) \/ OriginalityCommit(p)
  \/ GateBegin(p) \/ GateCommit(p) \/ RefuseStale(p)

Making(p) ==
  \/ ProductionBegin(p) \/ BlockCommit(p) \/ ManifestFailed(p) \/ ProductionCommit(p)
  \/ RenderBegin(p) \/ RenderPromote(p) \/ RenderHash(p) \/ RenderInsert(p)

Releasing(p) ==
  \/ ComplyBegin(p) \/ ComplyCommit(p)
  \/ BoundaryPass(p) \/ Upload(p) \/ Settle(p)

Stage(p) == Editorial(p) \/ Making(p) \/ Releasing(p) \/ Crash(p)

Next ==
  \/ \E p \in Proc : Stage(p)
  \/ \E g \in RetryStage : Reactivate(g)

Spec == Init /\ [][Next]_vars

-----------------------------------------------------------------------------
(* Properties.                                                             *)

\* What a provider is sent was rendered from a script that Gate 1 passed,
\* though scripts may be regenerated behind the gate, renders may race and
\* neither the media row nor the boundary names what Gate 1 examined.
UploadedWasGated == \A c \in uploaded : c.script \in gated

\* ... and the evidence Gate 1 asks for exists for it: a fact check and an
\* originality measurement of that very script version, not of a sibling.
GatedHasEvidence == \A s \in gated : check[s] # "NONE" /\ s \in original

\* An item that was refused never comes back, whatever another process had
\* read before: no late commit lifts REJECTED, NEEDS_REVIEW or BLOCKED.
RefusedStays == [][(state \in Refused) => (state' \in Refused)]_vars

\* No step takes an item past Gate 2 but a PASS record of the current state,
\* and none from there back to where it could be rendered again.
Gate2IsTheOnlyWay ==
  [][/\ (state # "FINAL_COMPLIANCE" /\ state' = "FINAL_COMPLIANCE"
            => state = "PRODUCED" /\ record'.decision = "PASS")
     /\ (state \in AfterGate2 => state' \in AfterGate2 \cup Refused)
    ]_vars

=============================================================================
