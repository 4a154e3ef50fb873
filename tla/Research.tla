------------------------------ MODULE Research ------------------------------
(***************************************************************************)
(* One research project: runResearchProject, from the opportunity handed   *)
(* over by discovery to the verdict on its evidence.                       *)
(*                                                                         *)
(* The project is durable and its attempts are not.  Each phase makes its  *)
(* calls first and then commits what it found in one transaction, with the *)
(* checkpoint that covers it; an attempt may die at any point, and the     *)
(* next one resumes from the checkpoints it reads.  An action is the code  *)
(* from one commit, or one abandoned attempt, to the next.  The single-run *)
(* guard (module RunGuard) admits one engine, so there is one attempt at a *)
(* time.  Which pages are found and can be read is module Sources, which   *)
(* claims they carry is module ClaimRows; what the verifier answers is     *)
(* nondeterministic.                                                       *)
(***************************************************************************)
EXTENDS ClaimRows

CONSTANTS
  MaxClaims,     \* bound: claim rows of a project
  Question,      \* core_question_type of the proposition
  MaxSources,    \* max_sources_per_research_project
  MaxAttempts,   \* max_acquisition_attempts
  MaxEligible,   \* contradiction.max_eligible_claims
  MaxCandidates, \* maxCandidatesPerClaim of the verifier
  MaxCalls,      \* maxVerifierCallsPerProject
  Workload,      \* llm_workload.max_calls_per_project
  RetryCap,      \* STAGE_RETRY_CAP
  MaxMishap      \* bound: crashes and infrastructure failures

Claim == 1..MaxClaims
NoClaim == 0  \* what an expansion that has not happened serves

\* The workload budget is what the phases can ask for, as its comment derives it.
ASSUME ResearchAssumption ==
  /\ SourcesAreSound
  /\ Question \in {"FACTUAL", "SENTIMENT", "MIXED"}
  /\ {MaxSources, MaxAttempts, MaxEligible, MaxCandidates, MaxCalls, MaxClaims, RetryCap} \subseteq Nat \ {0}
  /\ {MaxMishap, Workload} \subseteq Nat
  /\ Workload >= 2 * MaxSources + ((MaxEligible * (MaxEligible - 1)) \div 2) + MaxCalls

VARIABLES
  status,      \* research_projects.status
  checkpoint,  \* research_checkpoints of the project
  initial,     \* sourceIds of SOURCES_PERSISTED
  attemptsUsed,\* retrieval calls the checkpoints account for
  exhausted,   \* candidatesExhausted of SOURCES_PERSISTED
  stored,      \* how many sources rows each page has
  retrieved,   \* pages with a SUCCESS row
  rows,        \* claims rows, in the order they were inserted
  loadBearing, \* claims with is_load_bearing = 1
  links,       \* claim_sources rows
  contradicts, \* CONTRADICTS rows of claim_relations, canonical pairs
  grade,       \* evidence_status of each claim
  expansion,   \* payload of EXPANSION_PERSISTED
  retry,       \* failed RESEARCH attempts
  mishaps,     \* crashes and outages so far
  attempt      \* the attempt in progress

sources == <<initial, attemptsUsed, exhausted, stored, retrieved>>
evidence == <<rows, loadBearing, links, contradicts, grade>>
vars == <<status, checkpoint, sources, evidence, expansion, retry, mishaps, attempt>>

Verdict == {"RESEARCH_COMPLETE", "INSUFFICIENT_EVIDENCE"}
Status == {"NONE", "RESEARCHING", "FAILED"} \cup Verdict
Checkpoint == {"SOURCES", "EXTRACTION", "CONTRADICTION", "EXPANSION"}
Link == [claim : Claim, page : Page, role : {"supporting", "contradicting"}]
EvidenceStatus == {"VERIFIED", "PARTIALLY_SUPPORTED", "UNSUPPORTED", "CONTESTED"}

NoExpansion == [claim |-> NoClaim, calls |-> 0]

Pc == {"idle", "acquire", "extract", "contradict", "plan", "verify", "grade", "complete"}
Attempt == [pc : Pc, plan : SUBSET (Claim \X Page), turn : Claim \cup {NoClaim}, facts : SUBSET Claim,
            calls : 0..MaxCalls, used : Nat, halted : BOOLEAN]
At(pc) == [pc |-> pc, plan |-> {}, turn |-> NoClaim, facts |-> {},
           calls |-> MaxCalls, used |-> 0, halted |-> FALSE]

TypeOK ==
  /\ status \in Status
  /\ checkpoint \subseteq Checkpoint
  /\ initial \subseteq Page
  /\ attemptsUsed \in Nat
  /\ exhausted \in BOOLEAN
  /\ stored \in [Page -> Nat]
  /\ retrieved \subseteq Page
  /\ Len(rows) <= MaxClaims
  /\ loadBearing \subseteq Claim
  /\ links \subseteq Link
  /\ contradicts \subseteq SUBSET Claim
  /\ grade \in [Claim -> EvidenceStatus]
  /\ expansion \in [claim : Claim \cup {NoClaim}, calls : 0..MaxCalls]
  /\ retry \in 0..RetryCap
  /\ mishaps \in 0..MaxMishap
  /\ attempt \in Attempt

Init ==
  /\ status = "NONE"
  /\ checkpoint = {}
  /\ initial = {} /\ attemptsUsed = 0 /\ exhausted = FALSE
  /\ stored = [p \in Page |-> 0]
  /\ retrieved = {}
  /\ rows = <<>> /\ loadBearing = {} /\ links = {} /\ contradicts = {}
  /\ grade = [c \in Claim |-> "UNSUPPORTED"]
  /\ expansion = NoExpansion
  /\ retry = 0
  /\ mishaps = 0
  /\ attempt = At("idle")

-----------------------------------------------------------------------------
(* Deterministic evidence rules.                                           *)

Known == {p \in Page : stored[p] > 0}
claims == DOMAIN rows
Kind(c) == rows[c].kind

\* Retrieved and of the minimum quality.
Eligible(p) == p \in retrieved /\ Quality(p) \in {"MEDIUM", "HIGH"}

Linked(c, role) == {l.page : l \in {k \in links : k.claim = c /\ k.role = role}}
Independent(c) ==
  {Domain[p] : p \in {q \in Linked(c, "supporting") :
                        Eligible(q) /\ Role[q] = "independent_reporting"}}
IsContradicted(c) ==
  \/ \E pair \in contradicts : c \in pair
  \/ \E p \in Linked(c, "contradicting") : Eligible(p)

\* Mutant: publishers counted by page.
EvidenceStatusByPage(c) ==
  LET support == {p \in Linked(c, "supporting") : Eligible(p)} IN
  IF IsContradicted(c) THEN "CONTESTED"
  ELSE IF Cardinality(support) >= 2 THEN "VERIFIED"
  ELSE IF support # {} THEN "PARTIALLY_SUPPORTED" ELSE "UNSUPPORTED"
ComputeEvidenceStatus(c) ==
  LET support == {p \in Linked(c, "supporting") : Eligible(p)} IN
  IF IsContradicted(c) THEN "CONTESTED"
  ELSE IF \/ \E p \in support : Role[p] = "primary_authoritative"
          \/ Cardinality(Independent(c)) >= 2
  THEN "VERIFIED"
  ELSE IF support # {} THEN "PARTIALLY_SUPPORTED" ELSE "UNSUPPORTED"

IsSocialOnly(c) ==
  /\ Linked(c, "supporting") # {}
  /\ \A p \in Linked(c, "supporting") : Role[p] = "social_media"

LoadBearingFacts == {c \in loadBearing : Kind(c) = "FACT"}

\* An INFERENCE may answer a factual question on partial support; see research_policy.json.
MeetsFactual(c) ==
  \/ Kind(c) \in {"FACT", "INFERENCE"} /\ grade[c] = "VERIFIED"
  \/ Kind(c) = "INFERENCE" /\ grade[c] = "PARTIALLY_SUPPORTED"
Factual == {c \in loadBearing : MeetsFactual(c)}
Sentiment == {c \in loadBearing : grade[c] = "VERIFIED"}
QuestionSatisfied ==
  CASE Question = "FACTUAL" -> Factual # {}
    [] Question = "SENTIMENT" -> Sentiment # {}
    [] OTHER -> \E f \in Factual, s \in Sentiment : f # s

StoppingConditionMet == exhausted \/ Cardinality(initial) >= MaxSources
Resolved == {c \in claims : grade[c] # "UNSUPPORTED"}

Completeness ==
  IF /\ loadBearing # {}
     /\ loadBearing \subseteq Resolved
     /\ QuestionSatisfied
     /\ StoppingConditionMet
     /\ 10 * Cardinality(Resolved) >= 7 * Cardinality(claims)
     /\ \E c \in claims : grade[c] = "VERIFIED" /\ Kind(c) # "OPINION"
  THEN "RESEARCH_COMPLETE" ELSE "INSUFFICIENT_EVIDENCE"

-----------------------------------------------------------------------------
(* An attempt begins, is abandoned, or dies.                               *)

Goto(pc) == attempt' = [attempt EXCEPT !.pc = pc]
Return == attempt' = At("idle")
IsQuarantined == retry = RetryCap

\* Mutant: the sources checkpoint is not looked at.
ResumePointBlind ==
  IF "EXTRACTION" \notin checkpoint THEN "acquire"
  ELSE IF "CONTRADICTION" \notin checkpoint THEN "contradict" ELSE "plan"
\* The phase a resumed attempt starts from: the first its checkpoints lack.
ResumePoint ==
  IF "SOURCES" \notin checkpoint THEN "acquire"
  ELSE IF "EXTRACTION" \notin checkpoint THEN "extract"
  ELSE IF "CONTRADICTION" \notin checkpoint THEN "contradict" ELSE "plan"

Begin ==
  /\ attempt.pc = "idle"
  /\ status \in {"NONE", "RESEARCHING"}
  /\ ~IsQuarantined
  /\ status' = "RESEARCHING"
  /\ attempt' = At(ResumePoint)
  /\ UNCHANGED <<checkpoint, sources, evidence, expansion, retry, mishaps>>

\* The phases in which a provider failure abandons the attempt.
Calling ==
  \/ attempt.pc = "extract" /\ retrieved # {}
  \/ attempt.pc = "contradict" /\ Cardinality(LoadBearingFacts) >= 2

\* TRANSIENT: one attempt is recorded, and the project stays where it was.
AbandonTransient ==
  /\ Calling
  /\ retry' = retry + 1
  /\ Return
  /\ UNCHANGED <<status, checkpoint, sources, evidence, expansion, mishaps>>

\* INFRASTRUCTURE: nothing is recorded.
AbandonInfrastructure ==
  /\ Calling
  /\ mishaps < MaxMishap
  /\ mishaps' = mishaps + 1
  /\ Return
  /\ UNCHANGED <<status, checkpoint, sources, evidence, expansion, retry>>

\* UNCLASSIFIED, and a discovery that throws: the project has failed.
Fail ==
  /\ \/ attempt.pc = "acquire"
     \/ attempt.pc = "extract" /\ Calling
  /\ status' = "FAILED"
  /\ Return
  /\ UNCHANGED <<checkpoint, sources, evidence, expansion, retry, mishaps>>

\* The process dies; what it had not committed is gone.
Crash ==
  /\ attempt.pc # "idle"
  /\ mishaps < MaxMishap
  /\ mishaps' = mishaps + 1
  /\ Return
  /\ UNCHANGED <<status, checkpoint, sources, evidence, expansion, retry>>

-----------------------------------------------------------------------------
(* Sources.                                                                *)

InsertSources(a) ==
  /\ stored' = [p \in Page |-> IF p \in a.pages THEN stored[p] + 1 ELSE stored[p]]
  /\ retrieved' = retrieved \cup a.ok
  /\ attemptsUsed' = attemptsUsed + a.tries

\* Rows without their checkpoint make the code refuse to go on.
PersistSources ==
  /\ attempt.pc = "acquire"
  /\ Known = {}
  /\ \E found \in Discover({}, MaxSources) :
       \E a \in AcquireSources(found, MaxSources, MaxAttempts) :
         /\ InsertSources(a)
         /\ initial' = a.pages
         /\ exhausted' = (a.visited = Len(found))
  /\ checkpoint' = checkpoint \cup {"SOURCES"}
  /\ Goto("extract")
  /\ UNCHANGED <<status, evidence, expansion, retry, mishaps>>

-----------------------------------------------------------------------------
(* Claims and contradictions.                                              *)

\* Mutant: three extractions of a page.
ThriceExtracted(isolated) == Cardinality(retrieved) + 2 * Cardinality(isolated)..3 * Cardinality(retrieved)
ExtractionCalls(isolated) == Cardinality(retrieved) + Cardinality(isolated)..2 * Cardinality(retrieved)

\* Every readable page is sent to the model, twice when its output is unusable;
\* a page that stays unusable is isolated.
PersistExtraction ==
  /\ attempt.pc = "extract"
  /\ \E isolated \in SUBSET retrieved :
       /\ \E found \in RowsOf(retrieved \ isolated) :
            /\ Len(found) <= MaxClaims
            /\ rows' = found
            /\ loadBearing' = {c \in DOMAIN found : found[c].loadBearing}
            /\ links' = UNION {{[claim |-> c, page |-> said[1], role |-> "supporting"] : said \in found[c].said} :
                               c \in DOMAIN found}
       /\ \E calls \in ExtractionCalls(isolated) :
            attempt' = [attempt EXCEPT !.pc = "contradict", !.used = @ + calls]
  /\ checkpoint' = checkpoint \cup {"EXTRACTION"}
  /\ UNCHANGED <<status, sources, contradicts, grade, expansion, retry, mishaps>>

\* The first load-bearing facts in the order of their rows.
Checked ==
  {c \in LoadBearingFacts : Cardinality({d \in LoadBearingFacts : d < c}) < MaxEligible}
PairsOf(F) == {pair \in SUBSET F : Cardinality(pair) = 2}

\* With fewer than two facts nothing is compared, and no checkpoint is written.
SkipContradiction ==
  /\ attempt.pc = "contradict"
  /\ Cardinality(LoadBearingFacts) < 2
  /\ Goto("plan")
  /\ UNCHANGED <<status, checkpoint, sources, evidence, expansion, retry, mishaps>>

PersistContradictions ==
  /\ attempt.pc = "contradict"
  /\ Cardinality(LoadBearingFacts) >= 2
  /\ contradicts' \in SUBSET PairsOf(Checked)
  /\ attempt' = [attempt EXCEPT !.pc = "plan", !.used = @ + Cardinality(PairsOf(Checked))]
  /\ checkpoint' = checkpoint \cup {"CONTRADICTION"}
  /\ UNCHANGED <<status, sources, rows, loadBearing, links, grade, expansion, retry, mishaps>>

\* A pair that cannot be judged: what was found before it is kept, the project has failed.
FailContradiction ==
  /\ attempt.pc = "contradict"
  /\ Cardinality(LoadBearingFacts) >= 2
  /\ \E pair \in PairsOf(Checked) : contradicts' \in SUBSET (PairsOf(Checked) \ {pair})
  /\ status' = "FAILED"
  /\ Return
  /\ UNCHANGED <<checkpoint, sources, rows, loadBearing, links, grade, expansion, retry, mishaps>>

-----------------------------------------------------------------------------
(* Evidence verification and expansion: enrichEvidence.                    *)

LinkedDomains(c) == {Domain[p] : p \in Linked(c, "supporting")}

\* Sets of candidates for one claim: new publishers, one page of each.
CandidateSets(c) ==
  {S \in SUBSET {p \in Page : /\ Eligible(p)
                              /\ p \notin Linked(c, "supporting")
                              /\ Domain[p] \notin LinkedDomains(c)} :
     /\ Cardinality(S) <= MaxCandidates
     /\ \A p, q \in S : Domain[p] = Domain[q] => p = q}
Plans(C) ==
  {P \in SUBSET (C \X {p \in Page : Eligible(p)}) :
     \A c \in C : {p \in Page : <<c, p>> \in P} \in CandidateSets(c)}

Unsettled ==
  {c \in loadBearing : /\ Kind(c) # "OPINION"
                       /\ ComputeEvidenceStatus(c) \in {"PARTIALLY_SUPPORTED", "UNSUPPORTED"}}

PlanVerification ==
  /\ attempt.pc = "plan"
  /\ "EXPANSION" \notin checkpoint
  /\ \E P \in Plans(Unsettled) :
       attempt' = [attempt EXCEPT !.pc = "verify", !.plan = P,
                                  !.facts = {c \in Unsettled : Kind(c) = "FACT"}]
  /\ UNCHANGED <<status, checkpoint, sources, evidence, expansion, retry, mishaps>>

\* Only the claim the expansion served is verified again, with the calls it had left.
ResumeExpansion ==
  /\ attempt.pc = "plan"
  /\ "EXPANSION" \in checkpoint
  /\ \E P \in Plans({expansion.claim}) :
       attempt' = [attempt EXCEPT !.pc = "verify", !.plan = P, !.calls = expansion.calls]
  /\ UNCHANGED <<status, checkpoint, sources, evidence, expansion, retry, mishaps>>

\* What one verifier call adds: a link of either role for a quote proven to be in
\* the page; nothing for any other answer, and for a provider error.
Answers(c, p) == {{}} \cup {{[claim |-> c, page |-> p, role |-> r]} : r \in {"supporting", "contradicting"}}

\* The claims in turn, facts first; one is done with before the next.  The stop
\* after three provider errors in a row ends no claim sooner than its candidates do.
InTurn(c) ==
  LET waiting == {pair[1] : pair \in attempt.plan} IN
  IF attempt.turn \in waiting THEN c = attempt.turn
  ELSE Kind(c) = "FACT" \/ \A d \in waiting : Kind(d) # "FACT"

\* One verifier call; a settled claim needs no more.
Verify ==
  /\ attempt.pc = "verify"
  /\ attempt.calls > 0
  /\ UNCHANGED <<status, checkpoint, sources, rows, loadBearing, contradicts, grade,
                 expansion, retry, mishaps>>
  /\ \E pair \in attempt.plan :
       /\ InTurn(pair[1])
       /\ \E answer \in Answers(pair[1], pair[2]) : links' = links \cup answer
       /\ attempt' =
            [attempt EXCEPT !.calls = @ - 1, !.used = @ + 1, !.turn = pair[1],
                            !.plan = IF ComputeEvidenceStatus(pair[1])' \in {"VERIFIED", "CONTESTED"}
                                     THEN {q \in @ : q[1] # pair[1]} ELSE @ \ {pair}]

\* The workload breaker has opened: no further call of this attempt reaches a provider.
Halt ==
  /\ attempt.pc = "verify"
  /\ attempt.plan # {} /\ attempt.calls > 0
  /\ attempt' = [attempt EXCEPT !.plan = {}, !.halted = TRUE]
  /\ UNCHANGED <<status, checkpoint, sources, evidence, expansion, retry, mishaps>>

VerifiedFact == \E c \in LoadBearingFacts : ComputeEvidenceStatus(c) = "VERIFIED"
\* Mutant: the expansion has an allowance of its own.
RoomOfItsOwn == MaxSources
Room == MaxSources - Cardinality(initial)
Budget == MaxAttempts - attemptsUsed
MayExpand ==
  /\ "EXPANSION" \notin checkpoint
  /\ attempt.plan = {} /\ attempt.calls > 0
  /\ ~VerifiedFact
  /\ attempt.facts # {}
  /\ Room > 0 /\ Budget > 0

\* Publishers the claim is linked with, for or against.
KnownDomains(top) == {Domain[l.page] : l \in {k \in links : k.claim = top}}

\* One pass for the claim that most needs it, within what the project has left.
Expand(top) ==
  /\ attempt.pc = "verify"
  /\ MayExpand
  /\ top \in attempt.facts
  /\ \E found \in Cascade(Known, KnownDomains(top), Room, Budget) :
       \E a \in AcquireSources(found, Room, Budget) : InsertSources(a)
  /\ checkpoint' = checkpoint \cup {"EXPANSION"}
  /\ expansion' = [claim |-> top, calls |-> attempt.calls]
  /\ UNCHANGED <<status, initial, exhausted, evidence, retry, mishaps>>
  /\ \E P \in IF attempt.halted THEN {{}} ELSE Plans({top})' : attempt' = [attempt EXCEPT !.plan = P]

EndEnrichment ==
  /\ attempt.pc = "verify"
  /\ attempt.plan = {} \/ attempt.calls = 0
  /\ ~MayExpand
  /\ Goto("grade")
  /\ UNCHANGED <<status, checkpoint, sources, evidence, expansion, retry, mishaps>>

-----------------------------------------------------------------------------
(* Grading and the verdict.                                                *)

\* Claims that only social pages carry stop being load-bearing; all are graded.
Grade ==
  /\ attempt.pc = "grade"
  /\ loadBearing' = {c \in loadBearing : ~IsSocialOnly(c)}
  /\ grade' = [c \in Claim |-> IF c \in claims THEN ComputeEvidenceStatus(c) ELSE grade[c]]
  /\ Goto("complete")
  /\ UNCHANGED <<status, checkpoint, sources, rows, links, contradicts, expansion, retry, mishaps>>

Complete ==
  /\ attempt.pc = "complete"
  /\ status' = Completeness
  /\ Return
  /\ UNCHANGED <<checkpoint, sources, evidence, expansion, retry, mishaps>>

Step ==
  \/ Begin \/ PersistSources \/ PersistExtraction
  \/ SkipContradiction \/ PersistContradictions
  \/ PlanVerification \/ ResumeExpansion \/ Verify
  \/ \E top \in Claim : Expand(top)
  \/ EndEnrichment \/ Grade \/ Complete

Next ==
  \/ Step
  \/ AbandonTransient \/ AbandonInfrastructure \/ Fail \/ FailContradiction \/ Halt \/ Crash

\* Every sweep of the runner selects the project again while it is RESEARCHING
\* and not quarantined, and an attempt is awaited to its end.
Spec == Init /\ [][Next]_vars /\ WF_vars(Step)

-----------------------------------------------------------------------------
(* Properties.                                                             *)

\* What the project has stored is within its ceilings and accounted for: no page
\* is stored twice, the rows and the retrievals of the initial pass and of the
\* expansion together stay within max_sources and max_acquisition_attempts, and
\* evidence exists only under the checkpoint of its transaction, whatever
\* attempt died, was abandoned or resumed in between (acquisition.js, enrichEvidence).
StoredWithinCeilings ==
  /\ \A p \in Page : stored[p] <= 1
  /\ Cardinality(Known) <= MaxSources
  /\ attemptsUsed <= MaxAttempts
  /\ Known # {} => "SOURCES" \in checkpoint
  /\ claims # {} => {"SOURCES", "EXTRACTION"} \subseteq checkpoint

\* The workload budget of one attempt covers what its phases may ask for, so no
\* call within the verifier's own budget is refused by it: an attempt never
\* ends with less evidence because a page needed a second extraction
\* (llmWorkload.js derives its default so).
WorkloadSuffices ==
  attempt.pc = "verify" /\ attempt.plan # {} /\ attempt.calls > 0 => attempt.used < Workload

Trusted(c) ==
  \/ \E p \in Linked(c, "supporting") : p \in retrieved /\ Role[p] = "primary_authoritative"
  \/ \E p, q \in Linked(c, "supporting") \cap retrieved :
       /\ Domain[p] # Domain[q]
       /\ Role[p] = "independent_reporting" /\ Role[q] = "independent_reporting"

\* A project is RESEARCH_COMPLETE only on evidence a brief can be built from: it
\* has a load-bearing claim, none of those is without admissible evidence, some claim is
\* VERIFIED, and every VERIFIED claim is carried by an authoritative page or by two
\* publishers, none contradicted.  A verdict of either kind is reached only
\* over a committed extraction, and over a committed comparison of the
\* load-bearing facts when there are two: no provider failure passes for a
\* lack of evidence (runResearchBody, evaluateCompleteness, computeEvidenceStatus).
VerdictIsEarned ==
  /\ status \in Verdict =>
       /\ "EXTRACTION" \in checkpoint
       /\ Cardinality(LoadBearingFacts) >= 2 => "CONTRADICTION" \in checkpoint
  /\ status = "RESEARCH_COMPLETE" =>
       /\ loadBearing # {}
       /\ \A c \in loadBearing : IsContradicted(c) \/ \E p \in Linked(c, "supporting") : Eligible(p)
       /\ \E c \in claims : grade[c] = "VERIFIED" /\ Kind(c) # "OPINION"
       /\ \A c \in claims : grade[c] = "VERIFIED" => Trusted(c) /\ ~IsContradicted(c)

\* Pages share a claim row only if their wordings can state the same fact: none
\* negates what another affirms, and they differ in no event, relation, year,
\* amount or month that both name.  An identity the model got wrong, a rewrite it
\* made up and the order of the pages never join evidence of two facts
\* (claimIdentity.js: a false merge would corrupt evidence integrity).
RowsStateOneFact ==
  \A c \in claims : \A s, t \in rows[c].said : s[1] # t[1] => ~Disagree(s[2], t[2])

\* While crashes and outages are finite, a project that has begun reaches a
\* verdict, fails, or is quarantined after its transient failures: none is
\* selected for ever (workSelection.js keeps selecting what is RESEARCHING).
Settles ==
  (status = "RESEARCHING") ~> (status \notin {"NONE", "RESEARCHING"} \/ IsQuarantined)
=============================================================================
