------------------------------ MODULE Discovery ------------------------------
(***************************************************************************)
(* Discovery, run after run: the observation memory admits what the feeds  *)
(* bring, duplicates of one batch are dropped, a budget of fresh           *)
(* evaluations goes to those that have waited longest, evaluations of an   *)
(* unfinished run are used again, and a portfolio is handed to research.   *)
(*                                                                         *)
(* Rows are durable and the rest belongs to a run, which may end at any    *)
(* point.  Times are kept as what is asked of them: whether a cooldown is  *)
(* running, whether a record is younger than the last outcome, and the     *)
(* order of the last fresh evaluations.  An observation is its identity    *)
(* key; hard eligibility, which a text passes or fails for good, is taken  *)
(* as done, and the workload ceilings of dedup lie above every pair of a   *)
(* batch (4,950 for the 100 observations the feeds may bring).             *)
(***************************************************************************)
EXTENDS Integers, FiniteSets, SequencesExt

CONSTANTS
  Observation, \* identity keys, in their order
  Persistent,  \* observations every fetch brings
  Event,       \* the event an observation is judged to be about
  Unsound,     \* observations without a viable proposition or features
  Budget,      \* discoveryFreshEvaluationBudget
  TopK,        \* discoveryTopK
  MaxEdit,     \* bound: changes of title or description
  MaxMishap    \* bound: runs that die, throw, or fail a sound observation

ASSUME DiscoveryAssumption ==
  /\ Observation \subseteq Int
  /\ Persistent \cup Unsound \subseteq Observation
  /\ Event \in [Observation -> Observation]
  /\ {Budget, TopK, MaxEdit, MaxMishap} \subseteq Nat

VARIABLES
  content,  \* title and description, as the feed has them
  ledger,   \* evaluation_outcome of discovery_observations
  cooling,  \* last_evaluated_at is less than cooldownHours ago
  stored,   \* the content of the discovery_evaluations row
  current,  \* its completed_at is after last_evaluated_at
  fresh,    \* discovery_evaluation_schedule: who was evaluated, oldest first
  offered,  \* observations with a row in opportunities
  handed,   \* those with one that was HANDED_TO_RESEARCH
  pc,       \* off, dedup, evaluate, or persist
  admitted, reused, todo, scored, selected, unsaved, \* of the run
  done,     \* history: the content evaluated afresh since the last outcome
  edits, mishaps

None == 0 - 1
Content == 0..MaxEdit
Outcome == {"NOT_EVALUATED", "SELECTED", "SCORED_NOT_SELECTED", "NOT_SCORED_UNRESOLVED"}

memory == <<ledger, cooling>>
evaluations == <<stored, current, fresh, done>>
opportunities == <<offered, handed>>
run == <<admitted, reused, todo, scored, selected, unsaved>>
bounds == <<content, edits, mishaps>>
vars == <<memory, evaluations, opportunities, pc, run, bounds>>

TypeOK ==
  /\ content \in [Observation -> Content]
  /\ ledger \in [Observation -> Outcome \cup {"NONE"}]
  /\ cooling \in [Observation -> BOOLEAN] /\ current \in [Observation -> BOOLEAN]
  /\ stored \in [Observation -> Content \cup {None}] /\ done \in [Observation -> Content \cup {None}]
  /\ fresh \in Seq(Observation)
  /\ {offered, handed} \subseteq SUBSET Observation
  /\ pc \in {"off", "dedup", "evaluate", "persist"}
  /\ {admitted, reused, todo, scored, selected, unsaved} \subseteq SUBSET Observation
  /\ edits \in 0..MaxEdit /\ mishaps \in 0..MaxMishap

Forget == admitted' = {} /\ reused' = {} /\ todo' = {} /\ scored' = {} /\ selected' = {} /\ unsaved' = {}

Init ==
  /\ content = [o \in Observation |-> 0]
  /\ ledger = [o \in Observation |-> "NONE"]
  /\ cooling = [o \in Observation |-> FALSE] /\ current = cooling
  /\ stored = [o \in Observation |-> None] /\ done = stored
  /\ fresh = <<>> /\ offered = {} /\ handed = {}
  /\ pc = "off"
  /\ admitted = {} /\ reused = {} /\ todo = {} /\ scored = {} /\ selected = {} /\ unsaved = {}
  /\ edits = 0 /\ mishaps = 0

-----------------------------------------------------------------------------
(* discoveryMemory.js                                                      *)

\* decideReconsideration
Suppressed(o) == ledger[o] = "SCORED_NOT_SELECTED" /\ cooling[o]

\* prepareDiscoveryMemory: one transaction.  SELECTED is sticky.
Prepare ==
  /\ pc = "off"
  /\ \E feed \in SUBSET Observation :
       /\ Persistent \subseteq feed
       /\ admitted' = {o \in feed : ~Suppressed(o)}
  /\ ledger' = [o \in Observation |->
       IF o \in admitted' /\ ledger[o] # "SELECTED" THEN "NOT_EVALUATED" ELSE ledger[o]]
  /\ pc' = "dedup"
  /\ UNCHANGED <<cooling, evaluations, opportunities, reused, todo, scored, selected, unsaved, bounds>>

\* Mutant: whatever was not selected is taken for scored.
OutcomeOfAll(o) == IF o \in selected THEN "SELECTED" ELSE "SCORED_NOT_SELECTED"
OutcomeOf(o) ==
  IF o \in selected THEN "SELECTED"
  ELSE IF o \in scored THEN "SCORED_NOT_SELECTED" ELSE "NOT_SCORED_UNRESOLVED"

\* recordDiscoveryOutcomes, after the pipeline has returned: one transaction.
RecordOutcomes ==
  LET closed == {o \in admitted : ledger[o] # "SELECTED"} IN
  /\ pc = "persist" /\ unsaved = {}
  /\ ledger' = [o \in Observation |-> IF o \in closed THEN OutcomeOf(o) ELSE ledger[o]]
  /\ cooling' = [o \in Observation |-> o \in closed \/ cooling[o]]
  /\ current' = [o \in Observation |-> o \notin closed /\ current[o]]
  /\ done' = [o \in Observation |-> IF o \in closed THEN None ELSE done[o]]
  /\ pc' = "off" /\ Forget
  /\ UNCHANGED <<stored, fresh, opportunities, bounds>>

\* The cooldown of an observation elapses.
Expire(o) ==
  /\ cooling[o]
  /\ cooling' = [cooling EXCEPT ![o] = FALSE]
  /\ UNCHANGED <<ledger, evaluations, opportunities, pc, run, bounds>>

-----------------------------------------------------------------------------
(* discovery/pipeline.js                                                   *)

\* What dedup may leave of a batch: a dropped observation is a duplicate of one
\* that is kept; one with a distinct angle may be kept as well.
Accepted == {a \in SUBSET admitted : \A o \in admitted \ a : \E p \in a : Event[p] = Event[o]}

\* evaluationStore.lookup
Reusable(o) == stored[o] = content[o] /\ current[o]

\* Mutant: the schedule is not consulted.
BeforeByKey(o, p) == o < p
\* lastFreshEvaluatedAt: a place in the order of evaluations, 0 for none
LastFresh(o) ==
  IF \E n \in DOMAIN fresh : fresh[n] = o
  THEN CHOOSE n \in DOMAIN fresh : fresh[n] = o ELSE 0
\* last_fresh_evaluation_at ASC NULLS FIRST, identity_key ASC
Before(o, p) == LastFresh(o) < LastFresh(p) \/ (LastFresh(o) = LastFresh(p) /\ o < p)

\* Reuse first, then the first of the others, up to the budget.
Schedule ==
  /\ pc = "dedup"
  /\ \E a \in Accepted :
       LET needs == {o \in a : ~Reusable(o)}
           chosen == {o \in needs : Cardinality({p \in needs : p # o /\ Before(p, o)}) < Budget}
       IN reused' = a \ needs /\ todo' = (a \ needs) \cup chosen
  /\ pc' = "evaluate"
  /\ UNCHANGED <<memory, evaluations, opportunities, admitted, scored, selected, unsaved, bounds>>

Taken(o) == pc = "evaluate" /\ o \in todo /\ todo' = todo \ {o}

\* A reused evaluation is scored under the current configuration.
Reuse(o) ==
  /\ Taken(o) /\ o \in reused
  /\ scored' = scored \cup {o}
  /\ UNCHANGED <<memory, evaluations, opportunities, pc, admitted, reused, selected, unsaved, bounds>>

\* Mutant: what was evaluated is kept in memory until the run is over.
CommitNothing(o) == UNCHANGED <<stored, current, fresh>>
\* evaluationStore.commit and recordFreshEvaluation: one transaction.
Commit(o) ==
  /\ stored' = [stored EXCEPT ![o] = content[o]]
  /\ current' = [current EXCEPT ![o] = TRUE]
  /\ fresh' = Append(Remove(fresh, o), o)

\* Proposition, features, the commit, and the score.
Evaluate(o) ==
  /\ Taken(o) /\ o \notin reused \cup Unsound
  /\ Commit(o)
  /\ done' = [done EXCEPT ![o] = content[o]]
  /\ scored' = scored \cup {o}
  /\ UNCHANGED <<memory, opportunities, pc, admitted, reused, selected, unsaved, bounds>>

Mishap == mishaps < MaxMishap /\ mishaps' = mishaps + 1

\* An invalid proposition, or features that cannot be read: nothing is kept.
Reject(o) ==
  /\ Taken(o) /\ o \notin reused
  /\ IF o \in Unsound THEN UNCHANGED mishaps ELSE Mishap
  /\ UNCHANGED <<memory, evaluations, opportunities, pc, admitted, reused, scored, selected,
                 unsaved, content, edits>>

\* selectDiversePortfolio over what the risk gate has left.
Select ==
  /\ pc = "evaluate" /\ todo = {}
  /\ \E s \in SUBSET scored : Cardinality(s) <= TopK /\ selected' = s
  /\ unsaved' = scored
  /\ pc' = "persist"
  /\ UNCHANGED <<memory, evaluations, opportunities, admitted, reused, todo, scored, bounds>>

\* insertOpportunity, one statement after the other.
Persist(o) ==
  /\ pc = "persist" /\ o \in unsaved
  /\ unsaved' = unsaved \ {o}
  /\ offered' = offered \cup {o}
  /\ handed' = IF o \in selected THEN handed \cup {o} ELSE handed
  /\ UNCHANGED <<memory, evaluations, pc, admitted, reused, todo, scored, selected, bounds>>

\* A call that throws ends the run, as the death of the process does.
Abort ==
  /\ pc # "off" /\ Mishap
  /\ pc' = "off" /\ Forget
  /\ UNCHANGED <<memory, evaluations, opportunities, content, edits>>

\* The feed changes the text of an observation.
Edit ==
  /\ pc = "off" /\ edits < MaxEdit
  /\ edits' = edits + 1
  /\ \E o \in Observation : content' = [content EXCEPT ![o] = @ + 1]
  /\ UNCHANGED <<memory, evaluations, opportunities, pc, run, mishaps>>

Run ==
  \/ Prepare \/ Schedule \/ Select \/ RecordOutcomes
  \/ \E o \in Observation : Reuse(o) \/ Evaluate(o) \/ Reject(o) \/ Persist(o)
Next == Run \/ (\E o \in Observation : Expire(o)) \/ Abort \/ Edit

\* Runs are scheduled for ever, and cooldowns elapse.
Spec == Init /\ [][Next]_vars /\ WF_vars(Run) /\ \A o \in Observation : WF_vars(Expire(o))

-----------------------------------------------------------------------------
(* Properties.                                                             *)

\* ADR-0033: evaluations survive a run that dies.  A text is evaluated afresh
\* at most once until an outcome has been recorded for its observation.
FreshOncePerCycle ==
  [][\A o \in Observation :
       o \in scored' \ scored /\ o \notin reused => done[o] # content[o]]_vars

\* The memory never claims more than the opportunities show: an observation it
\* suppresses was scored and kept, one it calls SELECTED was handed to research,
\* wherever a run has died between the two.
OutcomesAreKept ==
  \A o \in Observation :
    /\ ledger[o] = "SCORED_NOT_SELECTED" => o \in offered
    /\ ledger[o] = "SELECTED" => o \in handed

\* ADR-0034: as long as fewer observations fail than the budget serves, each
\* sound observation that every fetch brings, and that is nobody's duplicate, is
\* scored again and again.
NobodyStarves ==
  \A o \in Persistent \ Unsound :
    (\A p \in Observation \ {o} : Event[p] # Event[o]) => []<>(o \in scored)
=============================================================================
