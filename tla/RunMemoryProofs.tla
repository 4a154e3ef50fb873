---------------------------- MODULE RunMemoryProofs ----------------------------
(***************************************************************************)
(* What one run leaves for the next.  The memory of discovery (module      *)
(* Discovery), for any observations, feeds, events, budgets and number of  *)
(* crashes; and the state that hosted runs pass on through the cache       *)
(* (module RunState), for any number of jobs.                              *)
(***************************************************************************)
EXTENDS Discovery, RunState, TLAPS

-----------------------------------------------------------------------------
(* The memory of discovery.                                                *)

\* What the variables of the proofs range over.
TypeInv ==
  /\ content \in [Observation -> Nat]
  /\ stored \in [Observation -> Nat \cup {None}] /\ done \in [Observation -> Nat \cup {None}]
  /\ current \in [Observation -> BOOLEAN]
  /\ ledger \in [Observation -> Outcome \cup {"NONE"}]

\* What has been evaluated since the last outcome is in the store, as current;
\* and what a run still has to evaluate afresh has not been.
CycleInv ==
  /\ \A o \in Observation : done[o] # None => stored[o] = done[o] /\ current[o]
  /\ pc = "evaluate" => \A o \in todo \ reused : o \in Observation => done[o] # content[o]

\* What has left unsaved is in the table, before any outcome is recorded.
KeptInv ==
  /\ OutcomesAreKept
  /\ pc = "persist" => scored \ unsaved \subseteq offered
  /\ pc = "persist" => selected \ unsaved \subseteq handed

DiscoveryInv == TypeInv /\ CycleInv /\ KeptInv

-----------------------------------------------------------------------------

\* Nothing is claimed and nothing is stored at first.
LEMMA DiscoveryInit == Init => DiscoveryInv
<1> SUFFICES ASSUME Init PROVE DiscoveryInv
  OBVIOUS
<1>1. TypeInv
  BY DEF Init, TypeInv, Outcome
<1>2. CycleInv
  BY DEF Init, CycleInv, None
<1>3. KeptInv
  BY DEF Init, KeptInv, OutcomesAreKept
<1> QED BY <1>1, <1>2, <1>3 DEF DiscoveryInv

\* Every step keeps the types.
LEMMA TypeStep == ASSUME TypeInv, [Next]_vars PROVE TypeInv'
<1> USE DEF TypeInv, Outcome
<1>1. CASE Prepare
  BY <1>1 DEF Prepare, evaluations, bounds
<1>2. CASE RecordOutcomes
  BY <1>2 DEF RecordOutcomes, OutcomeOf, None, bounds
<1>3. CASE Schedule \/ Select
  BY <1>3 DEF Schedule, Select, memory, evaluations, bounds
<1>4. ASSUME NEW o \in Observation, Reuse(o) \/ Reject(o) \/ Persist(o) PROVE TypeInv'
  BY <1>4 DEF Reuse, Reject, Persist, memory, evaluations, bounds
<1>5. ASSUME NEW o \in Observation, Evaluate(o) PROVE TypeInv'
  BY <1>5 DEF Evaluate, Commit, memory, bounds
<1>6. ASSUME NEW o \in Observation, Expire(o) PROVE TypeInv'
  BY <1>6 DEF Expire, evaluations, bounds
<1>7. CASE Abort
  BY <1>7 DEF Abort, memory, evaluations
<1>8. CASE Edit
  BY <1>8 DEF Edit, memory, evaluations
<1>9. CASE UNCHANGED vars
  BY <1>9 DEF vars, memory, evaluations, bounds
<1> QED BY <1>1, <1>2, <1>3, <1>4, <1>5, <1>6, <1>7, <1>8, <1>9 DEF Next, Run

\* Every step keeps the cycle: only a commit or an outcome touches it, and the
\* texts do not change while a run is on.
LEMMA CycleStep == ASSUME TypeInv, CycleInv, [Next]_vars PROVE CycleInv'
<1> USE DEF TypeInv, CycleInv
<1>1. CASE Prepare
  BY <1>1 DEF Prepare, evaluations, bounds
<1>2. CASE RecordOutcomes
  BY <1>2 DEF RecordOutcomes, bounds
<1>3. CASE Schedule
  <2>1. UNCHANGED <<stored, current, done, content>>
    BY <1>3 DEF Schedule, evaluations, bounds
  <2>2. \A o \in todo' \ reused' : o \in Observation => ~Reusable(o)
    BY <1>3 DEF Schedule
  <2>3. \A o \in todo' \ reused' : o \in Observation => done[o] # content[o]
    BY <2>2 DEF Reusable, None
  <2> QED BY <2>1, <2>3
<1>4. CASE Select
  BY <1>4 DEF Select, evaluations, bounds
<1>5. ASSUME NEW o \in Observation, Reuse(o) \/ Reject(o) \/ Persist(o) PROVE CycleInv'
  BY <1>5 DEF Reuse, Reject, Persist, Taken, evaluations, bounds
<1>6. ASSUME NEW o \in Observation, Evaluate(o) PROVE CycleInv'
  BY <1>6 DEF Evaluate, Taken, Commit, bounds
<1>7. ASSUME NEW o \in Observation, Expire(o) PROVE CycleInv'
  BY <1>7 DEF Expire, evaluations, run, bounds
<1>8. CASE Abort
  BY <1>8 DEF Abort, evaluations
<1>9. CASE Edit
  BY <1>9 DEF Edit, evaluations
<1>10. CASE UNCHANGED vars
  BY <1>10 DEF vars, evaluations, run, bounds
<1> QED BY <1>1, <1>2, <1>3, <1>4, <1>5, <1>6, <1>7, <1>8, <1>9, <1>10 DEF Next, Run

\* Every step keeps the memory true of the opportunities: outcomes are recorded
\* last, from what has been saved.
LEMMA KeptStep == ASSUME TypeInv, KeptInv, [Next]_vars PROVE KeptInv'
<1> USE DEF TypeInv, KeptInv, OutcomesAreKept
<1>1. CASE Prepare
  BY <1>1 DEF Prepare, opportunities
<1>2. CASE RecordOutcomes
  <2>1. UNCHANGED <<offered, handed>> /\ pc' = "off"
    BY <1>2 DEF RecordOutcomes, opportunities
  <2>2. scored \subseteq offered /\ selected \subseteq handed
    BY <1>2 DEF RecordOutcomes
  <2>3. \A o \in Observation : ledger'[o] = ledger[o] \/ ledger'[o] = OutcomeOf(o)
    BY <1>2 DEF RecordOutcomes
  <2> QED BY <2>1, <2>2, <2>3 DEF OutcomeOf
<1>3. CASE Schedule
  BY <1>3 DEF Schedule, memory, opportunities
<1>4. CASE Select
  BY <1>4 DEF Select, memory, opportunities
<1>5. ASSUME NEW o \in Observation, Reuse(o) \/ Reject(o) PROVE KeptInv'
  BY <1>5 DEF Reuse, Reject, Taken, memory, opportunities
<1>6. ASSUME NEW o \in Observation, Evaluate(o) PROVE KeptInv'
  BY <1>6 DEF Evaluate, Taken, memory, opportunities
<1>7. ASSUME NEW o \in Observation, Persist(o) PROVE KeptInv'
  BY <1>7 DEF Persist, memory
<1>8. ASSUME NEW o \in Observation, Expire(o) PROVE KeptInv'
  BY <1>8 DEF Expire, opportunities, run
<1>9. CASE Abort \/ Edit
  BY <1>9 DEF Abort, Edit, memory, opportunities
<1>10. CASE UNCHANGED vars
  BY <1>10 DEF vars, memory, opportunities, run
<1> QED BY <1>1, <1>2, <1>3, <1>4, <1>5, <1>6, <1>7, <1>8, <1>9, <1>10 DEF Next, Run

\* Every step keeps the whole.
LEMMA DiscoveryStep == DiscoveryInv /\ [Next]_vars => DiscoveryInv'
  BY TypeStep, CycleStep, KeptStep DEF DiscoveryInv

\* The memory claims only what the opportunities show, wherever runs die, for
\* any observations and feeds.
THEOREM MemoryTellsTheTruth == Spec => []OutcomesAreKept
<1>1. DiscoveryInv => OutcomesAreKept
  BY DEF DiscoveryInv, KeptInv
<1> QED BY <1>1, DiscoveryInit, DiscoveryStep, PTL DEF Spec

\* Only an evaluation scores what is not reused.
LEMMA OnlyEvaluateScores ==
  ASSUME DiscoveryInv, [Next]_vars, NEW o \in Observation, o \in scored' \ scored, o \notin reused
  PROVE  done[o] # content[o]
<1>1. \E p \in Observation : Reuse(p) \/ Evaluate(p)
  BY DEF Next, Run, Prepare, Schedule, Select, RecordOutcomes, Reject, Persist, Expire, Abort, Edit,
         Forget, run, vars
<1>2. PICK p \in Observation : Reuse(p) \/ Evaluate(p)
  BY <1>1
<1>3. o = p /\ Evaluate(p)
  BY <1>2 DEF Reuse, Evaluate
<1> QED BY <1>3 DEF Evaluate, Taken, DiscoveryInv, CycleInv

\* Completed evaluations survive: no text is evaluated afresh twice before an
\* outcome, however many runs die in between.
THEOREM EvaluationsSurvive == Spec => FreshOncePerCycle
<1>1. Spec => []DiscoveryInv
  BY DiscoveryInit, DiscoveryStep, PTL DEF Spec
<1>2. DiscoveryInv /\ [Next]_vars =>
        [\A o \in Observation : o \in scored' \ scored /\ o \notin reused => done[o] # content[o]]_vars
  BY OnlyEvaluateScores
<1> QED BY <1>1, <1>2, PTL DEF Spec, FreshOncePerCycle


-----------------------------------------------------------------------------
(* The cache of hosted runs, while the Owner reclaims no guard during a    *)
(* scheduled run.                                                          *)

\* No two jobs are in flight, and the one there is works on the newest entry.
CopyInv ==
  /\ \A g, h \in Group : job[g].pc # "none" /\ job[h].pc # "none" => g = h
  /\ \A g \in Group : job[g].pc # "none" /\ cache # <<>> => Newest.commits \subseteq job[g].db.commits

\* Only a copy whose rows and files agree is restored or saved.
FilesInv ==
  /\ job["scheduled"].pc \in {"restored", "save"} => job["scheduled"].db.files = "agree"
  /\ job["reclaim"].db.files = "agree"

\* A scheduled run that restored a held guard does no work.
GuardInv ==
  cache # <<>> /\ Newest.guard = "held" /\ job["scheduled"].pc # "none" =>
    job["scheduled"].pc # "working" /\ job["scheduled"].db.guard = "held"

RunStateInv == RunStateTypeOK /\ CopyInv /\ FilesInv /\ GuardInv /\ NothingSavedIsForgotten

LEMMA WriteType ==
  ASSUME RunStateTypeOK, NEW g \in Group, NEW to \in JobPc, NEW db \in Database, Write(g, to, db)
  PROVE  /\ commit' \in 0..MaxCommit /\ job' \in [Group -> Job]
         /\ job'[g].pc = to /\ job'[g].db.guard = db.guard /\ job'[g].db.files = db.files
         /\ db.commits \subseteq job'[g].db.commits
         /\ \A h \in Group \ {g} : job'[h] = job[h]
<1> DEFINE new == [commits |-> db.commits \cup {commit + 1}, guard |-> db.guard, files |-> db.files]
<1>1. commit + 1 \in 1..MaxCommit
  BY RunStateAssumption DEF RunStateAssumption, Write, RunStateTypeOK
<1>2. new \in Database
  BY <1>1 DEF Database
<1>3. job' = [job EXCEPT ![g] = [pc |-> to, db |-> new]] /\ commit' = commit + 1
  BY DEF Write
<1>4. new.guard = db.guard /\ new.files = db.files /\ db.commits \subseteq new.commits
  OBVIOUS
<1> HIDE DEF new
<1>5. QED
  BY <1>1, <1>2, <1>3, <1>4 DEF RunStateTypeOK, Job

\* What the next entry is, when one is added or the oldest is dropped.
LEMMA NewestAppended ==
  ASSUME NEW c \in Seq(Database), NEW d \in Database
  PROVE  /\ Append(c, d) \in Seq(Database) /\ Len(Append(c, d)) = Len(c) + 1
         /\ Append(c, d)[Len(c) + 1] = d
         /\ \A i \in 1..Len(c) : Append(c, d)[i] = c[i]
  OBVIOUS

LEMMA TailEntries ==
  ASSUME NEW c \in Seq(Database), c # <<>>
  PROVE  /\ Tail(c) \in Seq(Database) /\ Len(Tail(c)) = Len(c) - 1
         /\ \A i \in 1..Len(Tail(c)) : Tail(c)[i] = c[i + 1]
  OBVIOUS

\* A step of the job in flight that loses nothing its copy remembers, saves
\* nothing, and keeps its hands off a held guard.
LEMMA Continued ==
  ASSUME RunStateInv, NEW g \in Group, job[g].pc # "none", UNCHANGED cache, RunStateTypeOK',
         \A h \in Group \ {g} : job'[h] = job[h],
         job[g].db.commits \subseteq job'[g].db.commits,
         g = "scheduled" =>
           /\ job'[g].pc \in {"restored", "save"} => job'[g].db.files = "agree"
           /\ job[g].db.guard = "held" /\ job[g].pc # "working" =>
                job'[g].db.guard = "held" /\ job'[g].pc # "working",
         g = "reclaim" => job'[g].db.files = job[g].db.files
  PROVE  RunStateInv'
<1>1. Newest' = Newest
  BY DEF Newest
<1>2. CopyInv'
  BY <1>1 DEF RunStateInv, CopyInv
<1>3. FilesInv'
  BY DEF RunStateInv, FilesInv, Group
<1>4. GuardInv'
  BY <1>1 DEF RunStateInv, GuardInv, Group
<1>5. NothingSavedIsForgotten'
  BY <1>1 DEF RunStateInv, NothingSavedIsForgotten
<1>6. QED
  BY <1>2, <1>3, <1>4, <1>5 DEF RunStateInv

LEMMA StartStep ==
  ASSUME ReclaimAlone, RunStateInv, (\E g \in Group : Restore(g)) \/ RestoreMiss
  PROVE  RunStateInv'
<1>1. PICK g \in Group, db \in Database :
        /\ MayStart(g) /\ UNCHANGED <<cache, commit>>
        /\ job' = [job EXCEPT ![g] = [pc |-> "restored", db |-> db]]
        /\ IF cache = <<>> THEN db = Empty ELSE db = Newest
  <2>1. cache # <<>> => Newest \in Database
    BY DEF RunStateInv, RunStateTypeOK, Newest
  <2>2. Empty \in Database /\ "scheduled" \in Group
    BY DEF Empty, Database, Group
  <2>3. QED
    BY <2>1, <2>2 DEF Restore, RestoreMiss
<1>2. /\ job' \in [Group -> Job] /\ job'[g] = [pc |-> "restored", db |-> db]
      /\ \A h \in Group \ {g} : job'[h] = job[h] /\ job[h].pc = "none"
  BY <1>1 DEF RunStateInv, RunStateTypeOK, Job, JobPc, MayStart
<1>3. db.files = "agree"
  BY <1>1 DEF Empty, Newest, RunStateInv, RunStateTypeOK, NothingSavedIsForgotten
<1>4. RunStateTypeOK' /\ Newest' = Newest
  BY <1>1, <1>2 DEF RunStateInv, RunStateTypeOK, Newest
<1>5. CopyInv'
  BY <1>1, <1>2, <1>4 DEF CopyInv
<1>6. FilesInv'
  BY <1>2, <1>3 DEF RunStateInv, FilesInv, Group
<1>7. GuardInv'
  BY <1>1, <1>2, <1>4 DEF GuardInv, Group
<1>8. NothingSavedIsForgotten'
  BY <1>1, <1>4 DEF RunStateInv, NothingSavedIsForgotten
<1>9. QED
  BY <1>4, <1>5, <1>6, <1>7, <1>8 DEF RunStateInv

\* The steps of a job between its restore and its save.
LEMMA WorkStep ==
  ASSUME RunStateInv,
         \/ Acquire \/ RefuseRun \/ Work \/ Release \/ Abandon \/ Verify \/ ReclaimGuard \/ ReclaimFails
         \/ \E g \in Group : Checkpoint(g)
  PROVE  RunStateInv'
<1>t. /\ RunStateTypeOK /\ "scheduled" \in Group /\ "reclaim" \in Group
      /\ \A g \in Group : job[g] \in Job /\ job[g].db \in Database
  BY DEF RunStateInv, RunStateTypeOK, Job, Group
<1>m. ASSUME NEW g \in Group, NEW to \in JobPc, Move(g, to), UNCHANGED <<cache, commit>>
      PROVE  /\ RunStateTypeOK' /\ job'[g] = [pc |-> to, db |-> job[g].db]
             /\ \A h \in Group \ {g} : job'[h] = job[h]
  BY <1>t, <1>m DEF Move, RunStateTypeOK, Job
<1>1. CASE \E to \in {"checkpoint", "verify", "save"}, g \in Group :
             /\ Move(g, to) /\ UNCHANGED <<cache, commit>> /\ job[g].pc # "none"
             /\ g = "scheduled" /\ to = "save" => job[g].db.files = "agree"
  <2>1. PICK to \in {"checkpoint", "verify", "save"}, g \in Group :
          /\ Move(g, to) /\ UNCHANGED <<cache, commit>> /\ job[g].pc # "none"
          /\ g = "scheduled" /\ to = "save" => job[g].db.files = "agree"
    BY <1>1
  <2>2. /\ RunStateTypeOK' /\ job'[g] = [pc |-> to, db |-> job[g].db]
        /\ \A h \in Group \ {g} : job'[h] = job[h]
    BY <2>1, <1>m DEF JobPc
  <2>3. QED
    BY <2>1, <2>2, Continued
<1>2. ASSUME NEW to \in {"working", "checkpoint"}, NEW g \in Group, NEW db \in Database,
             Write(g, to, db), UNCHANGED cache, job[g].pc # "none",
             db.commits = job[g].db.commits,
             g = "scheduled" => job[g].pc = "working" \/ job[g].db.guard = "free",
             g = "reclaim" => db.files = job[g].db.files
      PROVE  RunStateInv'
  <2>1. /\ commit' \in 0..MaxCommit /\ job' \in [Group -> Job] /\ job'[g].pc = to
        /\ job'[g].db.files = db.files /\ db.commits \subseteq job'[g].db.commits
        /\ \A h \in Group \ {g} : job'[h] = job[h]
    BY <1>2, <1>t, WriteType DEF JobPc
  <2>2. RunStateTypeOK'
    BY <1>2, <2>1, <1>t DEF RunStateTypeOK
  <2>3. QED
    BY <1>2, <2>1, <2>2, Continued
<1>u. ASSUME NEW db \in Database
      PROVE  /\ \A v \in {"free", "held"} : /\ [db EXCEPT !.guard = v] \in Database
                                            /\ [db EXCEPT !.guard = v].commits = db.commits
                                            /\ [db EXCEPT !.guard = v].files = db.files
             /\ \A v \in {"agree", "differ"} : /\ [db EXCEPT !.files = v] \in Database
                                               /\ [db EXCEPT !.files = v].commits = db.commits
  BY DEF Database
<1>3. CASE Acquire \/ Release
  <2>1. PICK to \in {"working", "checkpoint"}, v \in {"free", "held"} :
          Write("scheduled", to, [job["scheduled"].db EXCEPT !.guard = v])
    BY <1>3 DEF Acquire, Release
  <2>2. /\ job["scheduled"].pc = "working" \/ job["scheduled"].db.guard = "free"
        /\ job["scheduled"].pc # "none" /\ UNCHANGED cache
    BY <1>3 DEF Acquire, Release
  <2>3. QED
    BY <1>2, <1>t, <1>u, <2>1, <2>2
<1>4. CASE Work
  <2>1. PICK v \in {"agree", "differ"} : Write("scheduled", "working", [job["scheduled"].db EXCEPT !.files = v])
    BY <1>4 DEF Work
  <2>2. job["scheduled"].pc = "working" /\ UNCHANGED cache
    BY <1>4 DEF Work
  <2>3. QED
    BY <1>2, <1>t, <1>u, <2>1, <2>2
<1>5. CASE ReclaimGuard
  <2>1. /\ Write("reclaim", "checkpoint", [job["reclaim"].db EXCEPT !.guard = "free"])
        /\ job["reclaim"].pc = "restored" /\ UNCHANGED cache
    BY <1>5 DEF ReclaimGuard
  <2>2. QED
    BY <1>2, <1>t, <1>u, <2>1
<1>6. CASE RefuseRun \/ Abandon \/ ReclaimFails
  BY <1>1, <1>6, <1>t DEF RefuseRun, Abandon, ReclaimFails
<1>7. CASE Verify
  BY <1>1, <1>7, <1>t DEF Verify
<1>8. CASE \E g \in Group : Checkpoint(g)
  BY <1>1, <1>8 DEF Checkpoint
<1>9. QED
  BY <1>3, <1>4, <1>5, <1>6, <1>7, <1>8

\* A job that ends leaves an empty copy behind.
LEMMA EndStep ==
  ASSUME RunStateInv, NEW g \in Group, End(g)
  PROVE  /\ job' \in [Group -> Job] /\ job'[g] = NoJob
         /\ \A h \in Group \ {g} : job'[h] = job[h]
         /\ FilesInv'
<1>1. NoJob \in Job /\ NoJob.pc = "none" /\ NoJob.db.files = "agree"
  BY DEF NoJob, Empty, Job, JobPc, Database
<1>2. job' \in [Group -> Job] /\ job'[g] = NoJob /\ \A h \in Group \ {g} : job'[h] = job[h]
  BY <1>1 DEF End, RunStateInv, RunStateTypeOK
<1>3. FilesInv'
  BY <1>1, <1>2 DEF RunStateInv, FilesInv, Group
<1>4. QED
  BY <1>2, <1>3

LEMMA LoseStep ==
  ASSUME RunStateInv, NEW g \in Group, Lose(g)
  PROVE  RunStateInv'
<1>1. /\ job' \in [Group -> Job] /\ job'[g] = NoJob /\ UNCHANGED <<cache, commit>>
      /\ \A h \in Group \ {g} : job'[h] = job[h]
      /\ FilesInv'
  BY EndStep DEF Lose
<1>2. RunStateTypeOK' /\ Newest' = Newest
  BY <1>1 DEF RunStateInv, RunStateTypeOK, Newest
<1>3. job'[g].pc = "none"
  BY <1>1 DEF NoJob
<1>4. CopyInv' /\ GuardInv' /\ NothingSavedIsForgotten'
  BY <1>1, <1>2, <1>3 DEF RunStateInv, CopyInv, GuardInv, NothingSavedIsForgotten, Group
<1>5. QED
  BY <1>1, <1>2, <1>4 DEF RunStateInv

\* The entry a save adds remembers what the newest one does: no other job is
\* in flight, and this one began with that entry.
LEMMA SaveStep ==
  ASSUME RunStateInv, NEW g \in Group, Save(g)
  PROVE  RunStateInv'
<1> DEFINE d == job[g].db
<1>1. /\ job' \in [Group -> Job] /\ job'[g] = NoJob /\ UNCHANGED commit
      /\ \A h \in Group \ {g} : job'[h] = job[h]
      /\ FilesInv'
  BY EndStep DEF Save
<1>2. /\ cache \in Seq(Database) /\ d \in Database /\ cache' = Append(cache, d)
      /\ cache # <<>> => Newest.commits \subseteq d.commits
      /\ d.files = "agree"
  BY DEF Save, RunStateInv, RunStateTypeOK, Job, CopyInv, FilesInv, Group
<1> HIDE DEF d
<1>3. /\ cache' \in Seq(Database) /\ Len(cache') = Len(cache) + 1 /\ cache'[Len(cache) + 1] = d
      /\ \A i \in 1..Len(cache) : cache'[i] = cache[i]
  BY <1>2, NewestAppended
<1>4. Newest' = d /\ Len(cache) \in Nat
  BY <1>2, <1>3 DEF Newest
<1>5. \A h \in Group : job'[h].pc = "none"
  BY <1>1 DEF Save, NoJob, RunStateInv, CopyInv
<1>6. CopyInv' /\ GuardInv'
  BY <1>5 DEF CopyInv, GuardInv, Group
<1>7. ASSUME NEW i \in 1..(Len(cache) + 1)
      PROVE  cache'[i].commits \subseteq d.commits /\ cache'[i].files = "agree"
  <2>1. CASE i = Len(cache) + 1
    BY <1>2, <1>3, <2>1
  <2>2. CASE i \in 1..Len(cache)
    <3>1. cache[i].commits \subseteq Newest.commits /\ cache[i].files = "agree"
      BY <2>2 DEF RunStateInv, NothingSavedIsForgotten
    <3>2. cache # <<>>
      BY <2>2
    <3>3. QED
      BY <1>2, <1>3, <2>2, <3>1, <3>2
  <2>3. QED
    BY <1>4, <2>1, <2>2
<1>8. NothingSavedIsForgotten'
  BY <1>3, <1>4, <1>7 DEF NothingSavedIsForgotten
<1>9. QED
  BY <1>1, <1>3, <1>6, <1>8 DEF RunStateInv, RunStateTypeOK

LEMMA EvictStep ==
  ASSUME RunStateInv, Evict
  PROVE  RunStateInv'
<1>1. cache \in Seq(Database) /\ cache # <<>> /\ cache' = Tail(cache) /\ UNCHANGED <<commit, job>>
  BY DEF RunStateInv, RunStateTypeOK, Evict
<1>2. /\ cache' \in Seq(Database) /\ Len(cache') = Len(cache) - 1 /\ Len(cache) \in Nat
      /\ \A i \in 1..Len(cache') : cache'[i] = cache[i + 1]
  BY <1>1, TailEntries
<1>3. cache' # <<>> => Newest' = Newest
  <2>1. cache' # <<>> => Len(cache') \in 1..Len(cache')
    BY <1>2
  <2>2. QED
    BY <1>2, <2>1 DEF Newest
<1>4. NothingSavedIsForgotten'
  <2>1. ASSUME NEW i \in 1..Len(cache')
        PROVE  cache'[i].commits \subseteq Newest'.commits /\ cache'[i].files = "agree"
    <3>1. i + 1 \in 1..Len(cache) /\ cache' # <<>>
      BY <1>2
    <3>2. QED
      BY <1>2, <1>3, <3>1 DEF RunStateInv, NothingSavedIsForgotten
  <2>2. QED
    BY <2>1 DEF NothingSavedIsForgotten
<1>5. CopyInv' /\ FilesInv' /\ GuardInv'
  BY <1>1, <1>3 DEF RunStateInv, CopyInv, FilesInv, GuardInv
<1>6. QED
  BY <1>1, <1>2, <1>4, <1>5 DEF RunStateInv, RunStateTypeOK

LEMMA RunStateInvariant == ASSUME ReclaimAlone PROVE RunStateSpec => []RunStateInv
<1>1. RunStateInit => RunStateInv
  <2>1. NoJob \in Job /\ NoJob.pc = "none" /\ NoJob.db.files = "agree"
    BY DEF NoJob, Empty, Job, JobPc, Database
  <2>2. QED
    BY <2>1, RunStateAssumption DEF RunStateInit, RunStateInv, RunStateAssumption, RunStateTypeOK, CopyInv, FilesInv,
       GuardInv, NothingSavedIsForgotten, Group
<1>2. RunStateInv /\ [RunStateNext]_runStateVars => RunStateInv'
  <2>1. RunStateInv /\ UNCHANGED runStateVars => RunStateInv'
    BY DEF RunStateInv, RunStateTypeOK, CopyInv, FilesInv, GuardInv, NothingSavedIsForgotten, Newest, runStateVars
  <2>2. QED
    BY <2>1, StartStep, WorkStep, SaveStep, LoseStep, EvictStep DEF RunStateNext
<1>3. QED
  BY <1>1, <1>2, PTL DEF RunStateSpec

\* The entry the next run restores remembers everything that any entry does,
\* and the files its rows name are beside it, for any number of runs, lost
\* runners and evictions, while the Owner reclaims only between two runs.
THEOREM NothingSavedIsLost == ASSUME ReclaimAlone PROVE RunStateSpec => []NothingSavedIsForgotten
<1>1. RunStateInv => NothingSavedIsForgotten
  BY DEF RunStateInv
<1>2. QED
  BY <1>1, RunStateInvariant, PTL

\* A held guard is only ever freed by the Owner's workflow.
THEOREM GuardIsTheOwnersToFree == ASSUME ReclaimAlone PROVE RunStateSpec => OnlyTheOwnerFrees
<1> DEFINE Freed == cache # <<>> /\ cache' # <<>> /\ Len(cache') > Len(cache) /\ Newest.guard = "held"
                      /\ Newest'.guard = "free"
<1>1. RunStateInv /\ RunStateNext /\ Freed => job["reclaim"].pc = "save"
  <2> SUFFICES ASSUME RunStateInv, RunStateNext, Freed PROVE job["reclaim"].pc = "save"
    OBVIOUS
  <2>1. cache' # cache /\ ~Evict
    <3>1. Evict => Len(cache') < Len(cache)
      BY TailEntries DEF Evict, RunStateInv, RunStateTypeOK
    <3>2. Len(cache) \in Nat /\ Len(cache') > Len(cache)
      BY DEF RunStateInv, RunStateTypeOK
    <3>3. QED
      BY <3>1, <3>2
  <2>2. PICK g \in Group : Save(g)
    BY <2>1 DEF RunStateNext, Restore, Checkpoint, Lose, RestoreMiss, Acquire, RefuseRun, Work, Release,
       Abandon, Verify, ReclaimGuard, ReclaimFails
  <2>3. job[g].pc = "save" /\ job[g].db.guard = "free"
    <3>1. cache \in Seq(Database) /\ job[g].db \in Database /\ cache' = Append(cache, job[g].db)
      BY <2>2 DEF Save, RunStateInv, RunStateTypeOK, Job
    <3>2. Newest' = job[g].db
      BY <3>1, NewestAppended DEF Newest
    <3>3. QED
      BY <2>2, <3>2 DEF Save
  <2>4. g # "scheduled"
    BY <2>3 DEF RunStateInv, GuardInv
  <2>5. QED
    BY <2>3, <2>4 DEF Group
<1>2. RunStateInv /\ [RunStateNext]_runStateVars => [Freed => job["reclaim"].pc = "save"]_runStateVars
  BY <1>1
<1>3. QED
  BY <1>2, RunStateInvariant, PTL DEF RunStateSpec, OnlyTheOwnerFrees
=============================================================================
