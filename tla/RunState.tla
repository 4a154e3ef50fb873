------------------------------ MODULE RunState ------------------------------
(***************************************************************************)
(* How the database and the files it points at travel from one hosted run  *)
(* to the next: the workflows of .github/workflows restore the newest      *)
(* entry of a cache, work on a copy of their own, and save it as a new     *)
(* entry.  Two workflows save, each alone in its concurrency group: the    *)
(* scheduled run and the reclamation of an orphaned guard.                 *)
(*                                                                         *)
(* The database is reduced to the transactions it remembers, the guard row *)
(* of system_runs, and whether the files it names are the ones beside it.  *)
(***************************************************************************)
EXTENDS Integers, Sequences

CONSTANTS
  ReclaimAlone, \* TRUE: the Owner reclaims only while no scheduled run is in flight
  MaxCommit,    \* bound: transactions ever committed
  MaxSave       \* bound: entries in the cache

ASSUME RunStateAssumption ==
  /\ ReclaimAlone \in BOOLEAN
  /\ MaxCommit \in Nat
  /\ MaxSave \in Nat

VARIABLES
  cache,  \* the entries, oldest first
  commit, \* transactions committed so far, in whichever copy
  job     \* the job in flight of each concurrency group, and its copy

runStateVars == <<cache, commit, job>>

Group == {"scheduled", "reclaim"}
Database == [commits : SUBSET (1..MaxCommit), guard : {"free", "held"}, files : {"agree", "differ"}]
Empty == [commits |-> {}, guard |-> "free", files |-> "agree"]

JobPc == {"none", "restored", "working", "checkpoint", "verify", "save"}
Job == [pc : JobPc, db : Database]
NoJob == [pc |-> "none", db |-> Empty]

RunStateTypeOK ==
  /\ cache \in Seq(Database)
  /\ commit \in 0..MaxCommit
  /\ job \in [Group -> Job]

RunStateInit ==
  /\ cache = <<>>
  /\ commit = 0
  /\ job = [g \in Group |-> NoJob]

Newest == cache[Len(cache)]

-----------------------------------------------------------------------------
Move(g, pc) == job' = [job EXCEPT ![g] = [pc |-> pc, db |-> @.db]]
End(g) == job' = [job EXCEPT ![g] = NoJob]

Write(g, pc, db) ==
  /\ commit < MaxCommit
  /\ commit' = commit + 1
  /\ job' = [job EXCEPT ![g] =
       [pc |-> pc, db |-> [commits |-> db.commits \cup {commit + 1}, guard |-> db.guard,
                           files |-> db.files]]]

MayStart(g) ==
  /\ job[g].pc = "none"
  /\ ReclaimAlone => \A h \in Group : job[h].pc = "none"

\* Mutant: the restore key matches the oldest entry.
RestoreOldest(g) ==
  /\ MayStart(g)
  /\ cache # <<>>
  /\ job' = [job EXCEPT ![g] = [pc |-> "restored", db |-> cache[1]]]
  /\ UNCHANGED <<cache, commit>>

\* The prefix restore key selects the most recently created entry.
Restore(g) ==
  /\ MayStart(g)
  /\ cache # <<>>
  /\ job' = [job EXCEPT ![g] = [pc |-> "restored", db |-> Newest]]
  /\ UNCHANGED <<cache, commit>>

\* A miss: the entrypoint starts from a fresh database; reclamation exits
\* before there is a file to save.
RestoreMiss ==
  /\ MayStart("scheduled")
  /\ cache = <<>>
  /\ job' = [job EXCEPT !["scheduled"] = [pc |-> "restored", db |-> Empty]]
  /\ UNCHANGED <<cache, commit>>

-----------------------------------------------------------------------------
(* scheduled-run.yml: node src/index.js and the steps that always() follow *)

\* Mutant: a guard found held is taken to be an orphan.
AcquireStale ==
  /\ job["scheduled"].pc = "restored"
  /\ Write("scheduled", "working", [job["scheduled"].db EXCEPT !.guard = "held"])
  /\ UNCHANGED cache

Acquire ==
  /\ job["scheduled"].pc = "restored"
  /\ job["scheduled"].db.guard = "free"
  /\ Write("scheduled", "working", [job["scheduled"].db EXCEPT !.guard = "held"])
  /\ UNCHANGED cache

\* Exit code 3: the run goes on to save what it restored.
RefuseRun ==
  /\ job["scheduled"].pc = "restored"
  /\ job["scheduled"].db.guard = "held"
  /\ Move("scheduled", "checkpoint")
  /\ UNCHANGED <<cache, commit>>

\* A stage commits a row and a file, and may leave one without the other.
Work ==
  /\ job["scheduled"].pc = "working"
  /\ \E files \in {"agree", "differ"} :
       Write("scheduled", "working", [job["scheduled"].db EXCEPT !.files = files])
  /\ UNCHANGED cache

\* The entrypoint returns, its guard released.
Release ==
  /\ job["scheduled"].pc = "working"
  /\ Write("scheduled", "checkpoint", [job["scheduled"].db EXCEPT !.guard = "free"])
  /\ UNCHANGED cache

\* The entrypoint dies or the job times out with the guard held, and the
\* always() steps still run.
Abandon ==
  /\ job["scheduled"].pc = "working"
  /\ Move("scheduled", "checkpoint")
  /\ UNCHANGED <<cache, commit>>

-----------------------------------------------------------------------------
(* reclaim-orphaned-guard.yml.                                             *)

ReclaimGuard ==
  /\ job["reclaim"].pc = "restored"
  /\ job["reclaim"].db.guard = "held"
  /\ Write("reclaim", "checkpoint", [job["reclaim"].db EXCEPT !.guard = "free"])
  /\ UNCHANGED cache

\* The run is not RUNNING in this copy: the step fails, the save is always().
ReclaimFails ==
  /\ job["reclaim"].pc = "restored"
  /\ Move("reclaim", "checkpoint")
  /\ UNCHANGED <<cache, commit>>

-----------------------------------------------------------------------------
(* Checkpoint, integrity check and save.                                   *)

\* Only the scheduled run compares the database with the files.
Checkpoint(g) ==
  /\ job[g].pc = "checkpoint"
  /\ Move(g, IF g = "scheduled" THEN "verify" ELSE "save")
  /\ UNCHANGED <<cache, commit>>

Verify ==
  /\ job["scheduled"].pc = "verify"
  /\ job["scheduled"].db.files = "agree"
  /\ Move("scheduled", "save")
  /\ UNCHANGED <<cache, commit>>

\* Entries are immutable and keys unique: a save adds the newest entry.
Save(g) ==
  /\ job[g].pc = "save"
  /\ Len(cache) < MaxSave
  /\ cache' = Append(cache, job[g].db)
  /\ End(g)
  /\ UNCHANGED commit

\* The runner is lost, the checkpoint is busy, the check finds a divergence or
\* the upload fails: this copy is gone.
Lose(g) ==
  /\ job[g].pc # "none"
  /\ End(g)
  /\ UNCHANGED <<cache, commit>>

\* The service drops the entry unused for longest.
Evict ==
  /\ cache # <<>>
  /\ cache' = Tail(cache)
  /\ UNCHANGED <<commit, job>>

-----------------------------------------------------------------------------
RunStateNext ==
  \/ \E g \in Group : Restore(g) \/ Checkpoint(g) \/ Save(g) \/ Lose(g)
  \/ RestoreMiss \/ Acquire \/ RefuseRun \/ Work \/ Release \/ Abandon \/ Verify
  \/ ReclaimGuard \/ ReclaimFails
  \/ Evict

RunStateSpec == RunStateInit /\ [][RunStateNext]_runStateVars

-----------------------------------------------------------------------------
\* The entry the next run restores remembers everything that any entry does,
\* and no entry has lost the files its rows name: no job saves an old copy over
\* the work of another, nor a database whose files went another way.
NothingSavedIsForgotten ==
  \A i \in 1..Len(cache) :
    /\ cache[i].commits \subseteq Newest.commits
    /\ cache[i].files = "agree"

\* A run never takes a guard it finds held for stale: only the Owner's
\* workflow replaces a held guard by a free one.
OnlyTheOwnerFrees ==
  [][cache # <<>> /\ cache' # <<>> /\ Len(cache') > Len(cache) /\ Newest.guard = "held"
       /\ Newest'.guard = "free" => job["reclaim"].pc = "save"]_runStateVars

=============================================================================
