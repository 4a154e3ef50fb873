---------------------------- MODULE Publication ----------------------------
(***************************************************************************)
(* runPublication (publication/pipeline.js) for one content version: the   *)
(* durable publications row of each provider, the invocations that claim   *)
(* it, call the provider adapter and settle it, and the uploads as the     *)
(* provider sees them.                                                     *)
(*                                                                         *)
(* An action is the code between two points where another process can      *)
(* write or this one can die: one SQLite statement or transaction, or one  *)
(* await.  The adapter is the contract of PublicationProvider.js; what the *)
(* YouTube adapter does under that contract is module YouTubePublication.  *)
(***************************************************************************)
EXTENDS Naturals

CONSTANTS
  Run,        \* invocations of runPublication, each by some engine process
  Provider,   \* publication providers
  Resumable,  \* providers whose adapter persists an upload session
  Standing,   \* providers the standing PUBLIC authorization can cover
  Exclusive,  \* TRUE: the single-run guard admits one live process
  RetryCap,   \* RETRY_ATTEMPT_CAP of StageRetryPolicy
  MaxToken,   \* bound: uploads the provider ever opens, per provider
  MaxCycle    \* bound: retry cycles the Owner ever opens, per provider

ASSUME PublicationAssumption ==
  /\ Provider # {}
  /\ Resumable \subseteq Provider
  /\ Standing \subseteq Provider
  /\ Exclusive \in BOOLEAN
  /\ RetryCap \in Nat \ {0}
  /\ MaxToken \in Nat
  /\ MaxCycle \in Nat \ {0}

VARIABLES
  state,   \* content_versions.state, from PRODUCED on
  gate,    \* the media file exists, its rights hold, the newest Gate 2 PASS verifies
  grant,   \* the Owner's grant for the publish action of each provider
  row,     \* the publications row of each provider
  retry,   \* the stage_retry_state row of each provider
  run,     \* the local state of each invocation
  upload   \* the uploads the provider holds, by token

vars == <<state, gate, grant, row, retry, run, upload>>

NoToken == 0
Token == 1..MaxToken

\* HELD stands for NEEDS_REVIEW and BLOCKED, the other verdicts of Gate 2.
ContentState == {"PRODUCED", "FINAL_COMPLIANCE", "PUBLISHED", "HELD"}
Grant == {"none", "item", "standing"}

RowStatus == {"NONE", "PENDING", "PUBLISHED", "FAILED", "AMBIGUOUS"}
FailureReason == {"none", "PROVIDER_FAILURE", "VISIBILITY_MISMATCH"}
ThumbnailStatus == {"NONE", "PENDING", "SUCCESS", "FAILED", "AMBIGUOUS"}
Row == [status : RowStatus, session : Token \cup {NoToken}, attempts : Nat,
        reason : FailureReason, thumbnail : ThumbnailStatus]
NoRow == [status |-> "NONE", session |-> NoToken, attempts |-> 0,
          reason |-> "none", thumbnail |-> "NONE"]

Retry == [attempt : Nat, status : {"active", "quarantined"}, cycle : Nat]

Pc == {"idle", "interrupt", "claim", "adapter", "settle", "thumbnail", "thumbnailing"}
Result == {"none", "success", "unconfirmed", "failure", "ambiguous"}
Local == [pc : Pc, p : Provider, visibility : {"default", "public"},
          token : Token \cup {NoToken}, result : Result]
Idle == [pc |-> "idle", p |-> CHOOSE p \in Provider : TRUE,
         visibility |-> "default", token |-> NoToken, result |-> "none"]

UploadStatus == {"none", "open", "done", "dead"}

TypeOK ==
  /\ state \in ContentState
  /\ gate \in BOOLEAN
  /\ grant \in [Provider -> Grant]
  /\ row \in [Provider -> Row]
  /\ retry \in [Provider -> Retry]
  /\ run \in [Run -> Local]
  /\ upload \in [Provider -> [Token -> UploadStatus]]

Init ==
  /\ state = "PRODUCED"
  /\ gate = FALSE
  /\ grant = [p \in Provider |-> "none"]
  /\ row = [p \in Provider |-> NoRow]
  /\ retry = [p \in Provider |-> [attempt |-> 0, status |-> "active", cycle |-> 1]]
  /\ run = [r \in Run |-> Idle]
  /\ upload = [p \in Provider |-> [t \in Token |-> "none"]]

-----------------------------------------------------------------------------
(* What a row and a grant mean.                                            *)

IsVisibilityMismatch(w) == w.status = "FAILED" /\ w.reason = "VISIBILITY_MISMATCH"
\* Mutant: a visibility mismatch is retried like any failure.
IsReclaimableAnyReason(w) == w.status = "FAILED"

IsReclaimable(w) == w.status = "FAILED" /\ w.reason # "VISIBILITY_MISMATCH"
IsInterrupted(w) == w.status = "PENDING" /\ w.session = NoToken
IsResumable(w) == w.status = "PENDING" /\ w.session # NoToken

\* verifyGate2Pass accepts FINAL_COMPLIANCE, or PUBLISHED for a further provider.
GateOpen == gate /\ state \in {"FINAL_COMPLIANCE", "PUBLISHED"}

\* recordFailedAttempt: an attempt on a quarantined key is not counted.
RecordFailedAttempt(k) ==
  IF k.status = "quarantined" THEN k
  ELSE [attempt |-> k.attempt + 1, cycle |-> k.cycle,
        status |-> IF k.attempt + 1 >= RetryCap THEN "quarantined" ELSE "active"]

\* The row as a new attempt, inserted or reclaimed, leaves it.
Claimed(w) ==
  [status |-> "PENDING", session |-> NoToken, attempts |-> w.attempts + 1,
   reason |-> w.reason, thumbnail |-> w.thumbnail]

\* The row as the settling of its attempt leaves it.
Failed(w, reason) ==
  [status |-> "FAILED", session |-> NoToken, attempts |-> w.attempts,
   reason |-> reason, thumbnail |-> w.thumbnail]
Published(w) == [w EXCEPT !.status = "PUBLISHED", !.session = NoToken]

Live(p) == {t \in Token : upload[p][t] \in {"open", "done"}}
Items(p) == {t \in Token : upload[p][t] = "done"}

\* What became of the upload an invocation holds the token of.
Held(l) == IF l.token = NoToken THEN "none" ELSE upload[l.p][l.token]

Goto(r, pc) == run' = [run EXCEPT ![r].pc = pc]
Return(r) == run' = [run EXCEPT ![r] = Idle]

-----------------------------------------------------------------------------
(* Steps 1 to 6 of runPublication: everything before the claim is read in  *)
(* one synchronous stretch.  A refusal writes nothing but the decision log *)
(* and is a stuttering step.                                               *)

Begin(r, p, pc, visibility) ==
  /\ run[r].pc = "idle"
  /\ Exclusive => \A q \in Run : run[q].pc = "idle"
  /\ state # "HELD"
  /\ run' = [run EXCEPT ![r] = [Idle EXCEPT !.pc = pc, !.p = p,
                                           !.visibility = visibility]]
  /\ UNCHANGED <<state, gate, grant, row, retry, upload>>

\* Step 3: the row is PUBLISHED; only its thumbnail may still be attempted.
BeginPublished(r, p) ==
  /\ row[p].status = "PUBLISHED"
  /\ Begin(r, p, "thumbnail", "default")

\* Mutant: the gates are consulted before the interrupted attempt is noticed.
BeginInterruptedGated(r, p) ==
  /\ GateOpen
  /\ IsInterrupted(row[p])
  /\ Begin(r, p, "interrupt", "default")

\* Step 3: a PENDING row without provider state was left by a dead attempt.
BeginInterrupted(r, p) ==
  /\ IsInterrupted(row[p])
  /\ Begin(r, p, "interrupt", "default")

\* The row may be claimed, it is not quarantined, and every gate passes.
BeginAttempt(r, p) ==
  /\ \/ row[p].status = "NONE"
     \/ IsReclaimable(row[p])
     \/ IsResumable(row[p])
  /\ retry[p].status = "active"
  /\ GateOpen
  /\ grant[p] # "none"
  /\ Begin(r, p, "claim", IF grant[p] = "standing" THEN "public" ELSE "default")

\* The row read above may have moved; only a row still PENDING is written.
MarkInterrupted(r) ==
  LET p == run[r].p IN
  /\ run[r].pc = "interrupt"
  /\ row' = IF row[p].status = "PENDING"
            THEN [row EXCEPT ![p].status = "AMBIGUOUS"] ELSE row
  /\ Return(r)
  /\ UNCHANGED <<state, gate, grant, retry, upload>>

-----------------------------------------------------------------------------
(* attemptClaim: one transaction that re-reads the row.                    *)

\* Mutant: the decision to claim is not re-read inside the transaction.
ClaimNewStale(r) ==
  LET p == run[r].p IN
  /\ run[r].pc = "claim"
  /\ row[p].status \in {"NONE", "PENDING"}
  /\ row' = [row EXCEPT ![p] = Claimed(@)]
  /\ Goto(r, "adapter")
  /\ UNCHANGED <<state, gate, grant, retry, upload>>

ClaimNew(r) ==
  LET p == run[r].p IN
  /\ run[r].pc = "claim"
  /\ row[p].status = "NONE"
  /\ row' = [row EXCEPT ![p] = Claimed(@)]
  /\ Goto(r, "adapter")
  /\ UNCHANGED <<state, gate, grant, retry, upload>>

ClaimFailed(r) ==
  LET p == run[r].p IN
  /\ run[r].pc = "claim"
  /\ IsReclaimable(row[p])
  /\ row' = [row EXCEPT ![p] = Claimed(@)]
  /\ Goto(r, "adapter")
  /\ UNCHANGED <<state, gate, grant, retry, upload>>

\* Mutant: resuming counts as another attempt.
ClaimResumeCounted(r) ==
  LET p == run[r].p IN
  /\ run[r].pc = "claim"
  /\ IsResumable(row[p])
  /\ row' = [row EXCEPT ![p].attempts = @ + 1]
  /\ run' = [run EXCEPT ![r] = [@ EXCEPT !.pc = "adapter", !.token = row[p].session]]
  /\ UNCHANGED <<state, gate, grant, retry, upload>>

\* The claim already stands: re-enter the provider with the session it saved.
ClaimResume(r) ==
  LET p == run[r].p IN
  /\ run[r].pc = "claim"
  /\ IsResumable(row[p])
  /\ run' = [run EXCEPT ![r] = [@ EXCEPT !.pc = "adapter", !.token = row[p].session]]
  /\ UNCHANGED <<state, gate, grant, row, retry, upload>>

\* Another invocation owns the row, or its write left this snapshot stale.
ClaimRaced(r) ==
  /\ run[r].pc = "claim"
  /\ \/ row[run[r].p].status \in {"PUBLISHED", "AMBIGUOUS"}
     \/ IsVisibilityMismatch(row[run[r].p])
     \/ IsInterrupted(row[run[r].p])
     \/ \E q \in Run \ {r} : run[q].pc # "idle"
  /\ Return(r)
  /\ UNCHANGED <<state, gate, grant, row, retry, upload>>

-----------------------------------------------------------------------------
(* adapter.publish, as PublicationProvider.js promises it.                 *)

\* The next upload the provider would open.
IsFresh(p, t) ==
  upload[p][t] = "none" /\ \A u \in Token : u < t => upload[p][u] # "none"

\* Mutant: the session is saved when the upload is over.
OpenSessionUnsaved(r) ==
  LET p == run[r].p IN
  /\ run[r].pc = "adapter"
  /\ \E t \in Token :
       /\ IsFresh(p, t)
       /\ upload' = [upload EXCEPT ![p][t] = "open"]
       /\ run' = [run EXCEPT ![r].token = t]
  /\ UNCHANGED <<state, gate, grant, row, retry>>

\* A resumable adapter saves the session before the first byte, and the save
\* fails unless the row is still PENDING; the others send at once.
OpenSession(r) ==
  LET p == run[r].p IN
  /\ run[r].pc = "adapter"
  /\ p \in Resumable => row[p].status = "PENDING"
  /\ \E t \in Token :
       /\ IsFresh(p, t)
       /\ upload' = [upload EXCEPT ![p][t] = "open"]
       /\ run' = [run EXCEPT ![r].token = t]
       /\ row' = IF p \in Resumable THEN [row EXCEPT ![p].session = t] ELSE row
  /\ UNCHANGED <<state, gate, grant, retry>>

\* Only a session the provider has dropped is replaced by a fresh one.
Open(r) ==
  /\ Held(run[r]) \in IF run[r].p \in Resumable THEN {"none", "dead"} ELSE {"none"}
  /\ OpenSession(r)

\* saveProviderState(null): the session expired while media was being sent.
\* Clearing a row that has left PENDING is a silent no-op.
DropSession(r) ==
  LET p == run[r].p IN
  /\ run[r].pc = "adapter"
  /\ p \in Resumable
  /\ Held(run[r]) = "dead"
  /\ row' = IF row[p].status = "PENDING"
            THEN [row EXCEPT ![p].session = NoToken] ELSE row
  /\ run' = [run EXCEPT ![r].token = NoToken]
  /\ UNCHANGED <<state, gate, grant, retry, upload>>

\* The provider accepts the last byte, whether or not anyone still listens.
Complete(p, t) ==
  /\ upload[p][t] = "open"
  /\ upload' = [upload EXCEPT ![p][t] = "done"]
  /\ UNCHANGED <<state, gate, grant, row, retry, run>>

Expire(p, t) ==
  /\ upload[p][t] = "open"
  /\ upload' = [upload EXCEPT ![p][t] = "dead"]
  /\ UNCHANGED <<state, gate, grant, row, retry, run>>

Answer(r, result) ==
  run' = [run EXCEPT ![r] = [@ EXCEPT !.pc = "settle", !.result = result]]

\* SUCCESS: the provider returned the id of the item, and its visibility.
AnswerSuccess(r) ==
  /\ run[r].pc = "adapter"
  /\ Held(run[r]) = "done"
  /\ \E result \in {"success", "unconfirmed"} : Answer(r, result)
  /\ UNCHANGED <<state, gate, grant, row, retry, upload>>

\* Mutant: a request that timed out is answered as a definite failure.
AnswerFailureOnTimeout(r) ==
  /\ run[r].pc = "adapter"
  /\ Answer(r, "failure")
  /\ UNCHANGED <<state, gate, grant, row, retry, upload>>

\* EXPLICIT_FAILURE: a definite rejection; nothing was or will be created.
AnswerFailure(r) ==
  /\ run[r].pc = "adapter"
  /\ Held(run[r]) # "done"
  /\ upload' = IF Held(run[r]) = "open"
               THEN [upload EXCEPT ![run[r].p][run[r].token] = "dead"] ELSE upload
  /\ Answer(r, "failure")
  /\ UNCHANGED <<state, gate, grant, row, retry>>

\* AMBIGUOUS, or the adapter threw: a timeout, a lost answer, a failed save.
AnswerAmbiguous(r) ==
  /\ run[r].pc = "adapter"
  /\ Answer(r, "ambiguous")
  /\ UNCHANGED <<state, gate, grant, row, retry, upload>>

-----------------------------------------------------------------------------
(* Step 8: the result is written by row id, whatever the row now holds.    *)

SettleFailure(r) ==
  LET p == run[r].p IN
  /\ run[r].pc = "settle"
  /\ run[r].result = "failure"
  /\ row' = [row EXCEPT ![p] = Failed(@, "PROVIDER_FAILURE")]
  /\ retry' = [retry EXCEPT ![p] = RecordFailedAttempt(@)]
  /\ Return(r)
  /\ UNCHANGED <<state, gate, grant, upload>>

\* Mutant: an ambiguous result settles as a failure.
SettleAmbiguousAsFailure(r) ==
  LET p == run[r].p IN
  /\ run[r].pc = "settle"
  /\ run[r].result = "ambiguous"
  /\ row' = [row EXCEPT ![p] = Failed(@, "PROVIDER_FAILURE")]
  /\ Return(r)
  /\ UNCHANGED <<state, gate, grant, retry, upload>>

SettleAmbiguous(r) ==
  LET p == run[r].p IN
  /\ run[r].pc = "settle"
  /\ run[r].result = "ambiguous"
  /\ row' = [row EXCEPT ![p].status = "AMBIGUOUS"]
  /\ Return(r)
  /\ UNCHANGED <<state, gate, grant, retry, upload>>

IsMismatch(l) == l.visibility = "public" /\ l.result = "unconfirmed"

\* PUBLIC was requested and not confirmed: terminal, no retry budget used.
SettleMismatch(r) ==
  LET p == run[r].p IN
  /\ run[r].pc = "settle"
  /\ IsMismatch(run[r])
  /\ row' = [row EXCEPT ![p] = Failed(@, "VISIBILITY_MISMATCH")]
  /\ Return(r)
  /\ UNCHANGED <<state, gate, grant, retry, upload>>

\* SUCCESS: the one path that publishes the content version.
SettlePublished(r) ==
  LET p == run[r].p IN
  /\ run[r].pc = "settle"
  /\ run[r].result \in {"success", "unconfirmed"}
  /\ ~IsMismatch(run[r])
  /\ row' = [row EXCEPT ![p] = Published(@)]
  /\ state' = IF state = "FINAL_COMPLIANCE" THEN "PUBLISHED" ELSE state
  /\ Goto(r, "thumbnail")
  /\ UNCHANGED <<gate, grant, retry, upload>>

-----------------------------------------------------------------------------
(* attemptThumbnailUpload, against a confirmed item only.                  *)

ThumbnailStart(r) ==
  LET p == run[r].p IN
  /\ run[r].pc = "thumbnail"
  /\ p \in Resumable       \* the adapter implements publishThumbnail
  /\ row[p].thumbnail \notin {"SUCCESS", "AMBIGUOUS"}
  /\ grant[p] # "none"
  /\ row' = [row EXCEPT ![p].thumbnail = "PENDING"]
  /\ Goto(r, "thumbnailing")
  /\ UNCHANGED <<state, gate, grant, retry, upload>>

ThumbnailSkip(r) ==
  /\ run[r].pc = "thumbnail"
  /\ Return(r)
  /\ UNCHANGED <<state, gate, grant, row, retry, upload>>

\* Mutant: a thumbnail that fails takes the published row with it.
ThumbnailEndDowngrades(r) ==
  LET p == run[r].p IN
  /\ run[r].pc = "thumbnailing"
  /\ row' = [row EXCEPT ![p] = Failed(@, "PROVIDER_FAILURE")]
  /\ Return(r)
  /\ UNCHANGED <<state, gate, grant, retry, upload>>

ThumbnailEnd(r) ==
  LET p == run[r].p IN
  /\ run[r].pc = "thumbnailing"
  /\ \E s \in {"SUCCESS", "FAILED", "AMBIGUOUS"} :
       row' = [row EXCEPT ![p].thumbnail = s]
  /\ Return(r)
  /\ UNCHANGED <<state, gate, grant, retry, upload>>

-----------------------------------------------------------------------------
(* The process of an invocation dies, or an unrecognized result or a       *)
(* storage error makes it throw: its row stays as it is.                   *)

Crash(r) ==
  /\ run[r].pc # "idle"
  /\ Return(r)
  /\ UNCHANGED <<state, gate, grant, row, retry, upload>>

(* The Owner and the stages before publication.                            *)

SetGrant(p, g) ==
  /\ g = "standing" => p \in Standing
  /\ grant' = [grant EXCEPT ![p] = g]
  /\ UNCHANGED <<state, gate, row, retry, run, upload>>

Reactivate(p) ==
  /\ retry[p].status = "quarantined"
  /\ retry[p].cycle < MaxCycle
  /\ retry' = [retry EXCEPT ![p] = [attempt |-> 0, status |-> "active", cycle |-> @.cycle + 1]]
  /\ UNCHANGED <<state, gate, grant, row, run, upload>>

\* Mutant: final compliance runs again on an item that is PUBLISHED.
FinalComplianceAgain ==
  /\ Exclusive => \A r \in Run : run[r].pc = "idle"
  /\ state \in {"PRODUCED", "FINAL_COMPLIANCE", "PUBLISHED"}
  /\ \/ state' = "FINAL_COMPLIANCE" /\ gate' = TRUE
     \/ state' = "HELD" /\ gate' = FALSE
  /\ UNCHANGED <<grant, row, retry, run, upload>>

\* runFinalCompliance, in the same process, before the item is PUBLISHED.
FinalCompliance ==
  /\ Exclusive => \A r \in Run : run[r].pc = "idle"
  /\ state \in {"PRODUCED", "FINAL_COMPLIANCE"}
  /\ \/ state' = "FINAL_COMPLIANCE" /\ gate' = TRUE
     \/ state' = "HELD" /\ gate' = FALSE
  /\ UNCHANGED <<grant, row, retry, run, upload>>

\* A file, an asset's rights, the policy pack or the evidence changes.
GateChanges ==
  /\ state \in {"FINAL_COMPLIANCE", "PUBLISHED"}
  /\ gate' = ~gate
  /\ UNCHANGED <<state, grant, row, retry, run, upload>>

-----------------------------------------------------------------------------
\* The steps of pipeline.js, and those of the adapter it awaits.
Pipeline(r) ==
  \/ \E p \in Provider : BeginPublished(r, p) \/ BeginInterrupted(r, p) \/ BeginAttempt(r, p)
  \/ MarkInterrupted(r)
  \/ ClaimNew(r) \/ ClaimFailed(r) \/ ClaimResume(r) \/ ClaimRaced(r)
  \/ SettleFailure(r) \/ SettleAmbiguous(r) \/ SettleMismatch(r) \/ SettlePublished(r)
  \/ ThumbnailStart(r) \/ ThumbnailSkip(r) \/ ThumbnailEnd(r)
  \/ Crash(r)

Adapter(r) ==
  \/ Open(r) \/ DropSession(r)
  \/ AnswerSuccess(r) \/ AnswerFailure(r) \/ AnswerAmbiguous(r)

Invocation(r) == Pipeline(r) \/ Adapter(r)

Owner ==
  \/ \E p \in Provider, g \in Grant : SetGrant(p, g)
  \/ \E p \in Provider : Reactivate(p)
  \/ GateChanges

World ==
  \/ \E p \in Provider, t \in Token : Complete(p, t) \/ Expire(p, t)
  \/ Owner
  \/ FinalCompliance

Next == (\E r \in Run : Invocation(r)) \/ World

Spec == Init /\ [][Next]_vars

\* What pipeline.js goes on to do with an invocation it has begun.
Progress(r) ==
  \/ MarkInterrupted(r)
  \/ ClaimNew(r) \/ ClaimFailed(r) \/ ClaimResume(r) \/ ClaimRaced(r)
  \/ SettleFailure(r) \/ SettleAmbiguous(r) \/ SettleMismatch(r) \/ SettlePublished(r)
  \/ ThumbnailStart(r) \/ ThumbnailSkip(r) \/ ThumbnailEnd(r)

-----------------------------------------------------------------------------
(* Properties of the engine under the single-run guard (Exclusive).        *)

\* However often the process dies and restarts, a content version exists at
\* most once at each provider (pipeline.js, step 3).
AtMostOneItem ==
  \A p \in Provider : \A t, u \in Items(p) : t = u

\* FAILED is safe to retry: a row a later run may claim afresh, or no row at
\* all, means the provider has nothing, not even an upload still under way.
ReclaimableMeansNothingSent ==
  \A p \in Provider :
    row[p].status = "NONE" \/ IsReclaimable(row[p]) => Live(p) = {}

\* A row that records a certain or an uncertain delivery is never touched
\* again: PUBLISHED, AMBIGUOUS and VISIBILITY_MISMATCH are final.
IsFinal(w) == w.status \in {"PUBLISHED", "AMBIGUOUS"} \/ IsVisibilityMismatch(w)
FinalRowsStay ==
  [][\A p \in Provider : IsFinal(row[p]) =>
       row'[p].status = row[p].status /\ row'[p].reason = row[p].reason]_vars

\* The content version is PUBLISHED exactly when some provider confirmed it.
StateFollowsRows ==
  state = "PUBLISHED" <=> \E p \in Provider : row[p].status = "PUBLISHED"

\* Every claim is paid for: the attempts of a row are the failures its retry
\* record counts, over all cycles, plus the one that has not failed.
Unfailed(w) == IF w.status = "NONE" \/ IsReclaimable(w) THEN 0 ELSE 1
AttemptsAreAccounted ==
  \A p \in Provider :
    row[p].attempts = RetryCap * (retry[p].cycle - 1) + retry[p].attempt + Unfailed(row[p])

\* A quarantined key waits for the Owner: its row stays FAILED, unclaimed.
QuarantinedIsAtRest ==
  \A p \in Provider : retry[p].status = "quarantined" =>
    IsReclaimable(row[p]) /\ \A r \in Run : run[r].pc \in {"claim", "adapter", "settle"} => run[r].p # p

\* An attempt nobody can vouch for is reported AMBIGUOUS, with the gates and
\* the grant open or shut, unless Gate 2 has taken the item away.
InterruptedIsReported ==
  \A p \in Provider :
    IsInterrupted(row[p]) ~> (~IsInterrupted(row[p]) \/ state = "HELD")

\* Under the guard publication keeps the promise of PublicationOnce.
Outcome(w) ==
  CASE w.status = "PUBLISHED"     -> "published"
    [] IsVisibilityMismatch(w)    -> "mismatch"
    [] w.status = "AMBIGUOUS"     -> "unknown"
    [] OTHER                      -> "open"

Once == INSTANCE PublicationOnce WITH
  Item    <- Token,
  outcome <- [p \in Provider |-> Outcome(row[p])],
  items   <- [p \in Provider |-> Items(p)]

DeliversOnce == Once!Spec

-----------------------------------------------------------------------------
(* Properties that survive several live processes (~Exclusive).            *)

\* Without a session to join, the claim alone keeps the others out.
StatelessOnlyOnce ==
  \A p \in Provider \ Resumable : \A t, u \in Items(p) : t = u

\* A row says PUBLISHED only of an item that exists.
PublishedExists ==
  \A p \in Provider : row[p].status = "PUBLISHED" => Items(p) # {}

=============================================================================
