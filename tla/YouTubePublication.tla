------------------------- MODULE YouTubePublication -------------------------
(***************************************************************************)
(* Publication with what YouTubeAdapter.publish really does between the    *)
(* claim and the answer: token, status query, resumable session, chunk by  *)
(* chunk upload, reconciliation after every transient failure.             *)
(*                                                                         *)
(* A request and its reply are two steps, so that the process can die, or  *)
(* the provider act, in between.  The provider may store what was sent     *)
(* long after the sender is gone, and report less than it has stored.      *)
(***************************************************************************)
EXTENDS Publication

CONSTANTS
  Chunks,         \* chunks of the media file
  MaxAttempts,    \* RESUMABLE_MAX_ATTEMPTS
  MaxRestarts,    \* RESUMABLE_MAX_SESSION_RESTARTS
  ResumeRefused   \* TRUE: the token refresh may fail when a session is resumed

ASSUME YouTubeAssumption ==
  /\ Resumable = Provider
  /\ Chunks \in Nat \ {0}
  /\ MaxAttempts \in Nat \ {0}
  /\ MaxRestarts \in Nat
  /\ ResumeRefused \in BOOLEAN

VARIABLES
  sent,       \* chunks of each upload handed to the network
  committed,  \* chunks of each upload the provider has stored
  adapter     \* the locals of publish in each invocation

youTubeVars == <<vars, sent, committed, adapter>>

At == {"start", "reconcile", "initiate", "send", "await", "requery", "expired", "confirm"}
AdapterLocal == [at : At, offset : 0..Chunks, furthestOffset : 0..Chunks,
                 attemptsAtOffset : 0..MaxAttempts, restarts : 0..MaxRestarts]
Fresh == [at |-> "start", offset |-> 0, furthestOffset |-> 0, attemptsAtOffset |-> 0, restarts |-> 0]

YouTubeTypeOK ==
  /\ TypeOK
  /\ sent \in [Provider -> [Token -> 0..Chunks]]
  /\ committed \in [Provider -> [Token -> 0..Chunks]]
  /\ adapter \in [Run -> AdapterLocal]

YouTubeInit ==
  /\ Init
  /\ sent = [p \in Provider |-> [t \in Token |-> 0]]
  /\ committed = [p \in Provider |-> [t \in Token |-> 0]]
  /\ adapter = [r \in Run |-> Fresh]

-----------------------------------------------------------------------------
IsAt(r, at) == run[r].pc = "adapter" /\ adapter[r].at = at

\* Every way out of publish forgets its locals.
Leave(r) == adapter' = [adapter EXCEPT ![r] = Fresh] /\ UNCHANGED <<sent, committed>>
Enter(r, l) == adapter' = [adapter EXCEPT ![r] = l] /\ UNCHANGED <<sent, committed>>
Stay == UNCHANGED <<vars, sent, committed>>

Step(l, at) == [l EXCEPT !.at = at]

\* Mutant: progress is measured from the previous offset, not the furthest.
ResumeForgiving(l, k) ==
  LET at == IF k < Chunks THEN "send" ELSE "confirm" IN
  [Step(l, at) EXCEPT !.offset = k, !.furthestOffset = k,
                      !.attemptsAtOffset = IF k > l.furthestOffset THEN 0 ELSE @]

\* The upload loop goes on at the offset the provider reported; its budget is
\* renewed only by progress beyond everything reported before.
Resume(l, k) ==
  LET at == IF k < Chunks THEN "send" ELSE "confirm" IN
  IF k > l.furthestOffset
  THEN [Step(l, at) EXCEPT !.offset = k, !.furthestOffset = k, !.attemptsAtOffset = 0]
  ELSE [Step(l, at) EXCEPT !.offset = k]

\* What a status query, or a 308, may report of an upload in progress.
Reported(r) ==
  IF Held(run[r]) = "open" THEN 0 .. committed[run[r].p][run[r].token] ELSE {}

-----------------------------------------------------------------------------
(* publish, step by step.                                                  *)

\* The access token is refreshed and the file is there.
GetAccessToken(r) ==
  /\ IsAt(r, "start")
  /\ adapter' = [adapter EXCEPT ![r].at = IF run[r].token = NoToken THEN "initiate" ELSE "reconcile"]
  /\ Stay

\* CREDENTIALS_UNAVAILABLE or MEDIA_FILE_MISSING, before any other request:
\* an explicit failure, whatever the session being resumed has become.
AccessRefused(r) ==
  /\ IsAt(r, "start")
  /\ run[r].token # NoToken => ResumeRefused
  /\ Answer(r, "failure")
  /\ Leave(r)
  /\ UNCHANGED <<state, gate, grant, row, retry, upload>>

\* The saved session still stands: go on from the offset it reports.
ReconcileOffset(r) ==
  /\ IsAt(r, "reconcile")
  /\ \E k \in Reported(r) :
       adapter' = [adapter EXCEPT ![r] = Resume([@ EXCEPT !.furthestOffset = k], k)]
  /\ Stay

\* Mutant: a status query that fails is taken for an expired session.
ReconcileExpiredOnError(r) ==
  /\ IsAt(r, "reconcile")
  /\ adapter' = [adapter EXCEPT ![r].at = "initiate"]
  /\ Stay

\* 404 or 410: a fresh session will replace the one the row still names.
ReconcileExpired(r) ==
  /\ IsAt(r, "reconcile")
  /\ Held(run[r]) = "dead"
  /\ adapter' = [adapter EXCEPT ![r].at = "initiate"]
  /\ Stay

\* The new session is in the row before a byte of media is sent.
InitiateSession(r) ==
  /\ IsAt(r, "initiate")
  /\ OpenSession(r)
  /\ Enter(r, [Fresh EXCEPT !.at = "send", !.restarts = adapter[r].restarts])

InitiateRejected(r) ==
  /\ IsAt(r, "initiate")
  /\ Answer(r, "failure")
  /\ Leave(r)
  /\ UNCHANGED <<state, gate, grant, row, retry, upload>>

SendChunk(r) ==
  LET p == run[r].p  t == run[r].token  l == adapter[r] IN
  /\ IsAt(r, "send")
  /\ sent' = [sent EXCEPT ![p][t] = IF @ > l.offset THEN @ ELSE l.offset + 1]
  /\ adapter' = [adapter EXCEPT ![r] = [l EXCEPT !.at = "await", !.attemptsAtOffset = l.attemptsAtOffset + 1]]
  /\ UNCHANGED <<vars, committed>>

\* Mutant: a 308 is taken to mean that the whole chunk was stored.
ChunkTakenWhole(r) ==
  /\ IsAt(r, "await")
  /\ Held(run[r]) = "open"
  /\ adapter' = [adapter EXCEPT ![r] = Resume(@, @.offset + 1)]
  /\ Stay

\* 308: the chunk was taken, in part or whole or not at all.
ChunkTaken(r) ==
  /\ IsAt(r, "await")
  /\ \E k \in Reported(r) :
       /\ k > adapter[r].furthestOffset \/ adapter[r].attemptsAtOffset < MaxAttempts
       /\ adapter' = [adapter EXCEPT ![r] = Resume(@, k)]
  /\ Stay

\* A transient 5xx is never answered by sending the chunk again blindly.
ChunkTransient(r) ==
  /\ IsAt(r, "await")
  /\ adapter[r].attemptsAtOffset < MaxAttempts
  /\ adapter' = [adapter EXCEPT ![r].at = "requery"]
  /\ Stay

\* Any other 4xx: the provider has refused the upload for good.
ChunkRejected(r) ==
  /\ IsAt(r, "await")
  /\ AnswerFailure(r)
  /\ Leave(r)

RequeryOffset(r) ==
  /\ IsAt(r, "requery")
  /\ \E k \in Reported(r) : adapter' = [adapter EXCEPT ![r] = Resume(@, k)]
  /\ Stay

\* 404 or 410: saveProviderState(null) before anything else is tried.
RequeryExpired(r) ==
  /\ IsAt(r, "requery")
  /\ DropSession(r)
  /\ Enter(r, Step(adapter[r], "expired"))

Restart(r) ==
  /\ IsAt(r, "expired")
  /\ adapter[r].restarts < MaxRestarts
  /\ Enter(r, [Step(adapter[r], "initiate") EXCEPT !.restarts = @ + 1])
  /\ UNCHANGED vars

\* UploadSessionExpiredError is an explicit failure once restarts are used up.
RestartsExhausted(r) ==
  /\ IsAt(r, "expired")
  /\ adapter[r].restarts = MaxRestarts
  /\ AnswerFailure(r)
  /\ Leave(r)

\* 200 or 201, to a chunk or to a status query.
Completed(r) ==
  /\ \E at \in {"reconcile", "await", "requery", "confirm"} : IsAt(r, at)
  /\ AnswerSuccess(r)
  /\ Leave(r)

\* A network error, a 5xx that is not retried or was retried in vain, a
\* rejected status query, an answer without an id or a session, a failed
\* save, or a file that was sent whole and is not confirmed.
Undetermined(r) ==
  /\ \E at \in {"reconcile", "initiate", "await", "requery", "confirm"} : IsAt(r, at)
  /\ AnswerAmbiguous(r)
  /\ Leave(r)

-----------------------------------------------------------------------------
(* The provider: what was sent arrives, or the session is dropped.         *)

Commit(p, t) ==
  /\ upload[p][t] = "open"
  /\ committed[p][t] < sent[p][t]
  /\ committed' = [committed EXCEPT ![p][t] = @ + 1]
  /\ UNCHANGED <<vars, sent, adapter>>

Finish(p, t) ==
  /\ committed[p][t] = Chunks
  /\ Complete(p, t)
  /\ UNCHANGED <<sent, committed, adapter>>

Drop(p, t) ==
  /\ Expire(p, t)
  /\ UNCHANGED <<sent, committed, adapter>>

-----------------------------------------------------------------------------
Publish(r) ==
  \/ GetAccessToken(r) \/ AccessRefused(r)
  \/ ReconcileOffset(r) \/ ReconcileExpired(r)
  \/ InitiateSession(r) \/ InitiateRejected(r)
  \/ SendChunk(r) \/ ChunkTaken(r) \/ ChunkTransient(r) \/ ChunkRejected(r)
  \/ RequeryOffset(r) \/ RequeryExpired(r) \/ Restart(r) \/ RestartsExhausted(r)
  \/ Completed(r) \/ Undetermined(r)

YouTubeNext ==
  \/ \E r \in Run : Publish(r) \/ (Pipeline(r) /\ Leave(r))
  \/ \E p \in Provider, t \in Token : Commit(p, t) \/ Finish(p, t) \/ Drop(p, t)
  \/ (Owner \/ FinalCompliance) /\ UNCHANGED <<sent, committed, adapter>>

YouTubeSpec == YouTubeInit /\ [][YouTubeNext]_youTubeVars

\* Every request is answered or times out, and a live process goes on.  Sweeps
\* keep coming back to a PENDING row, and not every process that finds an
\* interrupted attempt dies before recording it.
YouTubeFairness ==
  \A r \in Run :
    /\ WF_youTubeVars(Publish(r))
    /\ WF_youTubeVars(Progress(r) /\ Leave(r))
    /\ SF_youTubeVars(MarkInterrupted(r) /\ Leave(r))
    /\ \A p \in Provider : SF_youTubeVars(BeginInterrupted(r, p) /\ Leave(r))

YouTubeFairSpec == YouTubeSpec /\ YouTubeFairness

-----------------------------------------------------------------------------
\* With a token for every resumed session, the adapter keeps the contract of
\* PublicationProvider.js, so that all of Publication holds of it.
ImplementsPublication == Spec

\* publish answers, though the provider may report any offset it likes.
PublishAnswers ==
  \A r \in Run : run[r].pc = "adapter" ~> run[r].pc # "adapter"

\* No gap is ever left in the file: the chunk to send follows stored ones.
OffsetIsCommitted ==
  \A r \in Run : adapter[r].at \in {"send", "await"} =>
    adapter[r].offset <= committed[run[r].p][run[r].token]

\* A crash at any point of an upload leaves a row that names its session, so
\* that the next sweep can ask the provider what became of it.
UploadsAreRecoverable ==
  \A p \in Provider, t \in Token :
    row[p].status = "PENDING" /\ sent[p][t] > 0 /\ upload[p][t] \in {"open", "done"}
      => row[p].session = t

=============================================================================
