------------------------ MODULE ShortFormPublication ------------------------
(***************************************************************************)
(* Publication with what TikTokAdapter.publish and FacebookReelsAdapter    *)
(* .publish do between the claim and the answer.  Neither saves provider   *)
(* state, so Resumable is to be {}: a dead attempt leaves nothing to       *)
(* resume.  TikTok publishes what it was sent and is polled for the        *)
(* outcome; Facebook publishes what it is told to finish, and goes on      *)
(* processing it afterwards.                                               *)
(*                                                                         *)
(* A request and its reply are two steps: the provider may act on a        *)
(* request whose reply is lost.                                            *)
(***************************************************************************)
EXTENDS Publication

CONSTANTS
  Polls  \* statusPollAttempts

ASSUME ShortFormAssumption == Polls \in Nat \ {0}

VARIABLES
  polled,    \* the providers that publish as TikTok does; it never changes
  told,      \* how far the provider was told to go with each upload
  accepted,  \* the uploads the provider has ever accepted
  adapter    \* the locals of publish in each invocation

shortFormVars == <<vars, polled, told, accepted, adapter>>

Told == {"none", "body", "finish"}
At == {"start", "started", "sent", "finishing", "check"}
Fresh == [at |-> "start", polls |-> 0]

ShortFormTypeOK ==
  /\ TypeOK
  /\ polled \subseteq Provider
  /\ told \in [Provider -> [Token -> Told]]
  /\ accepted \in [Provider -> SUBSET Token]
  /\ adapter \in [Run -> [at : At, polls : 0..Polls]]

ShortFormInit ==
  /\ Init
  /\ polled \in SUBSET Provider
  /\ told = [p \in Provider |-> [t \in Token |-> "none"]]
  /\ accepted = [p \in Provider |-> {}]
  /\ adapter = [r \in Run |-> Fresh]

-----------------------------------------------------------------------------
IsAt(r, at) == run[r].pc = "adapter" /\ adapter[r].at = at
Step(r, at) == adapter' = [adapter EXCEPT ![r].at = at]
Leave(r) == adapter' = [adapter EXCEPT ![r] = Fresh] /\ UNCHANGED <<polled, told, accepted>>
IsPolled(r) == run[r].p \in polled

Tell(r, what) ==
  /\ told' = [told EXCEPT ![run[r].p][run[r].token] = what]
  /\ UNCHANGED <<vars, polled, accepted>>

\* INVALID_VISIBILITY, CREDENTIALS_UNAVAILABLE or MEDIA_FILE_MISSING; then a
\* start that is answered by a 4xx, or for TikTok by an error inside a 200.
Refused(r) ==
  /\ IsAt(r, "start")
  /\ AnswerFailure(r)
  /\ Leave(r)

\* _initUpload, _startUploadSession: the provider opens an upload, which will
\* come to nothing unless it is sent the file.
Initiate(r) ==
  /\ IsAt(r, "start")
  /\ OpenSession(r)
  /\ Step(r, "started")
  /\ UNCHANGED <<polled, told, accepted>>

\* _putFile, _uploadFile: the ids are there, the file is sent whole.
SendBody(r) ==
  /\ IsAt(r, "started")
  /\ Tell(r, "body")
  /\ Step(r, "sent")

\* TikTok answers 201 or 206, and publishes what it was sent.
BodyTaken(r) ==
  /\ IsAt(r, "sent") /\ IsPolled(r)
  /\ Step(r, "check")
  /\ UNCHANGED <<vars, polled, told, accepted>>

\* _finishUpload: this, not the file, is what publishes a reel.
SendFinish(r) ==
  /\ IsAt(r, "sent") /\ ~IsPolled(r)
  /\ Tell(r, "finish")
  /\ Step(r, "finishing")

\* success: true
Finished(r) ==
  /\ IsAt(r, "finishing")
  /\ run[r].token \in accepted[run[r].p]
  /\ Step(r, "check")
  /\ UNCHANGED <<vars, polled, told, accepted>>

\* ProviderExplicitError: any other answer below 500 to the file, or to the finish.
Rejected(r) ==
  /\ IsAt(r, "sent") \/ IsAt(r, "finishing")
  /\ run[r].token \notin accepted[run[r].p]
  /\ AnswerFailure(r)
  /\ Leave(r)

\* Mutant: a request without an answer counts as rejected.
LostIsFailure(r) ==
  /\ \E at \in {"started", "sent", "finishing"} : IsAt(r, at)
  /\ Answer(r, "failure")
  /\ Leave(r)
  /\ UNCHANGED <<state, gate, grant, row, retry, upload>>

\* Anything else that is thrown, a 2xx without ids, a finish that does not
\* confirm: nobody knows what the provider made of it.
Lost(r) ==
  /\ \E at \in {"started", "sent", "finishing"} : IsAt(r, at)
  /\ AnswerAmbiguous(r)
  /\ Leave(r)

\* _fetchStatus: FAILED; error or upload_failed.
CheckFailed(r) ==
  /\ IsAt(r, "check")
  /\ Held(run[r]) = "dead"
  /\ AnswerFailure(r)
  /\ Leave(r)

\* PUBLISH_COMPLETE with the id of a post.  The status tells no visibility.
PollComplete(r) ==
  /\ IsAt(r, "check") /\ IsPolled(r)
  /\ Held(run[r]) = "done"
  /\ Answer(r, "unconfirmed")
  /\ Leave(r)
  /\ UNCHANGED <<state, gate, grant, row, retry, upload>>

\* Still processing, and the window is not over.
PollAgain(r) ==
  /\ IsAt(r, "check") /\ IsPolled(r)
  /\ adapter[r].polls + 1 < Polls
  /\ adapter' = [adapter EXCEPT ![r].polls = @ + 1]
  /\ UNCHANGED <<vars, polled, told, accepted>>

\* The window is over, the status could not be read, or there is no post id.
PollUndecided(r) ==
  /\ IsAt(r, "check") /\ IsPolled(r)
  /\ AnswerAmbiguous(r)
  /\ Leave(r)

\* The finish was the confirmation, and its visibility the one asked for: one
\* look at the status, which may fail or come too early, excludes only an
\* error it shows.
ReelConfirmed(r) ==
  /\ IsAt(r, "check") /\ ~IsPolled(r)
  /\ Answer(r, "success")
  /\ Leave(r)
  /\ UNCHANGED <<state, gate, grant, row, retry, upload>>

-----------------------------------------------------------------------------
(* The providers.                                                          *)

Accept(p, t) ==
  /\ told[p][t] = IF p \in polled THEN "body" ELSE "finish"
  /\ Complete(p, t)
  /\ accepted' = [accepted EXCEPT ![p] = @ \cup {t}]
  /\ UNCHANGED <<polled, told, adapter>>

\* Moderation refuses a post before it exists.
Moderate(p, t) ==
  /\ Expire(p, t)
  /\ UNCHANGED <<polled, told, accepted, adapter>>

\* A reel that was accepted fails to be processed, and is never shown.
ProcessingFails(p, t) ==
  /\ p \notin polled
  /\ upload[p][t] = "done"
  /\ upload' = [upload EXCEPT ![p][t] = "dead"]
  /\ UNCHANGED <<state, gate, grant, row, retry, run, polled, told, accepted, adapter>>

-----------------------------------------------------------------------------
Publish(r) ==
  \/ Refused(r) \/ Initiate(r) \/ SendBody(r) \/ BodyTaken(r)
  \/ SendFinish(r) \/ Finished(r)
  \/ Rejected(r) \/ Lost(r)
  \/ CheckFailed(r) \/ PollComplete(r) \/ PollAgain(r) \/ PollUndecided(r)
  \/ ReelConfirmed(r)

ShortFormNext ==
  \/ \E r \in Run : Publish(r) \/ (Pipeline(r) /\ Leave(r))
  \/ \E p \in Provider, t \in Token : Accept(p, t) \/ Moderate(p, t) \/ ProcessingFails(p, t)
  \/ (Owner \/ FinalCompliance) /\ UNCHANGED <<polled, told, accepted, adapter>>

ShortFormSpec == ShortFormInit /\ [][ShortFormNext]_shortFormVars

-----------------------------------------------------------------------------
(* Properties, with or without the guard.                                  *)

\* A row says PUBLISHED only of an upload the provider accepted, and a row a
\* later run may claim again stands for none it could still show: an answer
\* that got lost is never taken for a yes or a no.
AnswersAreTrue ==
  \A p \in Provider :
    /\ row[p].status = "PUBLISHED" => accepted[p] # {}
    /\ IsReclaimable(row[p]) => Live(p) = {}

=============================================================================
