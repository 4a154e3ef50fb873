----------------------- MODULE YouTubePublicationProofs -----------------------
(***************************************************************************)
(* Proofs about YouTubePublication, for any number of chunks, attempts and *)
(* restarts: publish keeps the contract of PublicationProvider.js, with    *)
(* which everything PublicationProofs says of an adapter holds of it.      *)
(***************************************************************************)
EXTENDS YouTubePublication, PublicationProofs

\* A session that a row or an invocation names was opened at the provider.
SessionsExist ==
  /\ \A p \in Provider : row[p].session # NoToken => upload[p][row[p].session] # "none"
  /\ \A r \in Run : run[r].token # NoToken => upload[run[r].p][run[r].token] # "none"

\* What publish knows at each of its steps.
AdapterInv(r) ==
  LET l == adapter[r] IN
  /\ run[r].pc # "adapter" => l = Fresh
  /\ l.at \in {"reconcile", "send", "await", "requery", "confirm"} => run[r].token # NoToken
  /\ l.at \in {"start", "reconcile"} => l.attemptsAtOffset = 0
  /\ l.at \in {"initiate", "expired"} => Held(run[r]) \in {"none", "dead"}
  /\ l.at \in {"send", "await"} => l.offset <= committed[run[r].p][run[r].token]
  /\ l.at = "send" => l.offset < Chunks
  /\ l.at \in {"send", "requery"} => l.attemptsAtOffset < MaxAttempts

YouTubeInv == YouTubeTypeOK /\ SessionsExist /\ \A r \in Run : AdapterInv(r)

-----------------------------------------------------------------------------
LEMMA FreshType == Fresh \in AdapterLocal
  BY YouTubeAssumption DEF YouTubeAssumption, Fresh, AdapterLocal, At

\* The upload loop goes on within the budget it had, or with a renewed one.
LEMMA ResumeType ==
  ASSUME NEW l \in AdapterLocal, NEW k \in 0..Chunks
  PROVE  /\ Resume(l, k) \in AdapterLocal
         /\ Resume(l, k).at = IF k < Chunks THEN "send" ELSE "confirm"
         /\ Resume(l, k).offset = k
         /\ Resume(l, k).attemptsAtOffset = IF k > l.furthestOffset THEN 0 ELSE l.attemptsAtOffset
<1> DEFINE at == IF k < Chunks THEN "send" ELSE "confirm"
           n == IF k > l.furthestOffset THEN 0 ELSE l.attemptsAtOffset
           f == IF k > l.furthestOffset THEN k ELSE l.furthestOffset
<1>1. l = [at |-> l.at, offset |-> l.offset, furthestOffset |-> l.furthestOffset,
           attemptsAtOffset |-> l.attemptsAtOffset, restarts |-> l.restarts]
  BY DEF AdapterLocal
<1>2. Resume(l, k) = [at |-> at, offset |-> k, furthestOffset |-> f, attemptsAtOffset |-> n, restarts |-> l.restarts]
  BY <1>1 DEF Resume, Step
<1>3. at \in At /\ f \in 0..Chunks /\ n \in 0..MaxAttempts /\ l.restarts \in 0..MaxRestarts
  BY YouTubeAssumption DEF YouTubeAssumption, AdapterLocal, At
<1>4. QED
  BY <1>2, <1>3 DEF AdapterLocal

LEMMA AtUpdate ==
  ASSUME NEW l \in AdapterLocal, NEW at \in At
  PROVE  Step(l, at) \in AdapterLocal /\ [l EXCEPT !.at = at] \in AdapterLocal
  BY DEF Step, AdapterLocal

LEMMA CounterUpdates ==
  ASSUME NEW l \in AdapterLocal
  PROVE  /\ \A k \in 0..Chunks : [l EXCEPT !.furthestOffset = k] \in AdapterLocal
         /\ \A n \in 0..MaxAttempts : [l EXCEPT !.attemptsAtOffset = n] \in AdapterLocal
         /\ \A n \in 0..MaxRestarts : [l EXCEPT !.restarts = n] \in AdapterLocal
  BY DEF AdapterLocal

\* The locals of a fresh session, of a chunk sent and of a session restarted.
LEMMA SessionLocal ==
  ASSUME NEW l \in AdapterLocal
  PROVE  [Fresh EXCEPT !.at = "send", !.restarts = l.restarts] \in AdapterLocal
<1>1. [Fresh EXCEPT !.at = "send"] \in AdapterLocal
  BY FreshType, AtUpdate DEF At
<1>2. l.restarts \in 0..MaxRestarts
  BY DEF AdapterLocal
<1>3. QED
  BY <1>1, <1>2, CounterUpdates

LEMMA SentLocal ==
  ASSUME NEW l \in AdapterLocal, l.attemptsAtOffset < MaxAttempts
  PROVE  [l EXCEPT !.at = "await", !.attemptsAtOffset = l.attemptsAtOffset + 1] \in AdapterLocal
<1>1. [l EXCEPT !.at = "await"] \in AdapterLocal
  BY AtUpdate DEF At
<1>2. l.attemptsAtOffset + 1 \in 0..MaxAttempts /\ [l EXCEPT !.at = "await"].attemptsAtOffset = l.attemptsAtOffset
  BY YouTubeAssumption DEF YouTubeAssumption, AdapterLocal
<1>3. QED
  BY <1>1, <1>2, CounterUpdates

LEMMA RestartLocal ==
  ASSUME NEW l \in AdapterLocal, l.restarts < MaxRestarts
  PROVE  [Step(l, "initiate") EXCEPT !.restarts = @ + 1] \in AdapterLocal
<1>1. Step(l, "initiate") \in AdapterLocal
  BY AtUpdate DEF At
<1>2. l.restarts + 1 \in 0..MaxRestarts /\ Step(l, "initiate").restarts = l.restarts
  BY YouTubeAssumption DEF YouTubeAssumption, AdapterLocal, Step
<1>3. QED
  BY <1>1, <1>2, CounterUpdates

LEMMA YouTubeInvInit == YouTubeInit => YouTubeInv
<1> SUFFICES ASSUME YouTubeInit PROVE YouTubeInv
  OBVIOUS
<1>1. YouTubeTypeOK
  BY InitType, FreshType, YouTubeAssumption DEF YouTubeInit, YouTubeTypeOK, YouTubeAssumption
<1>2. SessionsExist
  BY IdleType DEF YouTubeInit, Init, SessionsExist, NoRow, Idle
<1>3. \A r \in Run : AdapterInv(r)
  BY DEF YouTubeInit, AdapterInv, Fresh
<1>4. QED
  BY <1>1, <1>2, <1>3 DEF YouTubeInv

-----------------------------------------------------------------------------
\* Each step of publish is one the contract allows, or none of its business.
\* The one exception is AccessRefused, when it gives up a session it could
\* have resumed.
LEMMA PublishStep ==
  ASSUME YouTubeInv, NEW r \in Run, Publish(r)
  PROVE  \/ Invocation(r)
         \/ UNCHANGED vars
         \/ AccessRefused(r) /\ ResumeRefused
<1>1. CASE AccessRefused(r)
  <2>1. CASE run[r].token = NoToken
    <3>1. AnswerFailure(r)
      BY <1>1, <2>1 DEF AccessRefused, IsAt, AnswerFailure, Held
    <3>2. QED
      BY <3>1 DEF Invocation, Adapter
  <2>2. QED
    BY <1>1, <2>1 DEF AccessRefused
<1>2. CASE InitiateSession(r) \/ InitiateRejected(r)
  <2>1. Held(run[r]) \in {"none", "dead"} /\ run[r].p \in Resumable
    BY <1>2, LocalType, YouTubeAssumption
       DEF YouTubeAssumption, InitiateSession, InitiateRejected, IsAt, YouTubeInv, AdapterInv, YouTubeTypeOK
  <2>2. Open(r) \/ AnswerFailure(r)
    BY <1>2, <2>1 DEF InitiateSession, InitiateRejected, IsAt, Open, AnswerFailure
  <2>3. QED
    BY <2>2 DEF Invocation, Adapter
<1>3. CASE ChunkRejected(r) \/ RestartsExhausted(r) \/ RequeryExpired(r) \/ Completed(r) \/ Undetermined(r)
  BY <1>3 DEF ChunkRejected, RestartsExhausted, RequeryExpired, Completed, Undetermined, Invocation, Adapter
<1>4. QED
  BY <1>1, <1>2, <1>3
     DEF Publish, GetAccessToken, ReconcileOffset, ReconcileExpired, SendChunk, ChunkTaken,
         ChunkTransient, RequeryOffset, Restart, Stay

LEMMA YouTubeStep ==
  ASSUME YouTubeInv, YouTubeNext
  PROVE  \/ \E r \in Run : Invocation(r)
         \/ World
         \/ UNCHANGED vars
         \/ \E r \in Run : AccessRefused(r) /\ ResumeRefused
<1>1. ASSUME NEW r \in Run, Pipeline(r) PROVE Invocation(r)
  BY <1>1 DEF Invocation
<1>2. QED
  BY <1>1, PublishStep DEF YouTubeNext, Commit, Finish, Drop, World

\* An upload that was opened stays opened, and a dead one stays dead.
LEMMA UploadsAge ==
  ASSUME TypeOK, (\E r \in Run : Invocation(r)) \/ World \/ UNCHANGED upload
  PROVE  \A p \in Provider, t \in Token :
           /\ upload[p][t] # "none" => upload'[p][t] # "none"
           /\ upload[p][t] = "dead" => upload'[p][t] = "dead"
<1>1. CASE UNCHANGED upload
  BY <1>1
<1>2. CASE \E p \in Provider, t \in Token :
             /\ upload[p][t] \in {"none", "open"}
             /\ \E s \in {"open", "done", "dead"} : upload' = [upload EXCEPT ![p][t] = s]
  BY <1>2 DEF TypeOK
<1>3. ASSUME NEW r \in Run, Open(r) \/ AnswerFailure(r)
      PROVE  UNCHANGED upload \/ \E t \in Token :
               /\ upload[run[r].p][t] \in {"none", "open"}
               /\ \E s \in {"open", "done", "dead"} : upload' = [upload EXCEPT ![run[r].p][t] = s]
  BY <1>3, LocalType DEF Open, OpenSession, IsFresh, AnswerFailure, Held
<1>4. ASSUME NEW r \in Run, Invocation(r) PROVE UNCHANGED upload \/ Open(r) \/ AnswerFailure(r)
  BY <1>4 DEF Invocation, Pipeline, Adapter, BeginPublished, BeginInterrupted, BeginAttempt, Begin, MarkInterrupted,
         ClaimNew, ClaimFailed, ClaimResume, ClaimRaced, DropSession, AnswerSuccess, AnswerAmbiguous,
         SettleFailure, SettleAmbiguous, SettleMismatch, SettlePublished, ThumbnailStart,
         ThumbnailSkip, ThumbnailEnd, Crash
<1>5. CASE World
  <2>1. UNCHANGED upload \/ \E p \in Provider, t \in Token : Complete(p, t) \/ Expire(p, t)
    BY <1>5 DEF World, Owner, SetGrant, Reactivate, FinalCompliance, GateChanges
  <2>2. QED
    BY <1>1, <1>2, <2>1 DEF Complete, Expire
<1>6. QED
  BY <1>1, <1>2, <1>3, <1>4, <1>5, LocalType

-----------------------------------------------------------------------------
(* The inductive invariant, with any number of live processes.             *)

LEMMA SessionsInvocation ==
  ASSUME TypeOK, SessionsExist, NEW r \in Run, Invocation(r)
  PROVE  SessionsExist'
<1>p. PICK p \in Provider : p = run[r].p
  BY LocalType
<1>k. row[p] \in Row /\ run[r] \in Local
  BY DEF TypeOK
<1>1. \A b \in Provider, t \in Token : upload[b][t] # "none" => upload'[b][t] # "none"
  BY UploadsAge
<1>2. \A b \in Provider : row[b].session \in Token \cup {NoToken}
  BY RowTypes DEF TypeOK
<1>3. \A q \in Run : run[q].p \in Provider /\ run[q].token \in Token \cup {NoToken}
  BY LocalType
<1>4. CASE Open(r)
  <2>1. PICK t \in Token :
          /\ upload' = [upload EXCEPT ![p][t] = "open"]
          /\ run' = [run EXCEPT ![r].token = t]
          /\ row' = IF p \in Resumable THEN [row EXCEPT ![p].session = t] ELSE row
    BY <1>4, <1>p DEF Open, OpenSession
  <2>2. upload'[p][t] = "open" /\ run'[r].token = t /\ run'[r].p = p
    BY <2>1, <1>p, <1>k DEF TypeOK, Local
  <2>3. row'[p].session \in {t, row[p].session}
    BY <2>1, <1>k DEF TypeOK, Row
  <2>4. \A b \in Provider \ {p} : row'[b] = row[b]
    BY <1>p, OthersUntouched
  <2>5. \A q \in Run \ {r} : run'[q] = run[q]
    BY OthersStay
  <2>6. QED
    BY <1>1, <1>2, <1>3, <2>2, <2>3, <2>4, <2>5 DEF SessionsExist, Token, NoToken
<1>5. ASSUME ~Open(r) PROVE row'[p].session \in {row[p].session, NoToken}
  <2>1. CASE \/ row' = row
             \/ \E s : row' = [row EXCEPT ![p].thumbnail = s]
             \/ \E s : row' = [row EXCEPT ![p].status = s]
             \/ row' = [row EXCEPT ![p].session = NoToken]
    BY <2>1, <1>k DEF TypeOK, Row
  <2>2. CASE ClaimNew(r) \/ ClaimFailed(r)
    BY <2>2, <1>p DEF ClaimNew, ClaimFailed, Claimed, TypeOK
  <2>3. CASE SettleFailure(r) \/ SettleMismatch(r)
    BY <2>3, <1>p DEF SettleFailure, SettleMismatch, Failed, TypeOK
  <2>4. CASE SettlePublished(r)
    BY <2>4, <1>p, <1>k DEF SettlePublished, Published, TypeOK, Row
  <2>5. QED
    BY Invocation(r), <1>5, <1>p, <2>1, <2>2, <2>3, <2>4
       DEF Invocation, Pipeline, Adapter, BeginPublished, BeginInterrupted, BeginAttempt, Begin, MarkInterrupted,
           ClaimResume, ClaimRaced, DropSession, AnswerSuccess, AnswerFailure,
           AnswerAmbiguous, SettleAmbiguous, ThumbnailStart, ThumbnailSkip, ThumbnailEnd, Crash
<1>6. ASSUME ~Open(r)
      PROVE  \/ run'[r].token = NoToken
             \/ run'[r].p = p /\ run'[r].token \in {run[r].token, row[p].session}
  <2>1. CASE Return(r)
    BY <2>1 DEF Return, Idle, TypeOK
  <2>2. CASE run' = [run EXCEPT ![r].token = NoToken]
    BY <2>2, <1>k DEF TypeOK, Local
  <2>g. CASE \E pc \in Pc : Goto(r, pc)
    BY <2>g, <1>p, <1>k DEF Goto, TypeOK, Local
  <2>a. CASE \E result \in Result : Answer(r, result)
    BY <2>a, <1>p, <1>k DEF Answer, TypeOK, Local
  <2>3. CASE ClaimResume(r)
    BY <2>3, <1>p, <1>k DEF ClaimResume, TypeOK, Local
  <2>4. CASE \E b \in Provider : BeginPublished(r, b) \/ BeginInterrupted(r, b) \/ BeginAttempt(r, b)
    <3>1. PICK b \in Provider, pc \in Pc, visibility \in {"default", "public"} : Begin(r, b, pc, visibility)
      BY <2>4 DEF BeginPublished, BeginInterrupted, BeginAttempt, Pc
    <3>2. run' = [run EXCEPT ![r] = [Idle EXCEPT !.pc = pc, !.p = b, !.visibility = visibility]]
      BY <3>1 DEF Begin
    <3>3. QED
      BY <3>2, IdleType DEF TypeOK, Local, Idle
  <2>5. QED
    BY Invocation(r), <1>6, <2>1, <2>2, <2>g, <2>a, <2>3, <2>4
       DEF Invocation, Pipeline, Adapter, MarkInterrupted, ClaimNew, ClaimFailed, ClaimRaced, DropSession,
           AnswerSuccess, AnswerFailure, AnswerAmbiguous, SettleFailure, SettleAmbiguous,
           SettleMismatch, SettlePublished, ThumbnailStart, ThumbnailSkip, ThumbnailEnd, Crash, Pc, Result
<1>7. ASSUME ~Open(r) PROVE SessionsExist'
  <2>1. \A b \in Provider \ {p} : row'[b] = row[b]
    BY <1>p, OthersUntouched
  <2>2. \A q \in Run \ {r} : run'[q] = run[q]
    BY OthersStay
  <2>3. QED
    BY <1>1, <1>2, <1>3, <1>5, <1>6, <1>7, <1>p, <2>1, <2>2 DEF SessionsExist
<1>8. QED
  BY <1>4, <1>7

LEMMA SessionsStep ==
  ASSUME YouTubeInv, YouTubeNext
  PROVE  TypeOK' /\ SessionsExist'
<1> USE DEF YouTubeInv, YouTubeTypeOK
<1>1. CASE \E r \in Run : Invocation(r)
  BY <1>1, InvocationType, SessionsInvocation
<1>2. CASE World
  <2>1. UNCHANGED <<row, run>>
    BY <1>2 DEF World, Owner, Complete, Expire, SetGrant, Reactivate, FinalCompliance, GateChanges
  <2>2. \A p \in Provider : row[p].session \in Token \cup {NoToken}
    BY RowTypes DEF TypeOK
  <2>3. \A q \in Run : run[q].p \in Provider /\ run[q].token \in Token \cup {NoToken}
    BY LocalType
  <2>4. SessionsExist'
    BY <1>2, <2>1, <2>2, <2>3, UploadsAge DEF SessionsExist
  <2>5. QED
    BY <1>2, <2>4, WorldType
<1>3. CASE UNCHANGED vars
  BY <1>3 DEF vars, TypeOK, SessionsExist
<1>4. ASSUME NEW r \in Run, AccessRefused(r) PROVE TypeOK' /\ SessionsExist'
  <2>1. /\ run' = [run EXCEPT ![r] = [@ EXCEPT !.pc = "settle", !.result = "failure"]]
        /\ UNCHANGED <<state, gate, grant, row, retry, upload>>
    BY <1>4 DEF AccessRefused, Answer
  <2>2. [run[r] EXCEPT !.pc = "settle", !.result = "failure"] \in Local
    BY LocalUpdates DEF TypeOK, Result
  <2>3. TypeOK'
    BY <2>1, <2>2 DEF TypeOK
  <2>4. \A q \in Run : run'[q].p = run[q].p /\ run'[q].token = run[q].token
    BY <2>1 DEF TypeOK, Local
  <2>5. QED
    BY <2>1, <2>3, <2>4 DEF SessionsExist
<1>5. QED
  BY <1>1, <1>2, <1>3, <1>4, YouTubeStep

\* What publish knows is not undone by anyone else.
LEMMA AdapterStays ==
  ASSUME YouTubeInv, NEW r \in Run, run'[r] = run[r], adapter'[r] = adapter[r],
         \A p \in Provider, t \in Token : upload[p][t] = "dead" => upload'[p][t] = "dead",
         committed' \in [Provider -> [Token -> 0..Chunks]],
         \A p \in Provider, t \in Token : committed[p][t] <= committed'[p][t]
  PROVE  AdapterInv(r)'
<1> DEFINE l == adapter[r]  p == run[r].p  t == run[r].token
<1>1. AdapterInv(r) /\ p \in Provider /\ t \in Token \cup {NoToken} /\ l \in AdapterLocal
  BY LocalType DEF YouTubeInv, YouTubeTypeOK
<1>2. l.at \in {"initiate", "expired"} => Held(run[r])' \in {"none", "dead"}
  <2>1. t = NoToken \/ upload[p][t] # "none"
    BY DEF YouTubeInv, SessionsExist
  <2>2. QED
    BY <1>1, <2>1 DEF AdapterInv, Held
<1>3. l.at \in {"send", "await"} => l.offset <= committed'[p][t]
  <2>1. ASSUME l.at \in {"send", "await"} PROVE t \in Token /\ l.offset <= committed[p][t]
    BY <1>1, <2>1 DEF AdapterInv
  <2>2. l.offset \in Nat
    BY <1>1 DEF AdapterLocal
  <2>3. ASSUME t \in Token PROVE committed[p][t] \in Nat /\ committed'[p][t] \in Nat /\ committed[p][t] <= committed'[p][t]
    BY <1>1, <2>3 DEF YouTubeInv, YouTubeTypeOK
  <2>4. QED
    BY <2>1, <2>2, <2>3
<1>4. QED
  BY <1>1, <1>2, <1>3 DEF AdapterInv

LEMMA LeaveStep ==
  ASSUME YouTubeInv, NEW r \in Run, Leave(r)
  PROVE  /\ adapter' \in [Run -> AdapterLocal] /\ AdapterInv(r)'
         /\ \A q \in Run \ {r} : adapter'[q] = adapter[q]
         /\ UNCHANGED <<sent, committed>>
<1>1. adapter' = [adapter EXCEPT ![r] = Fresh] /\ UNCHANGED <<sent, committed>>
  BY DEF Leave
<1>2. adapter'[r] = Fresh /\ adapter' \in [Run -> AdapterLocal]
  BY <1>1, FreshType DEF YouTubeInv, YouTubeTypeOK
<1>3. AdapterInv(r)'
  BY <1>2 DEF AdapterInv, Fresh
<1>4. QED
  BY <1>1, <1>2, <1>3 DEF YouTubeInv, YouTubeTypeOK

\* A step of publish that goes on: its locals, and what it may rely on next.
LEMMA GoingOn ==
  ASSUME YouTubeInv, NEW r \in Run, NEW l \in AdapterLocal, run[r].pc = "adapter",
         adapter' = [adapter EXCEPT ![r] = l], run'[r] = run[r], UNCHANGED <<upload, committed>>,
         l.at \in {"reconcile", "send", "await", "requery", "confirm"} => run[r].token # NoToken,
         l.at \in {"start", "reconcile"} => l.attemptsAtOffset = 0,
         l.at \in {"initiate", "expired"} => Held(run[r]) \in {"none", "dead"},
         l.at \in {"send", "await"} => l.offset <= committed[run[r].p][run[r].token],
         l.at = "send" => l.offset < Chunks,
         l.at \in {"send", "requery"} => l.attemptsAtOffset < MaxAttempts
  PROVE  adapter' \in [Run -> AdapterLocal] /\ AdapterInv(r)'
<1>1. adapter' \in [Run -> AdapterLocal] /\ adapter'[r] = l
  BY DEF YouTubeInv, YouTubeTypeOK
<1>2. Held(run[r])' = Held(run[r])
  BY DEF Held
<1>3. QED
  BY <1>1, <1>2 DEF AdapterInv

LEMMA LoopStep ==
  ASSUME YouTubeInv, NEW r \in Run,
         \/ GetAccessToken(r) \/ ReconcileOffset(r) \/ ReconcileExpired(r)
         \/ ChunkTaken(r) \/ ChunkTransient(r) \/ RequeryOffset(r) \/ Restart(r)
  PROVE  adapter' \in [Run -> AdapterLocal] /\ AdapterInv(r)'
<1> DEFINE l == adapter[r]  t == run[r].token
<1>1. /\ l \in AdapterLocal /\ AdapterInv(r) /\ run[r].pc = "adapter"
      /\ run'[r] = run[r] /\ UNCHANGED <<upload, committed>>
  BY DEF YouTubeInv, YouTubeTypeOK, GetAccessToken, ReconcileOffset, ReconcileExpired, ChunkTaken,
         ChunkTransient, RequeryOffset, Restart, IsAt, Stay, Enter, vars
<1>2. l.attemptsAtOffset \in Nat /\ MaxAttempts \in Nat \ {0}
  BY <1>1, YouTubeAssumption DEF YouTubeAssumption, AdapterLocal
\* What is reported is stored: the upload loop goes on behind it.
<1>3. ASSUME NEW m \in AdapterLocal, NEW k \in Reported(r), adapter' = [adapter EXCEPT ![r] = Resume(m, k)],
             k > m.furthestOffset \/ m.attemptsAtOffset < MaxAttempts
      PROVE  adapter' \in [Run -> AdapterLocal] /\ AdapterInv(r)'
  <2>1. /\ t # NoToken /\ run[r].p \in Provider /\ t \in Token
        /\ k \in 0 .. committed[run[r].p][t]
    BY <1>3, LocalType DEF Reported, Held, YouTubeInv, YouTubeTypeOK
  <2>2. k \in 0..Chunks /\ k <= committed[run[r].p][t]
    BY <2>1, YouTubeAssumption DEF YouTubeAssumption, YouTubeInv, YouTubeTypeOK
  <2>3. /\ Resume(m, k) \in AdapterLocal /\ Resume(m, k).offset = k
        /\ Resume(m, k).at = IF k < Chunks THEN "send" ELSE "confirm"
        /\ Resume(m, k).attemptsAtOffset < MaxAttempts
    BY <1>2, <1>3, <2>2, ResumeType
  <2>4. QED
    BY <1>1, <1>3, <2>1, <2>2, <2>3, GoingOn
<1>4. ASSUME NEW at \in {"initiate", "reconcile", "requery"}, adapter' = [adapter EXCEPT ![r].at = at],
             at = "reconcile" => t # NoToken /\ l.attemptsAtOffset = 0,
             at = "initiate" => Held(run[r]) \in {"none", "dead"},
             at = "requery" => t # NoToken /\ l.attemptsAtOffset < MaxAttempts
      PROVE  adapter' \in [Run -> AdapterLocal] /\ AdapterInv(r)'
  <2> DEFINE m == [l EXCEPT !.at = at]
  <2>1. m \in AdapterLocal /\ m.at = at /\ m.attemptsAtOffset = l.attemptsAtOffset
    BY <1>1, AtUpdate DEF At, AdapterLocal
  <2>2. adapter' = [adapter EXCEPT ![r] = m]
    BY <1>4
  <2> HIDE DEF m
  <2>3. QED
    BY <1>1, <1>4, <2>1, <2>2, GoingOn
<1>5. CASE GetAccessToken(r)
  <2>1. l.at = "start" /\ l.attemptsAtOffset = 0 /\ (t = NoToken => Held(run[r]) = "none")
    BY <1>1, <1>5 DEF GetAccessToken, IsAt, AdapterInv, Held
  <2>2. QED
    BY <1>4, <1>5, <2>1 DEF GetAccessToken
<1>6. CASE ReconcileOffset(r)
  <2>1. PICK k \in Reported(r) : adapter' = [adapter EXCEPT ![r] = Resume([l EXCEPT !.furthestOffset = k], k)]
    BY <1>6 DEF ReconcileOffset
  <2> DEFINE m == [l EXCEPT !.furthestOffset = k]
  <2>2. k \in 0..Chunks
    BY LocalType, YouTubeAssumption DEF YouTubeAssumption, Reported, Held, YouTubeInv, YouTubeTypeOK
  <2>3. m \in AdapterLocal
    BY <1>1, <2>2, CounterUpdates
  <2>4. m.attemptsAtOffset < MaxAttempts
    BY <1>1, <1>2, <1>6 DEF ReconcileOffset, IsAt, AdapterInv, AdapterLocal
  <2>5. adapter' = [adapter EXCEPT ![r] = Resume(m, k)]
    BY <2>1
  <2> HIDE DEF m
  <2>6. QED
    BY <1>3, <2>3, <2>4, <2>5
<1>7. CASE ReconcileExpired(r)
  BY <1>4, <1>7 DEF ReconcileExpired
<1>8. CASE ChunkTaken(r)
  BY <1>1, <1>3, <1>8 DEF ChunkTaken
<1>9. CASE ChunkTransient(r)
  BY <1>1, <1>4, <1>9 DEF ChunkTransient, IsAt, AdapterInv
<1>10. CASE RequeryOffset(r)
  BY <1>1, <1>3, <1>10 DEF RequeryOffset, IsAt, AdapterInv
<1>11. CASE Restart(r)
  <2> DEFINE m == [Step(l, "initiate") EXCEPT !.restarts = @ + 1]
  <2>1. l.restarts < MaxRestarts /\ l.at = "expired" /\ adapter' = [adapter EXCEPT ![r] = m]
    BY <1>11 DEF Restart, IsAt, Enter
  <2>2. m \in AdapterLocal /\ m.at = "initiate"
    BY <1>1, <2>1, RestartLocal DEF Step, AdapterLocal
  <2>3. Held(run[r]) \in {"none", "dead"}
    BY <1>1, <2>1 DEF AdapterInv
  <2> HIDE DEF m
  <2>4. QED
    BY <1>1, <2>1, <2>2, <2>3, GoingOn
<1>12. QED
  BY <1>5, <1>6, <1>7, <1>8, <1>9, <1>10, <1>11

LEMMA SendStep ==
  ASSUME YouTubeInv, NEW r \in Run, SendChunk(r)
  PROVE  /\ adapter' \in [Run -> AdapterLocal] /\ AdapterInv(r)'
         /\ sent' \in [Provider -> [Token -> 0..Chunks]]
<1> DEFINE l == adapter[r]  p == run[r].p  t == run[r].token
           m == [l EXCEPT !.at = "await", !.attemptsAtOffset = l.attemptsAtOffset + 1]
<1>1. /\ l \in AdapterLocal /\ l.at = "send" /\ run[r].pc = "adapter" /\ run'[r] = run[r]
      /\ UNCHANGED <<upload, committed>>
  BY DEF YouTubeInv, YouTubeTypeOK, SendChunk, IsAt, vars
<1>a. adapter' = [adapter EXCEPT ![r] = m]
  BY DEF SendChunk
<1>s. sent' = [sent EXCEPT ![p][t] = IF @ > l.offset THEN @ ELSE l.offset + 1]
  BY DEF SendChunk
<1>2. /\ t # NoToken /\ l.offset <= committed[p][t] /\ l.offset < Chunks
      /\ l.attemptsAtOffset < MaxAttempts /\ p \in Provider /\ t \in Token
  BY <1>1, LocalType DEF YouTubeInv, AdapterInv, YouTubeTypeOK
<1>3. m.at = "await" /\ m.offset = l.offset
  BY <1>1 DEF AdapterLocal
<1>4. m \in AdapterLocal
  BY <1>1, <1>2, SentLocal
<1>5. l.offset + 1 \in 0..Chunks
  BY <1>1, <1>2, YouTubeAssumption DEF YouTubeAssumption, AdapterLocal
<1>6. sent' \in [Provider -> [Token -> 0..Chunks]]
  BY <1>s, <1>2, <1>5 DEF YouTubeInv, YouTubeTypeOK
<1> HIDE DEF m
<1>7. QED
  BY <1>1, <1>a, <1>2, <1>3, <1>4, <1>6, GoingOn

\* A session opened or dropped: the new token is the one publish goes on with.
LEMMA SessionStep ==
  ASSUME YouTubeInv, NEW r \in Run, InitiateSession(r) \/ RequeryExpired(r)
  PROVE  adapter' \in [Run -> AdapterLocal] /\ AdapterInv(r)' /\ UNCHANGED <<sent, committed>>
<1> DEFINE l == adapter[r]
<1>1. l \in AdapterLocal /\ run[r] \in Local /\ run[r].pc = "adapter" /\ run[r].p \in Provider
  BY LocalType DEF YouTubeInv, YouTubeTypeOK, TypeOK, InitiateSession, RequeryExpired, IsAt
<1>2. CASE InitiateSession(r)
  <2> DEFINE m == [Fresh EXCEPT !.at = "send", !.restarts = l.restarts]
  <2>1. adapter' = [adapter EXCEPT ![r] = m] /\ UNCHANGED <<sent, committed>>
    BY <1>2 DEF InitiateSession, Enter
  <2>2. PICK t \in Token : run' = [run EXCEPT ![r].token = t]
    BY <1>2 DEF InitiateSession, OpenSession
  <2>3. run'[r].pc = "adapter" /\ run'[r].token = t /\ run'[r].p = run[r].p /\ t # NoToken
    BY <1>1, <2>2 DEF YouTubeInv, YouTubeTypeOK, TypeOK, Local, Token, NoToken
  <2>4. m \in AdapterLocal
    BY <1>1, SessionLocal
  <2>5. m.at = "send" /\ m.offset = 0 /\ m.attemptsAtOffset = 0
    BY DEF Fresh
  <2>6. committed[run[r].p][t] \in Nat /\ 0 < Chunks /\ 0 < MaxAttempts
    BY <1>1, YouTubeAssumption DEF YouTubeAssumption, YouTubeInv, YouTubeTypeOK
  <2> HIDE DEF m
  <2>7. adapter' \in [Run -> AdapterLocal] /\ adapter'[r] = m
    BY <2>1, <2>4 DEF YouTubeInv, YouTubeTypeOK
  <2>8. QED
    BY <2>1, <2>3, <2>5, <2>6, <2>7 DEF AdapterInv
<1>3. CASE RequeryExpired(r)
  <2>1. adapter' = [adapter EXCEPT ![r] = Step(l, "expired")] /\ UNCHANGED <<sent, committed>>
    BY <1>3 DEF RequeryExpired, Enter
  <2>2. run' = [run EXCEPT ![r].token = NoToken]
    BY <1>3 DEF RequeryExpired, DropSession
  <2>3. run'[r].pc = "adapter" /\ Held(run[r])' = "none"
    BY <1>1, <2>2 DEF YouTubeInv, YouTubeTypeOK, TypeOK, Local, Held
  <2>4. Step(l, "expired") \in AdapterLocal /\ Step(l, "expired").at = "expired"
    <3>1. Step(l, "expired") \in AdapterLocal
      BY <1>1, AtUpdate DEF At
    <3>2. QED
      BY <1>1, <3>1 DEF Step, AdapterLocal
  <2>5. adapter' \in [Run -> AdapterLocal] /\ adapter'[r] = Step(l, "expired")
    BY <2>1, <2>4 DEF YouTubeInv, YouTubeTypeOK
  <2>6. QED
    BY <2>1, <2>3, <2>4, <2>5 DEF AdapterInv
<1>4. QED
  BY <1>2, <1>3

LEMMA PublishKeeps ==
  ASSUME YouTubeInv, NEW r \in Run, Publish(r)
  PROVE  /\ adapter' \in [Run -> AdapterLocal] /\ AdapterInv(r)'
         /\ sent' \in [Provider -> [Token -> 0..Chunks]] /\ UNCHANGED committed
         /\ \A q \in Run \ {r} : adapter'[q] = adapter[q]
<1>1. \A q \in Run \ {r} : adapter'[q] = adapter[q]
  <2>1. \E l : adapter' = [adapter EXCEPT ![r] = l]
    BY DEF Publish, GetAccessToken, AccessRefused, ReconcileOffset, ReconcileExpired, InitiateSession,
           InitiateRejected, SendChunk, ChunkTaken, ChunkTransient, ChunkRejected, RequeryOffset,
           RequeryExpired, Restart, RestartsExhausted, Completed, Undetermined, Enter, Leave
  <2>2. QED
    BY <2>1 DEF YouTubeInv, YouTubeTypeOK
<1>2. CASE Leave(r)
  BY <1>1, <1>2, LeaveStep DEF YouTubeInv, YouTubeTypeOK
<1>3. CASE \/ GetAccessToken(r) \/ ReconcileOffset(r) \/ ReconcileExpired(r)
           \/ ChunkTaken(r) \/ ChunkTransient(r) \/ RequeryOffset(r) \/ Restart(r)
  <2>1. UNCHANGED <<sent, committed>>
    BY <1>3 DEF GetAccessToken, ReconcileOffset, ReconcileExpired, ChunkTaken, ChunkTransient,
                RequeryOffset, Restart, Stay, Enter
  <2>2. QED
    BY <1>1, <1>3, <2>1, LoopStep DEF YouTubeInv, YouTubeTypeOK
<1>4. CASE SendChunk(r)
  BY <1>1, <1>4, SendStep DEF SendChunk
<1>5. CASE InitiateSession(r) \/ RequeryExpired(r)
  BY <1>1, <1>5, SessionStep DEF YouTubeInv, YouTubeTypeOK
<1>6. QED
  BY <1>2, <1>3, <1>4, <1>5
     DEF Publish, AccessRefused, InitiateRejected, ChunkRejected, RestartsExhausted, Completed, Undetermined

\* The provider stores more of what was sent, and forgets none of it.
LEMMA CommitStep ==
  ASSUME YouTubeInv, NEW p \in Provider, NEW t \in Token, Commit(p, t)
  PROVE  /\ committed' \in [Provider -> [Token -> 0..Chunks]]
         /\ \A b \in Provider, u \in Token : committed[b][u] <= committed'[b][u]
<1>1. committed' = [committed EXCEPT ![p][t] = committed[p][t] + 1] /\ committed[p][t] < sent[p][t]
  BY DEF Commit
<1>2. /\ \A b \in Provider, u \in Token : committed[b][u] \in 0..Chunks /\ sent[b][u] \in 0..Chunks
      /\ Chunks \in Nat
  BY YouTubeAssumption DEF YouTubeAssumption, YouTubeInv, YouTubeTypeOK
<1>3. committed[p][t] + 1 \in 0..Chunks
  BY <1>1, <1>2
<1>4. \A b \in Provider, u \in Token :
        committed'[b][u] = IF b = p /\ u = t THEN committed[p][t] + 1 ELSE committed[b][u]
  BY <1>1 DEF YouTubeInv, YouTubeTypeOK
<1>5. committed' \in [Provider -> [Token -> 0..Chunks]]
  BY <1>1, <1>3 DEF YouTubeInv, YouTubeTypeOK
<1>6. QED
  BY <1>2, <1>4, <1>5

LEMMA YouTubeInvStep ==
  ASSUME YouTubeInv, YouTubeNext
  PROVE  YouTubeInv'
<1>1. TypeOK' /\ SessionsExist'
  BY SessionsStep
<1>2. \A p \in Provider, t \in Token : upload[p][t] = "dead" => upload'[p][t] = "dead"
  <2>1. ASSUME NEW r \in Run, AccessRefused(r) PROVE UNCHANGED upload
    BY <2>1 DEF AccessRefused
  <2>2. QED
    BY <2>1, YouTubeStep, UploadsAge DEF YouTubeInv, YouTubeTypeOK, vars
<1>3. \A p \in Provider, t \in Token : committed[p][t] \in Nat
  BY YouTubeAssumption DEF YouTubeAssumption, YouTubeInv, YouTubeTypeOK
<1>4. ASSUME NEW r \in Run, Publish(r) \/ (Pipeline(r) /\ Leave(r)) PROVE YouTubeInv'
  <2>1. /\ adapter' \in [Run -> AdapterLocal] /\ AdapterInv(r)'
        /\ sent' \in [Provider -> [Token -> 0..Chunks]] /\ UNCHANGED committed
        /\ \A q \in Run \ {r} : adapter'[q] = adapter[q]
    BY <1>4, PublishKeeps, LeaveStep DEF YouTubeInv, YouTubeTypeOK
  <2>2. \A q \in Run \ {r} : run'[q] = run[q]
    <3>1. CASE Invocation(r)
      BY <3>1, OthersStay DEF YouTubeInv, YouTubeTypeOK
    <3>2. CASE UNCHANGED vars
      BY <3>2 DEF vars
    <3>3. CASE AccessRefused(r)
      BY <3>3 DEF AccessRefused, Answer, YouTubeInv, YouTubeTypeOK, TypeOK
    <3>4. QED
      BY <1>4, <3>1, <3>2, <3>3, PublishStep DEF Invocation
  <2>3. committed' \in [Provider -> [Token -> 0..Chunks]]
    BY <2>1 DEF YouTubeInv, YouTubeTypeOK
  <2>4. \A q \in Run \ {r} : AdapterInv(q)'
    BY <1>2, <1>3, <2>1, <2>2, <2>3, AdapterStays
  <2>5. QED
    BY <1>1, <2>1, <2>3, <2>4 DEF YouTubeInv, YouTubeTypeOK
<1>5. CASE /\ UNCHANGED <<run, adapter, sent>>
           /\ UNCHANGED committed \/ \E p \in Provider, t \in Token : Commit(p, t)
  <2>1. /\ committed' \in [Provider -> [Token -> 0..Chunks]]
        /\ \A p \in Provider, t \in Token : committed[p][t] <= committed'[p][t]
    <3>1. CASE UNCHANGED committed
      BY <1>3, <3>1 DEF YouTubeInv, YouTubeTypeOK
    <3>2. CASE \E p \in Provider, t \in Token : Commit(p, t)
      BY <3>2, CommitStep
    <3>3. QED
      BY <1>5, <3>1, <3>2
  <2>2. \A q \in Run : AdapterInv(q)'
    BY <1>2, <1>5, <2>1, AdapterStays
  <2>3. QED
    BY <1>1, <1>5, <2>1, <2>2 DEF YouTubeInv, YouTubeTypeOK
<1>6. QED
  BY <1>4, <1>5
     DEF YouTubeNext, Commit, Finish, Drop, Complete, Expire, Owner, SetGrant, Reactivate, GateChanges,
         FinalCompliance, vars

LEMMA YouTubeInvariant == YouTubeSpec => []YouTubeInv
<1>1. ASSUME YouTubeInv, UNCHANGED youTubeVars PROVE YouTubeInv'
  BY <1>1 DEF youTubeVars, vars, YouTubeInv, YouTubeTypeOK, TypeOK, SessionsExist, AdapterInv, Held
<1>2. YouTubeInv /\ [YouTubeNext]_youTubeVars => YouTubeInv'
  BY <1>1, YouTubeInvStep
<1>3. QED
  BY <1>2, YouTubeInvInit, PTL DEF YouTubeSpec

-----------------------------------------------------------------------------
\* Every reachable state of an upload is well typed; in particular no request
\* is repeated beyond RESUMABLE_MAX_ATTEMPTS without progress.
THEOREM YouTubeTypeCorrect == YouTubeSpec => []YouTubeTypeOK
<1>1. YouTubeInv => YouTubeTypeOK
  BY DEF YouTubeInv
<1>2. QED
  BY <1>1, YouTubeInvariant, PTL

\* No gap is ever left in the file, whoever else works on the same upload.
THEOREM NoGapInTheFile == YouTubeSpec => []OffsetIsCommitted
<1>1. YouTubeInv => OffsetIsCommitted
  BY DEF YouTubeInv, AdapterInv, OffsetIsCommitted
<1>2. QED
  BY <1>1, YouTubeInvariant, PTL

\* YouTubeAdapter.publish keeps the contract of PublicationProvider.js, as long
\* as a saved session is resumed with a token at hand.
THEOREM AdapterKeepsTheContract == ASSUME ~ResumeRefused PROVE YouTubeSpec => ImplementsPublication
<1>1. YouTubeInv /\ [YouTubeNext]_youTubeVars => [Next]_vars
  <2>1. ASSUME YouTubeInv, YouTubeNext PROVE [Next]_vars
    BY <2>1, YouTubeStep DEF Next
  <2>2. UNCHANGED youTubeVars => UNCHANGED vars
    BY DEF youTubeVars
  <2>3. QED
    BY <2>1, <2>2
<1>2. YouTubeInit => Init
  BY DEF YouTubeInit
<1>3. QED
  BY <1>1, <1>2, YouTubeInvariant, PTL DEF YouTubeSpec, Spec, ImplementsPublication

\* Under the guard the process may die at any byte of an upload: the row of
\* the attempt names the session that holds it.
THEOREM NoUploadIsForgotten ==
  ASSUME ~ResumeRefused, Exclusive PROVE YouTubeSpec => []UploadsAreRecoverable
<1>1. ASSUME YouTubeInv, Inv PROVE UploadsAreRecoverable
  <2>1. ASSUME NEW p \in Provider, NEW t \in Token, row[p].status = "PENDING", upload[p][t] \in {"open", "done"}
        PROVE  row[p].session = t
    <3>1. t \in Live(p) /\ p \in Resumable
      BY <2>1, YouTubeAssumption DEF YouTubeAssumption, Live
    <3>2. QED
      BY <1>1, <2>1, <3>1 DEF Inv, UploadInv
  <2>2. QED
    BY <2>1 DEF UploadsAreRecoverable
<1>2. QED
  BY <1>1, YouTubeInvariant, AdapterKeepsTheContract, InvInvariant, PTL DEF ImplementsPublication

\* What Publication guarantees of an adapter that keeps the contract, YouTube's
\* adapter delivers chunk by chunk: one item per content version at most, an
\* account of every attempt, and a final word that is true.
THEOREM YouTubeAttemptsArePaidFor ==
  ASSUME ~ResumeRefused, Exclusive PROVE YouTubeSpec => []AttemptsAreAccounted
  BY AdapterKeepsTheContract, EveryAttemptIsPaidFor, PTL DEF ImplementsPublication

THEOREM YouTubeDeliversOnce ==
  ASSUME ~ResumeRefused, Exclusive PROVE YouTubeSpec => []AtMostOneItem /\ DeliversOnce
  BY AdapterKeepsTheContract, PublishedAtMostOnce, PublicationDeliversOnce, PTL DEF ImplementsPublication

=============================================================================
