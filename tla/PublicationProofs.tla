------------------------- MODULE PublicationProofs -------------------------
(***************************************************************************)
(* Proofs about Publication, for any set of providers, any retry cap and   *)
(* any number of attempts, crashes and Owner reactivations.                *)
(***************************************************************************)
EXTENDS Publication, TLAPS

-----------------------------------------------------------------------------
LEMMA IdleType == Idle \in Local
  BY PublicationAssumption DEF PublicationAssumption, Idle, Local, Pc, Result

\* What the updates of a row and of a retry record return.
LEMMA RowTypes ==
  ASSUME NEW w \in Row
  PROVE  /\ Claimed(w) \in Row
         /\ \A reason \in FailureReason : Failed(w, reason) \in Row
         /\ Published(w) \in Row
         /\ w.session \in Token \cup {NoToken}
<1>1. Claimed(w) \in Row
  BY DEF Claimed, Row, RowStatus
<1>2. \A reason \in FailureReason : Failed(w, reason) \in Row
  BY DEF Failed, Row, RowStatus
<1>3. Published(w) \in Row
  BY DEF Published, Row, RowStatus
<1>4. w.session \in Token \cup {NoToken}
  BY DEF Row
<1>5. QED
  BY <1>1, <1>2, <1>3, <1>4

LEMMA LocalUpdates ==
  ASSUME NEW l \in Local
  PROVE  /\ \A t \in Token \cup {NoToken} : [l EXCEPT !.pc = "adapter", !.token = t] \in Local
         /\ \A result \in Result : [l EXCEPT !.pc = "settle", !.result = result] \in Local
  BY DEF Local, Pc

LEMMA RetryType ==
  ASSUME NEW k \in Retry
  PROVE  RecordFailedAttempt(k) \in Retry
  BY PublicationAssumption DEF PublicationAssumption, RecordFailedAttempt, Retry

LEMMA LocalType ==
  ASSUME TypeOK, NEW r \in Run
  PROVE  run[r].p \in Provider /\ run[r].token \in Token \cup {NoToken}
  BY DEF TypeOK, Local

LEMMA InitType == Init => TypeOK
<1> SUFFICES ASSUME Init PROVE TypeOK
  OBVIOUS
<1>1. state \in ContentState /\ gate \in BOOLEAN /\ grant \in [Provider -> Grant]
  BY DEF Init, ContentState, Grant
<1>2. row \in [Provider -> Row]
  BY DEF Init, Row, NoRow, RowStatus, FailureReason, ThumbnailStatus
<1>3. retry \in [Provider -> Retry]
  BY DEF Init, Retry
<1>4. run \in [Run -> Local]
  BY IdleType DEF Init
<1>5. upload \in [Provider -> [Token -> UploadStatus]]
  BY DEF Init, UploadStatus
<1>6. QED
  BY <1>1, <1>2, <1>3, <1>4, <1>5 DEF TypeOK

LEMMA InvocationType ==
  ASSUME TypeOK, NEW r \in Run, Invocation(r)
  PROVE  TypeOK'
<1> DEFINE p == run[r].p
<1>p. p \in Provider /\ row[p] \in Row /\ retry[p] \in Retry /\ run[r].token \in Token \cup {NoToken}
  BY LocalType DEF TypeOK
<1>r. Return(r) => run' \in [Run -> Local]
  BY IdleType DEF Return, TypeOK
<1>g. ASSUME NEW pc \in Pc, Goto(r, pc) PROVE run' \in [Run -> Local]
  BY <1>g DEF Goto, TypeOK, Local
<1>a. ASSUME NEW result \in Result, Answer(r, result) PROVE run' \in [Run -> Local]
  <2>1. [run[r] EXCEPT !.pc = "settle", !.result = result] \in Local
    BY LocalUpdates DEF TypeOK
  <2>2. QED
    BY <1>a, <2>1 DEF Answer, TypeOK
<1> HIDE DEF p
<1>1. CASE \E b \in Provider : BeginPublished(r, b) \/ BeginInterrupted(r, b) \/ BeginAttempt(r, b)
  <2>1. PICK b \in Provider, pc \in Pc, visibility \in {"default", "public"} : Begin(r, b, pc, visibility)
    BY <1>1 DEF BeginPublished, BeginInterrupted, BeginAttempt, Pc
  <2>2. [Idle EXCEPT !.pc = pc, !.p = b, !.visibility = visibility] \in Local
    BY IdleType DEF Local
  <2>3. QED
    BY <2>1, <2>2 DEF Begin, TypeOK
<1>2. CASE MarkInterrupted(r)
  BY <1>2, <1>p, <1>r DEF MarkInterrupted, TypeOK, Row, RowStatus, p
<1>3. CASE ClaimNew(r)
  BY <1>3, <1>p, <1>g, RowTypes DEF ClaimNew, TypeOK, Pc, p
<1>4. CASE ClaimFailed(r)
  BY <1>4, <1>p, <1>g, RowTypes DEF ClaimFailed, TypeOK, Pc, p
<1>5. CASE ClaimResume(r)
  <2>1. [run[r] EXCEPT !.pc = "adapter", !.token = row[p].session] \in Local
    BY <1>p, LocalUpdates, RowTypes DEF TypeOK, p
  <2>2. QED
    BY <1>5, <2>1 DEF ClaimResume, TypeOK, p
<1>6. CASE ClaimRaced(r) \/ ThumbnailSkip(r) \/ Crash(r)
  BY <1>6, <1>r DEF ClaimRaced, ThumbnailSkip, Crash, TypeOK
<1>7. CASE Open(r)
  <2>1. PICK t \in Token :
          /\ upload' = [upload EXCEPT ![p][t] = "open"]
          /\ run' = [run EXCEPT ![r].token = t]
          /\ row' = IF p \in Resumable THEN [row EXCEPT ![p].session = t] ELSE row
          /\ UNCHANGED <<state, gate, grant, retry>>
    BY <1>7 DEF Open, OpenSession, p
  <2>2. row' \in [Provider -> Row]
    BY <2>1, <1>p DEF TypeOK, Row
  <2>3. run' \in [Run -> Local]
    BY <2>1 DEF TypeOK, Local
  <2>4. upload' \in [Provider -> [Token -> UploadStatus]]
    BY <2>1, <1>p DEF TypeOK, UploadStatus
  <2>5. QED
    BY <2>1, <2>2, <2>3, <2>4 DEF TypeOK
<1>8. CASE DropSession(r)
  <2>1. row' \in [Provider -> Row]
    BY <1>8, <1>p DEF DropSession, TypeOK, Row, p
  <2>2. run' \in [Run -> Local]
    BY <1>8 DEF DropSession, TypeOK, Local
  <2>3. QED
    BY <1>8, <2>1, <2>2 DEF DropSession, TypeOK
<1>9. CASE AnswerSuccess(r) \/ AnswerAmbiguous(r)
  BY <1>9, <1>a DEF AnswerSuccess, AnswerAmbiguous, Result, TypeOK
<1>10. CASE AnswerFailure(r)
  <2>1. upload' \in [Provider -> [Token -> UploadStatus]]
    BY <1>10, <1>p DEF AnswerFailure, Held, TypeOK, UploadStatus, p
  <2>2. QED
    BY <1>10, <1>a, <2>1 DEF AnswerFailure, Result, TypeOK
<1>11. CASE SettleFailure(r)
  BY <1>11, <1>p, <1>r, RowTypes, RetryType DEF SettleFailure, TypeOK, FailureReason, p
<1>12. CASE SettleMismatch(r)
  BY <1>12, <1>p, <1>r, RowTypes DEF SettleMismatch, TypeOK, FailureReason, p
<1>13. CASE SettleAmbiguous(r)
  BY <1>13, <1>p, <1>r DEF SettleAmbiguous, TypeOK, Row, RowStatus, p
<1>14. CASE SettlePublished(r)
  BY <1>14, <1>p, <1>g, RowTypes DEF SettlePublished, TypeOK, ContentState, Pc, p
<1>15. CASE ThumbnailStart(r)
  <2>1. row' \in [Provider -> Row]
    BY <1>15, <1>p DEF ThumbnailStart, TypeOK, Row, ThumbnailStatus, p
  <2>2. QED
    BY <1>15, <1>g, <2>1 DEF ThumbnailStart, TypeOK, Pc
<1>16. CASE ThumbnailEnd(r)
  <2>1. PICK s \in ThumbnailStatus : row' = [row EXCEPT ![p].thumbnail = s]
    BY <1>16 DEF ThumbnailEnd, ThumbnailStatus, p
  <2>2. row' \in [Provider -> Row]
    BY <2>1, <1>p DEF TypeOK, Row
  <2>3. QED
    BY <1>16, <1>r, <2>2 DEF ThumbnailEnd, TypeOK
<1> QED
  BY Invocation(r), <1>1, <1>2, <1>3, <1>4, <1>5, <1>6, <1>7, <1>8, <1>9, <1>10, <1>11, <1>12, <1>13, <1>14, <1>15, <1>16 DEF Invocation, Pipeline, Adapter

LEMMA WorldType == TypeOK /\ World => TypeOK'
<1> SUFFICES ASSUME TypeOK, World PROVE TypeOK'
  OBVIOUS
<1> USE DEF TypeOK
<1>1. CASE \E p \in Provider, t \in Token : Complete(p, t) \/ Expire(p, t)
  <2>1. PICK p \in Provider, t \in Token : Complete(p, t) \/ Expire(p, t)
    BY <1>1
  <2>2. /\ \E s \in UploadStatus : upload' = [upload EXCEPT ![p][t] = s]
        /\ UNCHANGED <<state, gate, grant, row, retry, run>>
    BY <2>1 DEF Complete, Expire, UploadStatus
  <2>3. upload' \in [Provider -> [Token -> UploadStatus]]
    BY <2>2
  <2>4. QED
    BY <2>2, <2>3
<1>2. CASE \E p \in Provider, g \in Grant : SetGrant(p, g)
  BY <1>2 DEF SetGrant
<1>3. CASE \E p \in Provider : Reactivate(p)
  BY <1>3 DEF Reactivate, Retry
<1>4. CASE FinalCompliance
  BY <1>4 DEF FinalCompliance, ContentState
<1>5. CASE GateChanges
  BY <1>5 DEF GateChanges
<1>6. QED
  BY <1>1, <1>2, <1>3, <1>4, <1>5 DEF World, Owner

\* Every reachable state of runPublication is well typed.
THEOREM TypeCorrect == Spec => []TypeOK
<1>1. TypeOK /\ [Next]_vars => TypeOK'
  <2>1. TypeOK /\ UNCHANGED vars => TypeOK'
    BY DEF TypeOK, vars
  <2>2. QED
    BY <2>1, InvocationType, WorldType DEF Next
<1>2. QED
  BY <1>1, InitType, PTL DEF Spec

-----------------------------------------------------------------------------
(* The inductive invariant of an engine under the single-run guard.        *)

OneInvocation ==
  \A r, q \in Run : run[r].pc # "idle" /\ run[q].pc # "idle" => r = q

\* At most one upload is under way or complete; a row that may be claimed
\* afresh has none, and the row of an attempt that may be resumed names it.
UploadInv(p) ==
  /\ \A t, u \in Live(p) : t = u
  /\ row[p].status = "NONE" \/ IsReclaimable(row[p]) => Live(p) = {}
  /\ p \in Resumable /\ row[p].status = "PENDING" => Live(p) \subseteq {row[p].session}
  /\ p \notin Resumable => row[p].session = NoToken

\* The invocation that calls the provider holds the upload and the row.
HolderInv(r) ==
  LET p == run[r].p IN
  /\ run[r].pc = "claim" => run[r].token = NoToken
  /\ run[r].pc = "adapter" =>
       /\ row[p].status = "PENDING"
       /\ Live(p) \subseteq {run[r].token}
       /\ p \in Resumable => row[p].session = run[r].token
  /\ run[r].pc = "settle" =>
       /\ row[p].status = "PENDING"
       /\ run[r].result = "failure" => Live(p) = {}

Inv ==
  /\ OneInvocation
  /\ \A p \in Provider : UploadInv(p)
  /\ \A r \in Run : HolderInv(r)

LEMMA InvInit == Init => Inv
  BY DEF Init, Inv, OneInvocation, UploadInv, HolderInv, Idle, NoRow, NoToken, Live,
         IsReclaimable, IsResumable

\* A step of r moves no other invocation, and under the guard finds them idle.
LEMMA OthersStay ==
  ASSUME TypeOK, NEW r \in Run, Invocation(r)
  PROVE  \A q \in Run \ {r} : run'[q] = run[q]
BY DEF TypeOK, Invocation, Pipeline, Adapter, BeginPublished, BeginInterrupted, BeginAttempt, Begin,
       MarkInterrupted, ClaimNew, ClaimFailed, ClaimResume, ClaimRaced, Open, OpenSession, DropSession,
       AnswerSuccess, AnswerFailure, AnswerAmbiguous, SettleFailure, SettleAmbiguous,
       SettleMismatch, SettlePublished, ThumbnailStart, ThumbnailSkip, ThumbnailEnd, Crash,
       Goto, Return, Answer

LEMMA OthersIdle ==
  ASSUME Exclusive, TypeOK, OneInvocation, NEW r \in Run, Invocation(r)
  PROVE  /\ OneInvocation'
         /\ \A q \in Run \ {r} : run[q].pc = "idle" /\ run'[q] = run[q]
<1>1. \A q \in Run \ {r} : run[q].pc = "idle"
  BY DEF OneInvocation, Invocation, Pipeline, Adapter, BeginPublished, BeginInterrupted, BeginAttempt, Begin,
         MarkInterrupted, ClaimNew, ClaimFailed, ClaimResume, ClaimRaced, Open, OpenSession, DropSession,
         AnswerSuccess, AnswerFailure, AnswerAmbiguous, SettleFailure, SettleAmbiguous,
         SettleMismatch, SettlePublished, ThumbnailStart, ThumbnailSkip, ThumbnailEnd, Crash
<1>2. QED
  BY <1>1, OthersStay DEF OneInvocation

LEMMA OthersUntouched ==
  ASSUME TypeOK, NEW r \in Run, Invocation(r)
  PROVE  \A b \in Provider \ {run[r].p} : row'[b] = row[b] /\ upload'[b] = upload[b]
<1> DEFINE p == run[r].p
           Untouched == \A b \in Provider \ {p} : row'[b] = row[b] /\ upload'[b] = upload[b]
<1>p. p \in Provider
  BY LocalType
<1> HIDE DEF p
<1>1. CASE \E b \in Provider : BeginPublished(r, b) \/ BeginInterrupted(r, b) \/ BeginAttempt(r, b)
  BY <1>1 DEF BeginPublished, BeginInterrupted, BeginAttempt, Begin
<1>2. CASE \/ MarkInterrupted(r) \/ ClaimNew(r) \/ ClaimFailed(r) \/ ClaimResume(r)
           \/ ClaimRaced(r) \/ Crash(r)
  BY <1>2, <1>p DEF MarkInterrupted, ClaimNew, ClaimFailed, ClaimResume, ClaimRaced, Crash, TypeOK, p
<1>3. CASE Open(r) \/ DropSession(r)
  BY <1>3, <1>p DEF Open, OpenSession, DropSession, TypeOK, p
<1>4. CASE AnswerSuccess(r) \/ AnswerFailure(r) \/ AnswerAmbiguous(r)
  BY <1>4, <1>p DEF AnswerSuccess, AnswerFailure, AnswerAmbiguous, TypeOK, p
<1>5. CASE SettleFailure(r) \/ SettleAmbiguous(r) \/ SettleMismatch(r) \/ SettlePublished(r)
  BY <1>5, <1>p DEF SettleFailure, SettleAmbiguous, SettleMismatch, SettlePublished, TypeOK, p
<1>6. CASE ThumbnailStart(r) \/ ThumbnailSkip(r) \/ ThumbnailEnd(r)
  BY <1>6, <1>p DEF ThumbnailStart, ThumbnailSkip, ThumbnailEnd, TypeOK, p
<1>7. QED
  BY Invocation(r), <1>1, <1>2, <1>3, <1>4, <1>5, <1>6 DEF Invocation, Pipeline, Adapter, p

\* Each step of the invocation keeps the upload and the row it holds in order.
LEMMA HolderStep ==
  ASSUME TypeOK, Inv, NEW r \in Run, Invocation(r), NEW p \in Provider, p = run[r].p
  PROVE  UploadInv(p)' /\ HolderInv(r)'
<1>p. p = run[r].p /\ row[p] \in Row /\ run[r].token \in Token \cup {NoToken}
  BY LocalType DEF TypeOK
<1>i. UploadInv(p) /\ HolderInv(r)
  BY <1>p DEF Inv
<1>r. ASSUME Return(r) PROVE HolderInv(r)'
  BY <1>r DEF Return, TypeOK, HolderInv, Idle
<1>1. CASE \E b \in Provider : BeginPublished(r, b) \/ BeginInterrupted(r, b) \/ BeginAttempt(r, b)
  <2>1. PICK b \in Provider, pc \in {"thumbnail", "interrupt", "claim"},
             visibility \in {"default", "public"} : Begin(r, b, pc, visibility)
    BY <1>1 DEF BeginPublished, BeginInterrupted, BeginAttempt
  <2>2. run'[r].pc \in {"thumbnail", "interrupt", "claim"} /\ run'[r].token = NoToken
    BY <2>1, IdleType DEF Begin, TypeOK, Local, Idle
  <2>3. UNCHANGED <<row, upload>>
    BY <2>1 DEF Begin
  <2>4. QED
    BY <1>p, <1>i, <2>2, <2>3 DEF UploadInv, HolderInv, Live
<1>2. CASE MarkInterrupted(r)
  BY <1>2, <1>p, <1>i, <1>r DEF MarkInterrupted, TypeOK, Row, UploadInv, Live, IsReclaimable, IsResumable
<1>3. CASE ClaimNew(r) \/ ClaimFailed(r)
  <2>1. row' = [row EXCEPT ![p] = Claimed(@)] /\ Goto(r, "adapter") /\ UNCHANGED upload
    BY <1>3 DEF ClaimNew, ClaimFailed
  <2>2. Live(p) = {}
    BY <1>3, <1>p, <1>i DEF ClaimNew, ClaimFailed, UploadInv
  <2>3. row'[p].status = "PENDING" /\ row'[p].session = NoToken
    BY <2>1, <1>p DEF Claimed, TypeOK
  <2>4. run'[r].pc = "adapter" /\ run'[r].p = p /\ run'[r].token = run[r].token
    BY <2>1 DEF Goto, TypeOK, Local
  <2>5. run[r].token = NoToken
    BY <1>3, <1>p, <1>i DEF ClaimNew, ClaimFailed, HolderInv
  <2>6. QED
    BY <2>1, <2>2, <2>3, <2>4, <2>5, <1>p, <1>i DEF UploadInv, HolderInv, Live, IsReclaimable, IsResumable
<1>4. CASE ClaimResume(r)
  <2>1. /\ run'[r].pc = "adapter" /\ run'[r].p = p /\ run'[r].token = row[p].session
        /\ IsResumable(row[p]) /\ UNCHANGED <<row, upload>>
    BY <1>4 DEF ClaimResume, TypeOK, Local
  <2>2. QED
    BY <2>1, <1>p, <1>i DEF UploadInv, HolderInv, Live, IsResumable
<1>5. CASE ClaimRaced(r) \/ ThumbnailSkip(r) \/ Crash(r)
  <2>1. UNCHANGED <<row, upload>> /\ Return(r)
    BY <1>5 DEF ClaimRaced, ThumbnailSkip, Crash
  <2>2. QED
    BY <2>1, <1>p, <1>i, <1>r DEF UploadInv, Live
<1>6. CASE Open(r)
  <2>1. PICK t \in Token :
          /\ upload' = [upload EXCEPT ![p][t] = "open"]
          /\ run' = [run EXCEPT ![r].token = t]
          /\ row' = IF p \in Resumable THEN [row EXCEPT ![p].session = t] ELSE row
    BY <1>6 DEF Open, OpenSession
  <2>2. /\ run[r].pc = "adapter" /\ row[p].status = "PENDING" /\ Live(p) \subseteq {run[r].token}
        /\ p \notin Resumable => row[p].session = NoToken
    BY <1>6, <1>p, <1>i DEF Open, OpenSession, HolderInv, UploadInv
  <2>3. Live(p) = {}
    BY <1>6, <2>2 DEF Open, OpenSession, Held, Live, NoToken, Token
  <2>4. Live(p)' = {t}
    BY <2>1, <2>3, <1>p DEF Live, TypeOK
  <2>5. run'[r].pc = "adapter" /\ run'[r].p = p /\ run'[r].token = t
    BY <2>1, <2>2 DEF TypeOK, Local
  <2>6. /\ row'[p].status = "PENDING"
        /\ row'[p].session = IF p \in Resumable THEN t ELSE NoToken
    BY <2>1, <2>2, <1>p DEF TypeOK, Row
  <2>7. QED
    BY <2>4, <2>5, <2>6 DEF UploadInv, HolderInv, IsReclaimable, IsResumable
<1>7. CASE DropSession(r)
  <2>1. /\ run[r].pc = "adapter" /\ row[p].status = "PENDING" /\ Live(p) \subseteq {run[r].token}
    BY <1>7, <1>p, <1>i DEF DropSession, HolderInv
  <2>2. Live(p) = {} /\ UNCHANGED upload
    BY <1>7, <2>1 DEF DropSession, Held, Live, NoToken, Token
  <2>3. row'[p].status = "PENDING" /\ row'[p].session = NoToken
    BY <1>7, <2>1, <1>p DEF DropSession, TypeOK, Row
  <2>4. run'[r].pc = "adapter" /\ run'[r].p = p /\ run'[r].token = NoToken
    BY <1>7, <2>1 DEF DropSession, TypeOK, Local
  <2>5. QED
    BY <2>2, <2>3, <2>4 DEF UploadInv, HolderInv, Live, IsReclaimable, IsResumable
<1>8. CASE AnswerSuccess(r) \/ AnswerAmbiguous(r)
  <2>1. PICK result \in Result \ {"failure"} : Answer(r, result) /\ UNCHANGED <<row, upload>>
    BY <1>8 DEF AnswerSuccess, AnswerAmbiguous, Result
  <2>2. run'[r].pc = "settle" /\ run'[r].result # "failure" /\ run'[r].p = p
    BY <2>1 DEF Answer, TypeOK, Local
  <2>3. row[p].status = "PENDING"
    BY <1>8, <1>p, <1>i DEF AnswerSuccess, AnswerAmbiguous, HolderInv
  <2>4. QED
    BY <2>1, <2>2, <2>3, <1>p, <1>i DEF UploadInv, HolderInv, Live
<1>9. CASE AnswerFailure(r)
  <2>1. run[r].pc = "adapter" /\ row[p].status = "PENDING" /\ Live(p) \subseteq {run[r].token}
    BY <1>9, <1>p, <1>i DEF AnswerFailure, HolderInv
  <2>2. Live(p)' = {}
    <3> DEFINE t == run[r].token
    <3>1. CASE Held(run[r]) = "open"
      <4>1. t \in Token /\ upload' = [upload EXCEPT ![p][t] = "dead"]
        BY <1>9, <1>p, <3>1 DEF AnswerFailure, Held
      <4>2. QED
        BY <2>1, <4>1, <1>p DEF Live, TypeOK
    <3>2. CASE Held(run[r]) # "open"
      <4>1. Held(run[r]) \notin {"open", "done"} /\ UNCHANGED upload
        BY <1>9, <3>2 DEF AnswerFailure
      <4>2. t \notin Live(p)
        BY <4>1, <1>p DEF Held, Live, Token, NoToken
      <4>3. QED
        BY <2>1, <4>1, <4>2 DEF Live
    <3>3. QED
      BY <3>1, <3>2
  <2>3. run'[r].pc = "settle" /\ run'[r].p = p
    BY <1>9 DEF AnswerFailure, Answer, TypeOK, Local
  <2>4. UNCHANGED row
    BY <1>9 DEF AnswerFailure
  <2>5. QED
    BY <2>1, <2>2, <2>3, <2>4, <1>p, <1>i DEF UploadInv, HolderInv
<1>10. CASE SettleFailure(r)
  <2>1. Live(p) = {} /\ UNCHANGED upload
    BY <1>10, <1>p, <1>i DEF SettleFailure, HolderInv
  <2>2. row'[p].status = "FAILED" /\ row'[p].session = NoToken
    BY <1>10, <1>p DEF SettleFailure, Failed, TypeOK
  <2>3. Return(r)
    BY <1>10 DEF SettleFailure
  <2>4. QED
    BY <2>1, <2>2, <2>3, <1>r DEF UploadInv, Live, IsResumable
<1>11. CASE SettleAmbiguous(r)
  <2>1. row'[p].status = "AMBIGUOUS" /\ row'[p].session = row[p].session
    BY <1>11, <1>p DEF SettleAmbiguous, TypeOK, Row
  <2>2. Return(r) /\ UNCHANGED upload
    BY <1>11 DEF SettleAmbiguous
  <2>3. QED
    BY <2>1, <2>2, <1>p, <1>i, <1>r DEF UploadInv, Live, IsReclaimable, IsResumable
<1>12. CASE SettleMismatch(r)
  <2>1. IsVisibilityMismatch(row'[p]) /\ row'[p].session = NoToken
    BY <1>12, <1>p DEF SettleMismatch, Failed, IsVisibilityMismatch, TypeOK
  <2>2. Return(r) /\ UNCHANGED upload
    BY <1>12 DEF SettleMismatch
  <2>3. QED
    BY <2>1, <2>2, <1>p, <1>i, <1>r DEF UploadInv, Live, IsReclaimable, IsResumable, IsVisibilityMismatch
<1>13. CASE SettlePublished(r)
  <2>1. row'[p].status = "PUBLISHED" /\ row'[p].session = NoToken
    BY <1>13, <1>p DEF SettlePublished, Published, TypeOK, Row
  <2>2. run'[r].pc = "thumbnail" /\ UNCHANGED upload
    BY <1>13 DEF SettlePublished, Goto, TypeOK, Local
  <2>3. QED
    BY <2>1, <2>2, <1>p, <1>i DEF UploadInv, HolderInv, Live, IsReclaimable, IsResumable
<1>14. CASE ThumbnailStart(r) \/ ThumbnailEnd(r)
  <2>1. /\ row'[p].status = row[p].status /\ row'[p].session = row[p].session
        /\ row'[p].reason = row[p].reason
    BY <1>14, <1>p DEF ThumbnailStart, ThumbnailEnd, TypeOK, Row
  <2>2. run'[r].pc \in {"thumbnailing", "idle"} /\ UNCHANGED upload
    BY <1>14 DEF ThumbnailStart, ThumbnailEnd, Goto, Return, Idle, TypeOK, Local
  <2>3. QED
    BY <2>1, <2>2, <1>p, <1>i DEF UploadInv, HolderInv, Live, IsReclaimable, IsResumable
<1> QED
  BY Invocation(r), <1>1, <1>2, <1>3, <1>4, <1>5, <1>6, <1>7, <1>8, <1>9, <1>10, <1>11, <1>12, <1>13, <1>14 DEF Invocation, Pipeline, Adapter

LEMMA InvInvocation ==
  ASSUME Exclusive, TypeOK, Inv, NEW r \in Run, Invocation(r)
  PROVE  Inv'
<1>p. PICK p \in Provider : p = run[r].p
  BY LocalType
<1>1. OneInvocation' /\ \A q \in Run \ {r} : run[q].pc = "idle" /\ run'[q] = run[q]
  BY OthersIdle DEF Inv
<1>2. \A b \in Provider \ {p} : row'[b] = row[b] /\ upload'[b] = upload[b]
  BY <1>p, OthersUntouched
<1>3. UploadInv(p)' /\ HolderInv(r)'
  BY <1>p, HolderStep
<1>4. ASSUME NEW b \in Provider \ {p} PROVE UploadInv(b)'
  BY <1>2, <1>4 DEF Inv, UploadInv, Live
<1>5. ASSUME NEW q \in Run \ {r} PROVE HolderInv(q)'
  BY <1>1, <1>5 DEF HolderInv
<1>6. QED
  BY <1>1, <1>3, <1>4, <1>5 DEF Inv

\* The provider finishes or drops an upload; the Owner and Gate 2 touch none.
LEMMA InvWorld ==
  ASSUME TypeOK, Inv, World
  PROVE  Inv'
<1>1. UNCHANGED <<row, run>>
  BY DEF World, Owner, Complete, Expire, SetGrant, Reactivate, FinalCompliance, GateChanges
<1>2. ASSUME NEW p \in Provider PROVE Live(p)' \subseteq Live(p)
  <2>1. CASE UNCHANGED upload
    BY <2>1 DEF Live
  <2>2. CASE \E b \in Provider, t \in Token : Complete(b, t) \/ Expire(b, t)
    BY <2>2 DEF Complete, Expire, Live, TypeOK
  <2>3. QED
    BY <2>1, <2>2 DEF World, Owner, SetGrant, Reactivate, FinalCompliance, GateChanges
<1>3. ASSUME NEW p \in Provider PROVE UploadInv(p)'
  <2>1. UploadInv(p)
    BY DEF Inv
  <2>2. QED
    BY <2>1, <1>1, <1>2 DEF UploadInv
<1>4. ASSUME NEW r \in Run PROVE HolderInv(r)'
  <2>1. HolderInv(r) /\ run[r].p \in Provider
    BY LocalType DEF Inv
  <2>2. Live(run[r].p)' \subseteq Live(run[r].p)
    BY <1>1, <1>2, <2>1
  <2>3. QED
    BY <1>1, <2>1, <2>2 DEF HolderInv
<1>5. OneInvocation'
  BY <1>1 DEF Inv, OneInvocation
<1>6. QED
  BY <1>3, <1>4, <1>5 DEF Inv

LEMMA InvInvariant == ASSUME Exclusive PROVE Spec => []Inv
<1>1. TypeOK /\ Inv /\ [Next]_vars => Inv'
  <2>1. Inv /\ UNCHANGED vars => Inv'
    BY DEF Inv, OneInvocation, UploadInv, HolderInv, Live, vars
  <2>2. QED
    BY <2>1, InvInvocation, InvWorld DEF Next
<1>2. QED
  BY <1>1, InvInit, TypeCorrect, PTL DEF Spec

\* Under the single-run guard the provider never holds two items of one
\* content version, whatever dies, is lost, is retried or is reactivated.
THEOREM PublishedAtMostOnce == ASSUME Exclusive PROVE Spec => []AtMostOneItem
<1>1. Inv => AtMostOneItem
  BY DEF Inv, UploadInv, AtMostOneItem, Items, Live
<1>2. QED
  BY <1>1, InvInvariant, PTL

\* Under the guard a FAILED row is safe to claim again: nothing was sent for
\* it, and nothing that was sent is still on its way.
THEOREM FailedIsSafeToRetry == ASSUME Exclusive PROVE Spec => []ReclaimableMeansNothingSent
<1>1. Inv => ReclaimableMeansNothingSent
  BY DEF Inv, UploadInv, ReclaimableMeansNothingSent
<1>2. QED
  BY <1>1, InvInvariant, PTL

-----------------------------------------------------------------------------
(* What a step does to the row it is about: it leaves it, claims it, or    *)
(* settles the attempt under way.                                          *)

SameRow(w, v) == w.status = v.status /\ w.reason = v.reason /\ w.attempts = v.attempts

Leaves(r, p) ==
  SameRow(row'[p], row[p]) /\ UNCHANGED <<retry, state>>

Claims(r, p) ==
  /\ run[r].pc = "claim"
  /\ row[p].status = "NONE" \/ IsReclaimable(row[p])
  /\ row'[p].status = "PENDING" /\ row'[p].attempts = row[p].attempts + 1
  /\ UNCHANGED <<retry, state>>

SettlesFinal(r, p) ==
  /\ row[p].status = "PENDING"
  /\ row'[p].status = "AMBIGUOUS" \/ IsVisibilityMismatch(row'[p])
  /\ row'[p].attempts = row[p].attempts
  /\ UNCHANGED <<retry, state>>

SettlesPublished(r, p) ==
  /\ run[r].pc = "settle"
  /\ row[p].status = "PENDING"
  /\ row'[p].status = "PUBLISHED"
  /\ row'[p].attempts = row[p].attempts
  /\ state' = IF state = "FINAL_COMPLIANCE" THEN "PUBLISHED" ELSE state
  /\ UNCHANGED retry

SettlesFailed(r, p) ==
  /\ run[r].pc = "settle"
  /\ row[p].status = "PENDING"
  /\ IsReclaimable(row'[p])
  /\ row'[p].attempts = row[p].attempts
  /\ retry' = [retry EXCEPT ![p] = RecordFailedAttempt(@)]
  /\ run'[r].pc = "idle"
  /\ UNCHANGED state

LEMMA RowStep ==
  ASSUME TypeOK, Inv, NEW r \in Run, Invocation(r), NEW p \in Provider, p = run[r].p
  PROVE  \/ Leaves(r, p) \/ Claims(r, p) \/ SettlesFinal(r, p)
         \/ SettlesPublished(r, p) \/ SettlesFailed(r, p)
<1>p. p = run[r].p /\ row[p] \in Row
  BY DEF TypeOK
<1>i. run[r].pc = "settle" => row[p].status = "PENDING"
  BY <1>p DEF Inv, HolderInv
<1>1. CASE \E b \in Provider : BeginPublished(r, b) \/ BeginInterrupted(r, b) \/ BeginAttempt(r, b)
  BY <1>1 DEF BeginPublished, BeginInterrupted, BeginAttempt, Begin, Leaves, SameRow
<1>2. CASE MarkInterrupted(r)
  BY <1>2, <1>p DEF MarkInterrupted, TypeOK, Row, Leaves, SettlesFinal, SameRow
<1>3. CASE ClaimNew(r) \/ ClaimFailed(r)
  BY <1>3, <1>p DEF ClaimNew, ClaimFailed, TypeOK, Claimed, Claims
<1>4. CASE ClaimResume(r) \/ ClaimRaced(r) \/ AnswerSuccess(r) \/ AnswerFailure(r)
           \/ AnswerAmbiguous(r) \/ ThumbnailSkip(r) \/ Crash(r)
  BY <1>4 DEF ClaimResume, ClaimRaced, AnswerSuccess, AnswerFailure, AnswerAmbiguous,
              ThumbnailSkip, Crash, Leaves, SameRow
<1>5. CASE Open(r) \/ DropSession(r) \/ ThumbnailStart(r) \/ ThumbnailEnd(r)
  <2>1. \/ row' = row
        \/ \E t \in Token \cup {NoToken} : row' = [row EXCEPT ![p].session = t]
        \/ \E s \in ThumbnailStatus : row' = [row EXCEPT ![p].thumbnail = s]
    BY <1>5, <1>p DEF Open, OpenSession, DropSession, ThumbnailStart, ThumbnailEnd, ThumbnailStatus
  <2>2. SameRow(row'[p], row[p])
    BY <2>1, <1>p DEF TypeOK, Row, SameRow
  <2>3. QED
    BY <2>2, <1>5 DEF Open, OpenSession, DropSession, ThumbnailStart, ThumbnailEnd, Leaves
<1>6. CASE SettleAmbiguous(r)
  BY <1>6, <1>p, <1>i DEF SettleAmbiguous, TypeOK, Row, SettlesFinal
<1>7. CASE SettleMismatch(r)
  BY <1>7, <1>p, <1>i DEF SettleMismatch, Failed, TypeOK, IsVisibilityMismatch, SettlesFinal
<1>8. CASE SettlePublished(r)
  BY <1>8, <1>p, <1>i DEF SettlePublished, Published, TypeOK, Row, SettlesPublished
<1>9. CASE SettleFailure(r)
  BY <1>9, <1>p, <1>i DEF SettleFailure, Failed, TypeOK, Return, Idle, IsReclaimable, SettlesFailed
<1> QED
  BY Invocation(r), <1>1, <1>2, <1>3, <1>4, <1>5, <1>6, <1>7, <1>8, <1>9 DEF Invocation, Pipeline, Adapter

\* Under the guard no step, of a retry, a restart or the Owner, touches a row
\* whose delivery is certain or unknowable.
THEOREM FinalRowsAreFinal == ASSUME Exclusive PROVE Spec => FinalRowsStay
<1> DEFINE Stays == \A p \in Provider : IsFinal(row[p]) =>
                      row'[p].status = row[p].status /\ row'[p].reason = row[p].reason
<1>1. TypeOK /\ Inv /\ [Next]_vars => [Stays]_vars
  <2>1. ASSUME TypeOK, Inv, NEW r \in Run, Invocation(r) PROVE Stays
    <3>1. PICK p \in Provider : p = run[r].p
      BY <2>1, LocalType
    <3>2. \A b \in Provider \ {p} : row'[b] = row[b]
      BY <2>1, <3>1, OthersUntouched
    <3>3. Leaves(r, p) \/ ~IsFinal(row[p])
      BY <2>1, <3>1, RowStep DEF Claims, SettlesFinal, SettlesPublished, SettlesFailed,
         IsFinal, IsReclaimable, IsVisibilityMismatch
    <3>4. QED
      BY <3>2, <3>3 DEF Leaves, SameRow
  <2>2. ASSUME World PROVE Stays
    BY <2>2 DEF World, Owner, Complete, Expire, SetGrant, Reactivate, FinalCompliance, GateChanges
  <2>3. QED
    BY <2>1, <2>2 DEF Next
<1>2. QED
  BY <1>1, TypeCorrect, InvInvariant, PTL DEF Spec, FinalRowsStay

-----------------------------------------------------------------------------
(* The retry budget and the state of the content version.                  *)

Working == {"claim", "adapter", "settle"}

BudgetInv(p) ==
  /\ retry[p].cycle >= 1
  /\ retry[p].attempt <= RetryCap
  /\ retry[p].status = "quarantined" <=> retry[p].attempt = RetryCap
  /\ retry[p].status = "quarantined" => IsReclaimable(row[p])
  /\ row[p].attempts = RetryCap * (retry[p].cycle - 1) + retry[p].attempt + Unfailed(row[p])

\* A working invocation has passed the retry check and the Gate 2 check, and
\* while it works nobody undoes either.
WorkInv(r) ==
  run[r].pc \in Working =>
    retry[run[r].p].status = "active" /\ state \in {"FINAL_COMPLIANCE", "PUBLISHED"}

BookInv ==
  /\ \A p \in Provider : BudgetInv(p)
  /\ \A r \in Run : WorkInv(r)
  /\ StateFollowsRows

LEMMA BookInit == Init => BookInv
  BY PublicationAssumption DEF PublicationAssumption, Init, BookInv, BudgetInv, WorkInv, Working,
     StateFollowsRows, Idle, NoRow, Unfailed

\* An invocation comes to work only on a key that is active and a gate that
\* is open, and keeps its provider while it works.
LEMMA WorkStep ==
  ASSUME TypeOK, NEW r \in Run, Invocation(r), run'[r].pc \in Working
  PROVE  \/ run[r].pc \in Working /\ run'[r].p = run[r].p
         \/ /\ retry[run'[r].p].status = "active" /\ state \in {"FINAL_COMPLIANCE", "PUBLISHED"}
            /\ UNCHANGED <<state, retry>>
<1>r. ~Return(r)
  BY DEF Return, TypeOK, Idle, Working
<1>1. CASE \E b \in Provider : BeginPublished(r, b) \/ BeginInterrupted(r, b) \/ BeginAttempt(r, b)
  <2>1. ASSUME NEW b \in Provider, NEW pc \in Pc, NEW visibility \in {"default", "public"},
               Begin(r, b, pc, visibility)
        PROVE  run'[r].pc = pc /\ run'[r].p = b /\ UNCHANGED <<state, retry>>
    BY <2>1, IdleType DEF Begin, TypeOK, Local
  <2>2. PICK b \in Provider : BeginAttempt(r, b)
    BY <1>1, <2>1 DEF BeginPublished, BeginInterrupted, Working, Pc
  <2>3. QED
    BY <2>1, <2>2 DEF BeginAttempt, GateOpen, Pc
<1> DEFINE Stays == run[r].pc \in Working /\ run'[r].p = run[r].p
<1>k. run[r] \in Local
  BY DEF TypeOK
<1>2. CASE ClaimNew(r) \/ ClaimFailed(r) \/ ClaimResume(r)
  <2>1. run[r].pc \in Working
    BY <1>2 DEF ClaimNew, ClaimFailed, ClaimResume, Working
  <2>2. \/ run' = [run EXCEPT ![r].pc = "adapter"]
        \/ \E t : run' = [run EXCEPT ![r] = [@ EXCEPT !.pc = "adapter", !.token = t]]
    BY <1>2 DEF ClaimNew, ClaimFailed, ClaimResume, Goto
  <2>3. QED
    BY <2>1, <2>2, <1>k DEF TypeOK, Local
<1>3. CASE Open(r) \/ DropSession(r)
  <2>1. run[r].pc \in Working
    BY <1>3 DEF Open, OpenSession, DropSession, Working
  <2>2. \E t : run' = [run EXCEPT ![r].token = t]
    BY <1>3 DEF Open, OpenSession, DropSession
  <2>3. QED
    BY <2>1, <2>2, <1>k DEF TypeOK, Local
<1>4. CASE AnswerSuccess(r) \/ AnswerFailure(r) \/ AnswerAmbiguous(r)
  <2>1. run[r].pc \in Working
    BY <1>4 DEF AnswerSuccess, AnswerFailure, AnswerAmbiguous, Working
  <2>2. \E result : run' = [run EXCEPT ![r] = [@ EXCEPT !.pc = "settle", !.result = result]]
    BY <1>4 DEF AnswerSuccess, AnswerFailure, AnswerAmbiguous, Answer
  <2>3. QED
    BY <2>1, <2>2, <1>k DEF TypeOK, Local
<1>5. CASE SettlePublished(r) \/ ThumbnailStart(r)
  <2>1. run'[r].pc \in {"thumbnail", "thumbnailing"}
    BY <1>5, <1>k DEF SettlePublished, ThumbnailStart, Goto, TypeOK, Local
  <2>2. QED
    BY <2>1 DEF Working
<1>6. QED
  BY Invocation(r), <1>r, <1>1, <1>2, <1>3, <1>4, <1>5 DEF Invocation, Pipeline, Adapter, MarkInterrupted, ClaimRaced,
     SettleFailure, SettleAmbiguous, SettleMismatch, ThumbnailSkip, ThumbnailEnd, Crash

LEMMA BudgetStep ==
  ASSUME TypeOK, Inv, BookInv, NEW r \in Run, Invocation(r), NEW p \in Provider, p = run[r].p
  PROVE  BudgetInv(p)' /\ \A b \in Provider \ {p} : retry'[b] = retry[b]
<1>k. /\ retry[p].attempt \in Nat /\ retry[p].cycle \in Nat /\ row[p].attempts \in Nat
      /\ RetryCap \in Nat \ {0} /\ retry \in [Provider -> Retry]
  BY PublicationAssumption DEF PublicationAssumption, TypeOK, Retry, Row
<1>b. BudgetInv(p)
  BY DEF BookInv
<1>w. run[r].pc \in Working => retry[p].status = "active"
  BY DEF BookInv, WorkInv
<1>1. CASE Leaves(r, p)
  BY <1>1, <1>b DEF Leaves, SameRow, BudgetInv, IsReclaimable, Unfailed
<1>2. CASE Claims(r, p)
  BY <1>2, <1>b, <1>k, <1>w DEF Claims, BudgetInv, IsReclaimable, Unfailed, Working
<1>3. CASE SettlesFinal(r, p) \/ SettlesPublished(r, p)
  BY <1>3, <1>b DEF SettlesFinal, SettlesPublished, BudgetInv, IsReclaimable, IsVisibilityMismatch, Unfailed
<1>4. CASE SettlesFailed(r, p)
  <2>1. retry[p].status = "active" /\ retry[p].attempt < RetryCap
    BY <1>4, <1>b, <1>k, <1>w DEF SettlesFailed, BudgetInv, Working
  <2>2. /\ retry'[p].attempt = retry[p].attempt + 1
        /\ retry'[p].cycle = retry[p].cycle
        /\ retry'[p].status = IF retry[p].attempt + 1 >= RetryCap THEN "quarantined" ELSE "active"
    BY <1>4, <1>k, <2>1 DEF SettlesFailed, RecordFailedAttempt
  <2>3. Unfailed(row[p]) = 1 /\ Unfailed(row'[p]) = 0 /\ IsReclaimable(row'[p])
        /\ row'[p].attempts = row[p].attempts
    BY <1>4 DEF SettlesFailed, Unfailed, IsReclaimable
  <2>4. \A b \in Provider \ {p} : retry'[b] = retry[b]
    BY <1>4, <1>k DEF SettlesFailed
  <2>5. QED
    BY <1>b, <1>k, <2>1, <2>2, <2>3, <2>4 DEF BudgetInv
<1>5. QED
  BY RowStep, <1>1, <1>2, <1>3, <1>4

LEMMA BookInvocation ==
  ASSUME Exclusive, TypeOK, Inv, BookInv, NEW r \in Run, Invocation(r)
  PROVE  BookInv'
<1>p. PICK p \in Provider : p = run[r].p
  BY LocalType
<1>1. \A q \in Run \ {r} : run[q].pc = "idle" /\ run'[q] = run[q]
  BY OthersIdle DEF Inv
<1>2. \A b \in Provider \ {p} : row'[b] = row[b]
  BY <1>p, OthersUntouched
<1>3. BudgetInv(p)' /\ \A b \in Provider \ {p} : retry'[b] = retry[b]
  BY <1>p, BudgetStep
<1>4. Leaves(r, p) \/ Claims(r, p) \/ SettlesFinal(r, p) \/ SettlesPublished(r, p) \/ SettlesFailed(r, p)
  BY <1>p, RowStep
<1>5. ASSUME NEW b \in Provider \ {p} PROVE BudgetInv(b)'
  BY <1>2, <1>3, <1>5 DEF BookInv, BudgetInv
<1>6. ASSUME NEW q \in Run \ {r} PROVE WorkInv(q)'
  BY <1>1, <1>6 DEF WorkInv, Working
<1>w. run[r].pc \in Working => retry[p].status = "active" /\ state \in {"FINAL_COMPLIANCE", "PUBLISHED"}
  BY <1>p DEF BookInv, WorkInv
<1>7. WorkInv(r)'
  <2> SUFFICES ASSUME run'[r].pc \in Working
               PROVE  retry'[run'[r].p].status = "active" /\ state' \in {"FINAL_COMPLIANCE", "PUBLISHED"}
    BY DEF WorkInv
  <2>1. ~SettlesFailed(r, p)
    BY DEF SettlesFailed, Working
  <2>2. UNCHANGED retry /\ state' \in {state, "PUBLISHED"}
    BY <1>4, <2>1 DEF Leaves, Claims, SettlesFinal, SettlesPublished
  <2>3. QED
    BY WorkStep, <1>p, <1>w, <2>2
<1>8. StateFollowsRows'
  <2>1. state = "PUBLISHED" <=> \E b \in Provider : row[b].status = "PUBLISHED"
    BY DEF BookInv, StateFollowsRows
  <2>2. CASE SettlesPublished(r, p)
    BY <2>2, <1>w DEF SettlesPublished, Working, StateFollowsRows
  <2>3. CASE ~SettlesPublished(r, p)
    <3>1. UNCHANGED state /\ (row'[p].status = "PUBLISHED" <=> row[p].status = "PUBLISHED")
      BY <1>4, <2>3 DEF Leaves, SameRow, Claims, SettlesFinal, SettlesFailed, IsReclaimable, IsVisibilityMismatch
    <3>2. QED
      BY <1>2, <2>1, <3>1 DEF StateFollowsRows
  <2>4. QED
    BY <2>2, <2>3
<1>9. QED
  BY <1>3, <1>5, <1>6, <1>7, <1>8 DEF BookInv

LEMMA BookWorld ==
  ASSUME Exclusive, TypeOK, BookInv, World
  PROVE  BookInv'
<1>1. UNCHANGED <<row, run>>
  BY DEF World, Owner, Complete, Expire, SetGrant, Reactivate, FinalCompliance, GateChanges
<1>2. CASE UNCHANGED <<state, retry>>
  BY <1>1, <1>2 DEF BookInv, BudgetInv, WorkInv, StateFollowsRows
<1>3. CASE FinalCompliance
  BY <1>1, <1>3 DEF FinalCompliance, BookInv, BudgetInv, WorkInv, Working, StateFollowsRows
<1>4. ASSUME NEW p \in Provider, Reactivate(p) PROVE BookInv'
  <2>k. /\ retry[p].attempt \in Nat /\ retry[p].cycle \in Nat /\ row[p].attempts \in Nat
        /\ RetryCap \in Nat \ {0} /\ retry \in [Provider -> Retry] /\ UNCHANGED state
    BY <1>4, PublicationAssumption DEF PublicationAssumption, TypeOK, Retry, Row, Reactivate
  <2>1. /\ retry[p].attempt = RetryCap
        /\ row[p].attempts = RetryCap * (retry[p].cycle - 1) + RetryCap + Unfailed(row[p])
    BY <1>4 DEF BookInv, BudgetInv, Reactivate
  <2>2. /\ retry'[p].attempt = 0 /\ retry'[p].status = "active"
        /\ retry'[p].cycle = retry[p].cycle + 1
        /\ \A b \in Provider \ {p} : retry'[b] = retry[b]
    BY <1>4, <2>k DEF Reactivate
  <2>3. RetryCap * (retry[p].cycle - 1) + RetryCap = RetryCap * (retry'[p].cycle - 1) + 0
    BY <2>k, <2>2
  <2>4. BudgetInv(p)'
    BY <1>1, <2>k, <2>1, <2>2, <2>3 DEF BudgetInv
  <2>5. ASSUME NEW b \in Provider \ {p} PROVE BudgetInv(b)'
    BY <1>1, <2>2, <2>5 DEF BookInv, BudgetInv
  <2>6. ASSUME NEW r \in Run PROVE WorkInv(r)'
    <3>1. run[r].p \in Provider
      BY LocalType
    <3>2. QED
      BY <1>1, <2>k, <2>2, <3>1 DEF BookInv, WorkInv
  <2>7. QED
    BY <1>1, <2>k, <2>4, <2>5, <2>6 DEF BookInv, StateFollowsRows
<1>5. QED
  BY <1>2, <1>3, <1>4 DEF World, Owner, Complete, Expire, SetGrant, GateChanges

LEMMA BookInvariant == ASSUME Exclusive PROVE Spec => []BookInv
<1>1. TypeOK /\ Inv /\ BookInv /\ [Next]_vars => BookInv'
  <2>1. BookInv /\ UNCHANGED vars => BookInv'
    BY DEF BookInv, BudgetInv, WorkInv, StateFollowsRows, vars
  <2>2. QED
    BY <2>1, BookInvocation, BookWorld DEF Next
<1>2. QED
  BY <1>1, BookInit, TypeCorrect, InvInvariant, PTL DEF Spec

\* The content version says PUBLISHED when and only when a provider's row does.
THEOREM StateIsTheRows == ASSUME Exclusive PROVE Spec => []StateFollowsRows
<1>1. BookInv => StateFollowsRows
  BY DEF BookInv
<1>2. QED
  BY <1>1, BookInvariant, PTL

\* No attempt escapes the retry budget, over any number of Owner reactivations.
THEOREM EveryAttemptIsPaidFor == ASSUME Exclusive PROVE Spec => []AttemptsAreAccounted
<1>1. BookInv => AttemptsAreAccounted
  BY DEF BookInv, BudgetInv, AttemptsAreAccounted
<1>2. QED
  BY <1>1, BookInvariant, PTL

\* A quarantined key is at rest: nobody works on it and its row is FAILED.
THEOREM QuarantineHolds == ASSUME Exclusive PROVE Spec => []QuarantinedIsAtRest
<1>1. BookInv => QuarantinedIsAtRest
  BY DEF BookInv, BudgetInv, WorkInv, Working, QuarantinedIsAtRest
<1>2. QED
  BY <1>1, BookInvariant, PTL

-----------------------------------------------------------------------------
(* What the engine says of a delivery is true, with any number of live     *)
(* processes.                                                              *)

SaysDelivered(w) == w.status = "PUBLISHED" \/ IsVisibilityMismatch(w)

Confirms(l) == l.pc = "settle" /\ l.result \in {"success", "unconfirmed"}

TruthInv ==
  /\ \A p \in Provider : SaysDelivered(row[p]) => Items(p) # {}
  /\ \A r \in Run : Confirms(run[r]) => Items(run[r].p) # {}

\* No step of the engine creates an item or takes one away.
LEMMA InvocationKeepsItems ==
  ASSUME TypeOK, NEW r \in Run, Invocation(r)
  PROVE  \A p \in Provider : Items(p)' = Items(p)
<1>1. CASE UNCHANGED upload
  BY <1>1 DEF Items
<1>2. CASE Open(r)
  <2>1. PICK t \in Token : upload[run[r].p][t] = "none" /\ upload' = [upload EXCEPT ![run[r].p][t] = "open"]
    BY <1>2 DEF Open, OpenSession, IsFresh
  <2>2. QED
    BY <2>1, LocalType DEF Items, TypeOK
<1>3. CASE AnswerFailure(r) /\ Held(run[r]) = "open"
  <2>1. PICK t \in Token : upload[run[r].p][t] = "open" /\ upload' = [upload EXCEPT ![run[r].p][t] = "dead"]
    BY <1>3, LocalType DEF AnswerFailure, Held
  <2>2. QED
    BY <2>1, LocalType DEF Items, TypeOK
<1>4. QED
  BY Invocation(r), <1>1, <1>2, <1>3
     DEF Invocation, Pipeline, Adapter, BeginPublished, BeginInterrupted, BeginAttempt, Begin, MarkInterrupted,
         ClaimNew, ClaimFailed, ClaimResume, ClaimRaced, DropSession, AnswerSuccess, AnswerFailure,
         AnswerAmbiguous, SettleFailure, SettleAmbiguous, SettleMismatch, SettlePublished,
         ThumbnailStart, ThumbnailSkip, ThumbnailEnd, Crash

\* A row comes to say that an item exists when such an answer is settled.
LEMMA DeliveredFromAnswer ==
  ASSUME TypeOK, NEW r \in Run, Invocation(r), NEW p \in Provider, SaysDelivered(row'[p])
  PROVE  SaysDelivered(row[p]) \/ (run[r].p = p /\ Confirms(run[r]))
<1>k. row[p] \in Row
  BY DEF TypeOK
<1>0. CASE run[r].p # p
  BY <1>0, OthersUntouched
<1>1. CASE \/ row' = row
           \/ \E t : row' = [row EXCEPT ![p].session = t]
           \/ \E s : row' = [row EXCEPT ![p].thumbnail = s]
  BY <1>1, <1>k DEF TypeOK, Row, SaysDelivered, IsVisibilityMismatch
<1>2. CASE run[r].p = p /\ (ClaimNew(r) \/ ClaimFailed(r))
  BY <1>2, <1>k DEF ClaimNew, ClaimFailed, Claimed, TypeOK, SaysDelivered, IsVisibilityMismatch
<1>3. CASE row' = [row EXCEPT ![p].status = "AMBIGUOUS"]
  BY <1>3, <1>k DEF TypeOK, Row, SaysDelivered, IsVisibilityMismatch
<1>4. CASE run[r].p = p /\ SettleFailure(r)
  BY <1>4 DEF SettleFailure, Failed, TypeOK, SaysDelivered, IsVisibilityMismatch
<1>5. CASE run[r].p = p /\ (SettleMismatch(r) \/ SettlePublished(r))
  BY <1>5 DEF SettleMismatch, SettlePublished, IsMismatch, Confirms
<1>6. QED
  BY Invocation(r), <1>0, <1>1, <1>2, <1>3, <1>4, <1>5
     DEF Invocation, Pipeline, Adapter, BeginPublished, BeginInterrupted, BeginAttempt, Begin, MarkInterrupted,
         ClaimResume, ClaimRaced, Open, OpenSession, DropSession, AnswerSuccess, AnswerFailure,
         AnswerAmbiguous, SettleAmbiguous, ThumbnailStart, ThumbnailSkip, ThumbnailEnd, Crash

\* Such an answer is only given while the provider shows the item.
LEMMA ConfirmedFromItem ==
  ASSUME TypeOK, NEW r \in Run, Invocation(r), NEW q \in Run, Confirms(run'[q])
  PROVE  /\ run'[q].p = run[q].p
         /\ Confirms(run[q]) \/ Items(run[q].p) # {}
<1>k. run[r] \in Local
  BY DEF TypeOK
<1>t. run'[q].pc = "settle" /\ run'[q].result \in {"success", "unconfirmed"}
  BY DEF Confirms
<1>1. CASE run'[q] = run[q]
  BY <1>1
<1>2. CASE Return(r) \/ \E pc \in Pc \ {"settle"} : Goto(r, pc)
  BY <1>t, <1>1, <1>2, <1>k DEF Return, Goto, Idle, TypeOK, Local
<1>3. CASE \E b \in Provider : BeginPublished(r, b) \/ BeginInterrupted(r, b) \/ BeginAttempt(r, b)
  <2>1. PICK b \in Provider, pc \in Pc \ {"settle"}, visibility \in {"default", "public"} :
          Begin(r, b, pc, visibility)
    BY <1>3 DEF BeginPublished, BeginInterrupted, BeginAttempt, Pc
  <2>2. run' = [run EXCEPT ![r] = [Idle EXCEPT !.pc = pc, !.p = b, !.visibility = visibility]]
    BY <2>1 DEF Begin
  <2>3. q # r
    BY <2>2, <1>t, IdleType DEF TypeOK, Local
  <2>4. QED
    BY <2>2, <2>3, <1>1 DEF TypeOK
<1>4. CASE ClaimResume(r) \/ Open(r) \/ DropSession(r)
  <2>1. run[r].pc # "settle"
    BY <1>4 DEF ClaimResume, Open, OpenSession, DropSession
  <2>2. \/ \E t : run' = [run EXCEPT ![r].token = t]
        \/ \E t : run' = [run EXCEPT ![r] = [@ EXCEPT !.pc = "adapter", !.token = t]]
    BY <1>4 DEF ClaimResume, Open, OpenSession, DropSession
  <2>3. q # r
    <3>1. CASE \E t : run' = [run EXCEPT ![r].token = t]
      BY <1>t, <2>1, <3>1, <1>k DEF TypeOK, Local
    <3>2. CASE \E t : run' = [run EXCEPT ![r] = [@ EXCEPT !.pc = "adapter", !.token = t]]
      BY <1>t, <3>2, <1>k DEF TypeOK, Local
    <3>3. QED
      BY <2>2, <3>1, <3>2
  <2>4. QED
    BY <1>1, <2>2, <2>3 DEF TypeOK
<1>5. CASE AnswerSuccess(r) \/ AnswerFailure(r) \/ AnswerAmbiguous(r)
  <2>1. PICK result \in Result : Answer(r, result) /\ (result \in {"success", "unconfirmed"} => Held(run[r]) = "done")
    BY <1>5 DEF AnswerSuccess, AnswerFailure, AnswerAmbiguous, Result
  <2>2. Held(run[r]) = "done" => Items(run[r].p) # {}
    BY LocalType DEF Held, Items
  <2>3. run' = [run EXCEPT ![r] = [@ EXCEPT !.pc = "settle", !.result = result]]
    BY <2>1 DEF Answer
  <2>4. QED
    BY <1>t, <1>1, <2>1, <2>2, <2>3, <1>k DEF TypeOK, Local
<1>6. \/ Return(r) \/ \E pc \in Pc \ {"settle"} : Goto(r, pc)
      \/ \E b \in Provider : BeginPublished(r, b) \/ BeginInterrupted(r, b) \/ BeginAttempt(r, b)
      \/ ClaimResume(r) \/ Open(r) \/ DropSession(r)
      \/ AnswerSuccess(r) \/ AnswerFailure(r) \/ AnswerAmbiguous(r)
  BY DEF Invocation, Pipeline, Adapter, MarkInterrupted, ClaimNew, ClaimFailed, ClaimRaced, SettleFailure,
         SettleAmbiguous, SettleMismatch, SettlePublished, ThumbnailStart, ThumbnailSkip,
         ThumbnailEnd, Crash, Pc
<1>7. QED
  BY <1>2, <1>3, <1>4, <1>5, <1>6

\* What comes to say that an item exists was told so by the provider.
LEMMA TruthStep ==
  ASSUME TypeOK, NEW r \in Run, Invocation(r), TruthInv
  PROVE  TruthInv'
<1>1. \A p \in Provider : Items(p)' = Items(p)
  BY InvocationKeepsItems
<1>2. \A p \in Provider : SaysDelivered(row'[p]) => Items(p) # {}
  BY DeliveredFromAnswer DEF TruthInv
<1>3. \A q \in Run : Confirms(run'[q]) => run'[q].p = run[q].p /\ Items(run[q].p) # {}
  BY ConfirmedFromItem DEF TruthInv
<1>4. \A q \in Run : run[q].p \in Provider
  BY LocalType
<1>5. QED
  BY <1>1, <1>2, <1>3, <1>4 DEF TruthInv

LEMMA TruthWorld ==
  ASSUME TypeOK, World, TruthInv
  PROVE  TruthInv'
<1>1. UNCHANGED <<row, run>>
  BY DEF World, Owner, Complete, Expire, SetGrant, Reactivate, FinalCompliance, GateChanges
<1>2. ASSUME NEW p \in Provider PROVE Items(p) \subseteq Items(p)'
  BY DEF World, Owner, Complete, Expire, SetGrant, Reactivate, FinalCompliance, GateChanges, TypeOK, Items
<1>3. \A r \in Run : run[r].p \in Provider
  BY LocalType
<1>4. QED
  BY <1>1, <1>2, <1>3 DEF TruthInv

LEMMA TruthInvariant == Spec => []TruthInv
<1>1. Init => TruthInv
  BY DEF Init, TruthInv, SaysDelivered, IsVisibilityMismatch, Confirms, NoRow, Idle
<1>2. TypeOK /\ TruthInv /\ [Next]_vars => TruthInv'
  <2>1. TruthInv /\ UNCHANGED vars => TruthInv'
    BY DEF TruthInv, Items, vars
  <2>2. QED
    BY <2>1, TruthStep, TruthWorld DEF Next
<1>3. QED
  BY <1>1, <1>2, TypeCorrect, PTL DEF Spec

\* PUBLISHED is only ever said of an item that exists, guard or no guard.
THEOREM PublishedIsTrue == Spec => []PublishedExists
<1>1. TruthInv => PublishedExists
  BY DEF TruthInv, SaysDelivered, PublishedExists
<1>2. QED
  BY <1>1, TruthInvariant, PTL

-----------------------------------------------------------------------------
(* A provider without upload sessions needs no guard: the claim alone      *)
(* keeps all but one invocation away from it.                              *)

Holds(r, p) == run[r].p = p /\ run[r].pc \in {"adapter", "settle"}
Unarmed(l) == l.pc \notin {"adapter", "settle"} /\ (l.pc = "claim" => l.token = NoToken)

StatelessInv(p) ==
  /\ row[p].session = NoToken
  /\ \A t, u \in Live(p) : t = u
  /\ row[p].status = "NONE" \/ IsReclaimable(row[p]) => Live(p) = {}
  /\ \A r, q \in Run : Holds(r, p) /\ Holds(q, p) => r = q
  /\ \A r \in Run :
       /\ Holds(r, p) => row[p].status \in {"PENDING", "AMBIGUOUS"}
       /\ run[r].p = p /\ run[r].pc = "claim" => run[r].token = NoToken
       /\ run[r].p = p /\ run[r].pc = "adapter" => Live(p) \subseteq {run[r].token}
       /\ run[r].p = p /\ run[r].pc = "settle" /\ run[r].result = "failure" => Live(p) = {}

\* A step that leaves the row claimed by whoever holds it, or releases it.
LEMMA StatelessLeft ==
  ASSUME NEW p \in Provider, StatelessInv(p), NEW r \in Run,
         \A q \in Run \ {r} : run'[q] = run[q],
         run'[r].p = p => Unarmed(run'[r]),
         Live(p)' \subseteq Live(p), row'[p].session = NoToken,
         \/ row'[p].status = row[p].status /\ row'[p].reason = row[p].reason
         \/ row'[p].status = "AMBIGUOUS"
         \/ Holds(r, p) /\ (row'[p].status = "PUBLISHED" \/ IsVisibilityMismatch(row'[p]) \/ Live(p) = {})
  PROVE  StatelessInv(p)'
<1>1. row'[p].status = "NONE" \/ IsReclaimable(row'[p]) => Live(p)' = {}
  BY DEF StatelessInv, IsReclaimable, IsVisibilityMismatch
<1>2. \A q \in Run : Holds(q, p)' => q # r /\ Holds(q, p)
  BY DEF Holds, Unarmed
<1>3. \A q \in Run : Holds(q, p)' => row'[p].status \in {"PENDING", "AMBIGUOUS"}
  BY <1>2 DEF StatelessInv
<1>4. QED
  BY <1>1, <1>2, <1>3 DEF StatelessInv, Holds, Unarmed

\* A claim finds no holder and no upload.
LEMMA StatelessClaimed ==
  ASSUME TypeOK, NEW r \in Run, NEW p \in Provider, p = run[r].p, StatelessInv(p), ClaimNew(r) \/ ClaimFailed(r)
  PROVE  StatelessInv(p)'
<1>1. row' = [row EXCEPT ![p] = Claimed(@)] /\ Goto(r, "adapter") /\ UNCHANGED upload
  BY DEF ClaimNew, ClaimFailed
<1>2. Live(p) = {} /\ \A q \in Run : ~Holds(q, p)
  BY DEF StatelessInv, ClaimNew, ClaimFailed, IsReclaimable
<1>3. row'[p].status = "PENDING" /\ row'[p].session = NoToken
  BY <1>1 DEF Claimed, TypeOK
<1>4. \A q \in Run \ {r} : run'[q] = run[q]
  BY <1>1 DEF Goto, TypeOK
<1>5. run'[r].pc = "adapter" /\ Live(p)' = {}
  BY <1>1, <1>2 DEF Goto, TypeOK, Local, Live
<1>6. QED
  BY <1>2, <1>3, <1>4, <1>5 DEF StatelessInv, Holds, IsReclaimable

\* The holder opens the one upload, if it has not opened one yet.
LEMMA StatelessOpened ==
  ASSUME TypeOK, NEW r \in Run, NEW p \in Provider \ Resumable, p = run[r].p, StatelessInv(p), Open(r)
  PROVE  StatelessInv(p)'
<1>1. PICK t \in Token : /\ upload' = [upload EXCEPT ![p][t] = "open"]
                         /\ run' = [run EXCEPT ![r].token = t]
                         /\ UNCHANGED row
  BY DEF Open, OpenSession
<1>2. run[r].pc = "adapter" /\ Held(run[r]) = "none"
  BY DEF Open, OpenSession
<1>3. Live(p) \subseteq {run[r].token} /\ run[r].token \in Token \cup {NoToken}
  BY <1>2, LocalType DEF StatelessInv
<1>4. Live(p) = {}
  BY <1>2, <1>3 DEF Held, Live, NoToken, Token
<1>5. Live(p)' = {t}
  BY <1>1, <1>4 DEF Live, TypeOK
<1>6. /\ run'[r].pc = "adapter" /\ run'[r].p = p /\ run'[r].token = t
      /\ \A q \in Run \ {r} : run'[q] = run[q]
  BY <1>1, <1>2 DEF TypeOK, Local
<1>7. Holds(r, p) /\ \A q \in Run : Holds(q, p)' => Holds(q, p)
  BY <1>2, <1>6 DEF Holds
<1>8. row[p].status \in {"PENDING", "AMBIGUOUS"}
  BY <1>7 DEF StatelessInv
<1>9. QED
  BY <1>1, <1>5, <1>6, <1>7, <1>8 DEF StatelessInv, Holds, IsReclaimable

\* The holder has its answer; a definite failure leaves nothing behind.
LEMMA StatelessAnswered ==
  ASSUME TypeOK, NEW r \in Run, NEW p \in Provider, p = run[r].p, StatelessInv(p),
         run[r].pc = "adapter", UNCHANGED row, NEW result \in Result, Answer(r, result),
         Live(p)' \subseteq Live(p), result = "failure" => Live(p)' = {}
  PROVE  StatelessInv(p)'
<1>1. /\ run'[r].pc = "settle" /\ run'[r].result = result /\ run'[r].p = p
      /\ \A q \in Run \ {r} : run'[q] = run[q]
  BY DEF Answer, TypeOK, Local
<1>2. Holds(r, p) /\ \A q \in Run : Holds(q, p)' => Holds(q, p)
  BY <1>1 DEF Holds
<1>3. \A q \in Run \ {r} : ~Holds(q, p)
  BY <1>2 DEF StatelessInv
<1>4. \A t, u \in Live(p)' : t = u
  BY DEF StatelessInv
<1>5. row[p].status \in {"PENDING", "AMBIGUOUS"} /\ row[p].session = NoToken
  BY <1>2 DEF StatelessInv
<1>6. \A q \in Run \ {r} : run[q].p = p /\ run[q].pc = "claim" => run[q].token = NoToken
  BY DEF StatelessInv
<1>7. QED
  BY <1>1, <1>2, <1>3, <1>4, <1>5, <1>6 DEF StatelessInv, Holds, IsReclaimable

\* What the answers of the contract leave at the provider.
LEMMA AnswerLeaves ==
  ASSUME TypeOK, NEW r \in Run, NEW p \in Provider, p = run[r].p, StatelessInv(p),
         AnswerSuccess(r) \/ AnswerFailure(r) \/ AnswerAmbiguous(r)
  PROVE  \E result \in Result : /\ Answer(r, result) /\ Live(p)' \subseteq Live(p)
                                /\ result = "failure" => Live(p)' = {}
<1>1. PICK result \in Result : Answer(r, result) /\ (result = "failure" => AnswerFailure(r))
  BY DEF AnswerSuccess, AnswerFailure, AnswerAmbiguous, Result
<1>2. Live(p) \subseteq {run[r].token} /\ run[r].token \in Token \cup {NoToken}
  BY LocalType DEF StatelessInv, AnswerSuccess, AnswerFailure, AnswerAmbiguous
<1>3. Live(p)' \subseteq Live(p)
  <2>1. CASE UNCHANGED upload
    BY <2>1 DEF Live
  <2>2. CASE upload' = [upload EXCEPT ![p][run[r].token] = "dead"]
    BY <2>2 DEF Live, TypeOK
  <2>3. QED
    BY <2>1, <2>2 DEF AnswerSuccess, AnswerFailure, AnswerAmbiguous
<1>4. AnswerFailure(r) => Live(p)' = {}
  <2>1. ASSUME AnswerFailure(r), Held(run[r]) = "open" PROVE run[r].token \notin Live(p)'
    BY <2>1, <1>2 DEF AnswerFailure, Held, Live, TypeOK, Token, NoToken
  <2>2. ASSUME AnswerFailure(r), Held(run[r]) # "open" PROVE run[r].token \notin Live(p)
    BY <2>2, <1>2 DEF AnswerFailure, Held, Live, Token, NoToken
  <2>3. QED
    BY <2>1, <2>2, <1>2, <1>3
<1>5. QED
  BY <1>1, <1>3, <1>4

LEMMA StatelessOwn ==
  ASSUME TypeOK, NEW r \in Run, NEW p \in Provider \ Resumable, p = run[r].p, StatelessInv(p), Invocation(r)
  PROVE  StatelessInv(p)'
<1>k. row[p] \in Row /\ run[r] \in Local /\ row[p].session = NoToken
  BY DEF TypeOK, StatelessInv
<1>o. \A q \in Run \ {r} : run'[q] = run[q]
  BY OthersStay
<1>r. Return(r) => Unarmed(run'[r])
  BY DEF Return, Unarmed, Idle, TypeOK
<1>g. Goto(r, "thumbnail") \/ Goto(r, "thumbnailing") => Unarmed(run'[r])
  BY <1>k DEF Goto, Unarmed, TypeOK, Local
<1>1. CASE \E b \in Provider : BeginPublished(r, b) \/ BeginInterrupted(r, b) \/ BeginAttempt(r, b)
  <2>1. PICK b \in Provider, pc \in {"thumbnail", "interrupt", "claim"},
             visibility \in {"default", "public"} : Begin(r, b, pc, visibility)
    BY <1>1 DEF BeginPublished, BeginInterrupted, BeginAttempt
  <2>2. Unarmed(run'[r])
    BY <2>1, IdleType DEF Begin, Unarmed, TypeOK, Local, Idle
  <2>3. UNCHANGED <<row, upload>>
    BY <2>1 DEF Begin
  <2>4. QED
    BY <1>k, <1>o, <2>2, <2>3, StatelessLeft DEF Live
<1>2. CASE ClaimNew(r) \/ ClaimFailed(r)
  BY <1>2, StatelessClaimed
<1>3. CASE Open(r)
  BY <1>3, StatelessOpened
<1>4. CASE AnswerSuccess(r) \/ AnswerFailure(r) \/ AnswerAmbiguous(r)
  <2>1. run[r].pc = "adapter" /\ UNCHANGED row
    BY <1>4 DEF AnswerSuccess, AnswerFailure, AnswerAmbiguous
  <2>2. QED
    BY <1>4, <2>1, AnswerLeaves, StatelessAnswered
<1>5. CASE MarkInterrupted(r)
  <2>1. row'[p].session = NoToken /\ (row'[p] = row[p] \/ row'[p].status = "AMBIGUOUS")
    BY <1>5, <1>k DEF MarkInterrupted, TypeOK, Row
  <2>2. UNCHANGED upload /\ Return(r)
    BY <1>5 DEF MarkInterrupted
  <2>3. QED
    BY <1>o, <1>r, <2>1, <2>2, StatelessLeft DEF Live
<1>6. CASE ClaimRaced(r) \/ ThumbnailSkip(r) \/ Crash(r)
  <2>1. UNCHANGED <<row, upload>> /\ Return(r)
    BY <1>6 DEF ClaimRaced, ThumbnailSkip, Crash
  <2>2. QED
    BY <1>k, <1>o, <1>r, <2>1, StatelessLeft DEF Live
<1>7. CASE SettleFailure(r) \/ SettleAmbiguous(r) \/ SettleMismatch(r) \/ SettlePublished(r)
  <2>1. Holds(r, p) /\ UNCHANGED upload /\ Unarmed(run'[r])
    BY <1>7, <1>r, <1>g DEF SettleFailure, SettleAmbiguous, SettleMismatch, SettlePublished, Holds
  <2>2. /\ row'[p].session = NoToken
        /\ \/ row'[p].status \in {"AMBIGUOUS", "PUBLISHED"}
           \/ IsVisibilityMismatch(row'[p])
           \/ Live(p) = {}
    <3>1. CASE SettleFailure(r)
      BY <3>1, <1>k DEF SettleFailure, Failed, TypeOK, StatelessInv
    <3>2. CASE SettleAmbiguous(r)
      BY <3>2, <1>k DEF SettleAmbiguous, TypeOK, Row
    <3>3. CASE SettleMismatch(r)
      BY <3>3, <1>k DEF SettleMismatch, Failed, IsVisibilityMismatch, TypeOK
    <3>4. CASE SettlePublished(r)
      BY <3>4, <1>k DEF SettlePublished, Published, TypeOK, Row
    <3>5. QED
      BY <1>7, <3>1, <3>2, <3>3, <3>4
  <2>3. QED
    BY <1>o, <2>1, <2>2, StatelessLeft DEF Live
<1>8. CASE ThumbnailEnd(r)
  <2>1. /\ row'[p].status = row[p].status /\ row'[p].session = row[p].session
        /\ row'[p].reason = row[p].reason
    BY <1>8, <1>k DEF ThumbnailEnd, TypeOK, Row
  <2>2. UNCHANGED upload /\ Return(r)
    BY <1>8 DEF ThumbnailEnd
  <2>3. QED
    BY <1>k, <1>o, <1>r, <2>1, <2>2, StatelessLeft DEF Live
<1>9. ~ClaimResume(r) /\ ~DropSession(r) /\ ~ThumbnailStart(r)
  BY <1>k DEF ClaimResume, IsResumable, DropSession, ThumbnailStart
<1>10. QED
  BY Invocation(r), <1>1, <1>2, <1>3, <1>4, <1>5, <1>6, <1>7, <1>8, <1>9 DEF Invocation, Pipeline, Adapter

\* An invocation that works for one provider takes nothing from another.
LEMMA StatelessOther ==
  ASSUME TypeOK, NEW r \in Run, NEW p \in Provider, p # run[r].p, StatelessInv(p), Invocation(r)
  PROVE  StatelessInv(p)'
<1>1. row'[p] = row[p] /\ upload'[p] = upload[p]
  BY OthersUntouched
<1>2. \A q \in Run \ {r} : run'[q] = run[q]
  BY OthersStay
<1>3. run'[r].p = p => Unarmed(run'[r])
  <2>k. run[r] \in Local
    BY DEF TypeOK
  <2>1. CASE Return(r)
    BY <2>1 DEF Return, Unarmed, Idle, TypeOK
  <2>2. CASE \E pc \in Pc : Goto(r, pc)
    BY <2>2, <2>k DEF Goto, TypeOK, Local
  <2>3. CASE \E result \in Result : Answer(r, result)
    BY <2>3, <2>k DEF Answer, TypeOK, Local
  <2>4. CASE ClaimResume(r) \/ Open(r) \/ DropSession(r)
    <3>1. \/ \E t : run' = [run EXCEPT ![r].token = t]
          \/ \E t : run' = [run EXCEPT ![r] = [@ EXCEPT !.pc = "adapter", !.token = t]]
      BY <2>4 DEF ClaimResume, Open, OpenSession, DropSession
    <3>2. QED
      BY <3>1, <2>k DEF TypeOK, Local
  <2>5. CASE \E b \in Provider : BeginPublished(r, b) \/ BeginInterrupted(r, b) \/ BeginAttempt(r, b)
    <3>1. PICK b \in Provider, pc \in {"thumbnail", "interrupt", "claim"},
               visibility \in {"default", "public"} : Begin(r, b, pc, visibility)
      BY <2>5 DEF BeginPublished, BeginInterrupted, BeginAttempt
    <3>2. QED
      BY <3>1, IdleType DEF Begin, Unarmed, TypeOK, Local, Idle
  <2>6. QED
    BY Invocation(r), <2>1, <2>2, <2>3, <2>4, <2>5
       DEF Invocation, Pipeline, Adapter, MarkInterrupted, ClaimNew, ClaimFailed, ClaimRaced,
           AnswerSuccess, AnswerFailure, AnswerAmbiguous, SettleFailure, SettleAmbiguous,
           SettleMismatch, SettlePublished, ThumbnailStart, ThumbnailSkip, ThumbnailEnd, Crash, Pc, Result
<1>4. row[p].session = NoToken /\ Live(p)' = Live(p)
  BY <1>1 DEF StatelessInv, Live
<1>5. QED
  BY <1>1, <1>2, <1>3, <1>4, StatelessLeft

\* An upload may end, whoever works on the row.
LEMMA StatelessShrinks ==
  ASSUME NEW p \in Provider, StatelessInv(p), UNCHANGED <<row, run>>, Live(p)' \subseteq Live(p)
  PROVE  StatelessInv(p)'
  BY DEF StatelessInv, Holds

LEMMA StatelessWorld ==
  ASSUME TypeOK, World, NEW p \in Provider, StatelessInv(p)
  PROVE  StatelessInv(p)'
<1>1. UNCHANGED <<row, run>>
  BY DEF World, Owner, Complete, Expire, SetGrant, Reactivate, FinalCompliance, GateChanges
<1>2. Live(p)' \subseteq Live(p)
  <2>1. CASE UNCHANGED upload
    BY <2>1 DEF Live
  <2>2. CASE \E b \in Provider, t \in Token : Complete(b, t) \/ Expire(b, t)
    BY <2>2 DEF Complete, Expire, Live, TypeOK
  <2>3. QED
    BY <2>1, <2>2 DEF World, Owner, SetGrant, Reactivate, FinalCompliance, GateChanges
<1>3. QED
  BY <1>1, <1>2, StatelessShrinks

LEMMA StatelessInvariant == Spec => [](\A p \in Provider \ Resumable : StatelessInv(p))
<1> DEFINE SInv == \A p \in Provider \ Resumable : StatelessInv(p)
<1>1. Init => SInv
  BY DEF Init, StatelessInv, Holds, Live, NoRow, Idle, IsReclaimable
<1>2. TypeOK /\ SInv /\ [Next]_vars => SInv'
  <2>1. SInv /\ UNCHANGED vars => SInv'
    BY DEF StatelessInv, Holds, Live, vars
  <2>2. ASSUME TypeOK, SInv, NEW r \in Run, Invocation(r) PROVE SInv'
    BY <2>2, StatelessOwn, StatelessOther
  <2>3. TypeOK /\ SInv /\ World => SInv'
    BY StatelessWorld
  <2>4. QED
    BY <2>1, <2>2, <2>3 DEF Next
<1> HIDE DEF SInv
<1>3. Spec => []SInv
  BY <1>1, <1>2, TypeCorrect, PTL DEF Spec
<1>4. QED
  BY <1>3 DEF SInv

\* A provider without upload sessions receives the content version at most
\* once, however many live processes there are.
THEOREM StatelessPublishedOnce == Spec => []StatelessOnlyOnce
<1> DEFINE SInv == \A p \in Provider \ Resumable : StatelessInv(p)
<1>1. SInv => StatelessOnlyOnce
  BY DEF StatelessInv, StatelessOnlyOnce, Live, Items
<1>2. Spec => []SInv
  BY StatelessInvariant
<1> HIDE DEF SInv
<1>3. QED
  BY <1>1, <1>2, PTL

-----------------------------------------------------------------------------
(* Under the guard Publication implements PublicationOnce.                 *)

AbstractOutcome == [p \in Provider |-> Outcome(row[p])]
AbstractItems == [p \in Provider |-> Items(p)]

LEMMA OutcomeValues ==
  ASSUME NEW w \in Row
  PROVE  /\ SaysDelivered(w) => Outcome(w) \in {"published", "mismatch"}
         /\ w.status = "AMBIGUOUS" => Outcome(w) = "unknown"
         /\ w.status \in {"NONE", "PENDING"} \/ IsReclaimable(w) => Outcome(w) = "open"
         /\ ~SaysDelivered(w) => Outcome(w) \in {"open", "unknown"}
  BY DEF Row, RowStatus, Outcome, SaysDelivered, IsVisibilityMismatch, IsReclaimable

LEMMA OnceInit == Init => Once!Init
  BY DEF Init, Once!Init, Outcome, Items, NoRow, IsVisibilityMismatch

LEMMA OnceInvocation ==
  ASSUME TypeOK, TypeOK', Inv, TruthInv', NEW r \in Run, Invocation(r)
  PROVE  [Once!Next]_<<AbstractOutcome, AbstractItems>>
<1>p. PICK p \in Provider : p = run[r].p
  BY LocalType
<1>k. row[p] \in Row /\ row'[p] \in Row
  BY DEF TypeOK
<1>1. UNCHANGED AbstractItems /\ \A b \in Provider : Items(b)' = Items(b)
  BY InvocationKeepsItems DEF AbstractItems
<1>2. \A b \in Provider \ {p} : row'[b] = row[b]
  BY <1>p, OthersUntouched
<1>3. AbstractOutcome' = [AbstractOutcome EXCEPT ![p] = Outcome(row'[p])]
  BY <1>2 DEF AbstractOutcome
<1>4. CASE Outcome(row'[p]) = Outcome(row[p])
  BY <1>1, <1>3, <1>4 DEF AbstractOutcome
<1>5. CASE Outcome(row'[p]) # Outcome(row[p])
  <2>1. ~Leaves(r, p) /\ ~Claims(r, p) /\ ~SettlesFailed(r, p)
    BY <1>5, <1>k, OutcomeValues DEF Leaves, SameRow, Claims, SettlesFailed, Outcome, IsVisibilityMismatch
  <2>2. row[p].status = "PENDING" /\ (SaysDelivered(row'[p]) \/ row'[p].status = "AMBIGUOUS")
    BY <2>1, <1>p, RowStep DEF SettlesFinal, SettlesPublished, SaysDelivered
  <2>3. AbstractOutcome[p] = "open"
    BY <1>k, <2>2, OutcomeValues DEF AbstractOutcome
  <2>4. CASE row'[p].status = "AMBIGUOUS"
    <3>1. Once!GiveUp(p)
      BY <1>1, <1>3, <1>k, <2>3, <2>4, OutcomeValues DEF Once!GiveUp, AbstractOutcome, AbstractItems
    <3>2. QED
      BY <3>1 DEF Once!Next
  <2>5. CASE SaysDelivered(row'[p])
    <3>1. PICK verdict \in {"published", "mismatch"} : verdict = Outcome(row'[p])
      BY <1>k, <2>5, OutcomeValues
    <3>2. AbstractItems[p] # {}
      BY <1>1, <2>5 DEF TruthInv, AbstractItems
    <3>3. Once!Confirm(p, verdict)
      BY <1>1, <1>3, <2>3, <3>1, <3>2 DEF Once!Confirm, AbstractOutcome, AbstractItems
    <3>4. QED
      BY <3>3 DEF Once!Next
  <2>6. QED
    BY <2>2, <2>4, <2>5
<1>6. QED
  BY <1>4, <1>5

LEMMA OnceWorld ==
  ASSUME TypeOK, Inv, TruthInv, World
  PROVE  [Once!Next]_<<AbstractOutcome, AbstractItems>>
<1>1. UNCHANGED AbstractOutcome
  BY DEF World, Owner, Complete, Expire, SetGrant, Reactivate, FinalCompliance, GateChanges, AbstractOutcome
<1>2. CASE UNCHANGED AbstractItems
  BY <1>1, <1>2
<1>3. ASSUME NEW p \in Provider, NEW t \in Token, Complete(p, t) PROVE Once!Next
  <2>1. t \in Live(p) /\ upload[p][t] = "open" /\ upload' = [upload EXCEPT ![p][t] = "done"]
    BY <1>3 DEF Complete, Live
  <2>2. Items(p) = {}
    BY <2>1 DEF Inv, UploadInv, Live, Items
  <2>3. Items(p)' = {t} /\ \A b \in Provider \ {p} : Items(b)' = Items(b)
    BY <2>1, <2>2 DEF TypeOK, Items
  <2>4. AbstractItems' = [AbstractItems EXCEPT ![p] = {t}]
    BY <2>3 DEF AbstractItems
  <2>5. AbstractOutcome[p] \in {"open", "unknown"}
    BY <2>2, OutcomeValues DEF TruthInv, TypeOK, AbstractOutcome
  <2>6. Once!Deliver(p, t)
    BY <1>1, <2>2, <2>4, <2>5 DEF Once!Deliver, AbstractOutcome, AbstractItems
  <2>7. QED
    BY <2>6 DEF Once!Next
<1>4. ASSUME NEW p \in Provider, NEW t \in Token, Expire(p, t) PROVE UNCHANGED AbstractItems
  <2>1. \A b \in Provider : Items(b)' = Items(b)
    BY <1>4 DEF Expire, TypeOK, Items
  <2>2. QED
    BY <2>1 DEF AbstractItems
<1>5. CASE UNCHANGED upload
  BY <1>5, <1>2 DEF AbstractItems, Items
<1>6. QED
  BY <1>2, <1>3, <1>4, <1>5 DEF World, Owner, SetGrant, Reactivate, FinalCompliance, GateChanges

\* Each provider receives the content version at most once, and the engine's
\* word about it is final and true.
THEOREM PublicationDeliversOnce == ASSUME Exclusive PROVE Spec => DeliversOnce
<1>1. TypeOK /\ TypeOK' /\ Inv /\ TruthInv /\ TruthInv' /\ [Next]_vars
        => [Once!Next]_<<AbstractOutcome, AbstractItems>>
  <2>1. UNCHANGED vars => UNCHANGED <<AbstractOutcome, AbstractItems>>
    BY DEF vars, AbstractOutcome, AbstractItems, Items
  <2>2. QED
    BY <2>1, OnceInvocation, OnceWorld DEF Next
<1>2. QED
  BY <1>1, OnceInit, TypeCorrect, InvInvariant, TruthInvariant, PTL
     DEF Spec, DeliversOnce, Once!Spec, AbstractOutcome, AbstractItems

=============================================================================
