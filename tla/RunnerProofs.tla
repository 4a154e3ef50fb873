---------------------------- MODULE RunnerProofs ----------------------------
(***************************************************************************)
(* Proofs about module Runner, for any items, stages, providers, caps and  *)
(* mishaps: what a run owes to an item it has failed, and what it may not  *)
(* do to it a second time.                                                 *)
(***************************************************************************)
EXTENDS Runner, SequenceTheorems, TLAPS

NoRetryStages == {"rights-verification", "final-compliance"}
Counting == Text \cup {"asset-provisioning"}

\* What is paced is what has failed; what is still to be called has not failed
\* in this run, unless its stage is never paced.
PacingInv ==
  /\ consumed = failed
  /\ \A k \in failed : k[1] \notin NoRetryStages
  /\ todo \cap failed = {}

\* A stage that is still to be called, and that does not look again, has an
\* attempt left.
AttemptsLeft ==
  \A s \in Counting, i \in Item : <<s, i>> \in todo => item[i].retry[s] < RetryCap

RunnerInv == TypeOK /\ PacingInv /\ AttemptsLeft

-----------------------------------------------------------------------------
(* The sets of names.                                                      *)

\* A sequence that is two put together has the elements of both.
LEMMA ElementsOfBoth ==
  ASSUME NEW S, NEW s \in Seq(S), NEW t \in Seq(S)
  PROVE  ToSet(s \o t) = ToSet(s) \cup ToSet(t)
<1>1. /\ DOMAIN s = 1..Len(s) /\ Len(s) \in Nat /\ DOMAIN t = 1..Len(t) /\ Len(t) \in Nat
      /\ DOMAIN (s \o t) = 1..(Len(s) + Len(t))
  BY ConcatProperties
<1>2. \A n \in 1..(Len(s) + Len(t)) : (s \o t)[n] = IF n <= Len(s) THEN s[n] ELSE t[n - Len(s)]
  BY ConcatProperties
<1>3. ASSUME NEW n \in DOMAIN (s \o t) PROVE (s \o t)[n] \in ToSet(s) \cup ToSet(t)
  <2>1. CASE n <= Len(s)
    BY <1>1, <1>2, <2>1 DEF ToSet
  <2>2. CASE n > Len(s)
    <3>1. n - Len(s) \in DOMAIN t /\ (s \o t)[n] = t[n - Len(s)]
      BY <1>1, <1>2, <2>2
    <3> QED BY <3>1 DEF ToSet
  <2> QED BY <1>1, <2>1, <2>2
<1>4. ASSUME NEW n \in DOMAIN s PROVE s[n] \in ToSet(s \o t)
  <2>1. n \in DOMAIN (s \o t) /\ (s \o t)[n] = s[n]
    BY <1>1, <1>2
  <2> QED BY <2>1 DEF ToSet
<1>5. ASSUME NEW n \in DOMAIN t PROVE t[n] \in ToSet(s \o t)
  <2>1. n + Len(s) \in DOMAIN (s \o t) /\ (s \o t)[n + Len(s)] = t[n]
    BY <1>1, <1>2
  <2> QED BY <2>1 DEF ToSet
<1> QED BY <1>3, <1>4, <1>5 DEF ToSet

\* The five stages between the text stages and publication.
LEMMA FinishingIs ==
  ToSet(Finishing) = {"asset-provisioning", "rights-verification", "media-production",
                      "short-form-production", "final-compliance"}
<1>1. DOMAIN Finishing = 1..5
  BY DEF Finishing
<1>2. \A n \in 1..5 : n = 1 \/ n = 2 \/ n = 3 \/ n = 4 \/ n = 5
  OBVIOUS
<1>3. /\ Finishing[1] = "asset-provisioning" /\ Finishing[2] = "rights-verification"
      /\ Finishing[3] = "media-production" /\ Finishing[4] = "short-form-production"
      /\ Finishing[5] = "final-compliance"
  BY DEF Finishing
<1>4. ToSet(Finishing) = {Finishing[1], Finishing[2], Finishing[3], Finishing[4], Finishing[5]}
  BY <1>1, <1>2 DEF ToSet
<1> QED BY <1>3, <1>4

\* The stages are the text stages, the five between, and the providers.
LEMMA StagesAre == Stage = Text \cup ToSet(Finishing) \cup Provider
<1> DEFINE names == Text \cup ToSet(Finishing) \cup Provider
<1>1. Line \in Seq(names) /\ Providers \in Seq(names)
  BY RunnerAssumption DEF RunnerAssumption
<1>2. Finishing \in Seq(names)
  BY FinishingIs DEF Finishing
<1>3. PICK first : first = Line \o Finishing
  OBVIOUS
<1> HIDE DEF names
<1>4. first \in Seq(names)
  BY <1>1, <1>2, <1>3, ConcatProperties
<1>5. ToSet(first) = Text \cup ToSet(Finishing)
  BY <1>1, <1>2, <1>3, ElementsOfBoth DEF Text
<1>6. ToSet(first \o Providers) = ToSet(first) \cup Provider
  BY <1>1, <1>4, ElementsOfBoth DEF Provider
<1>7. Stages = first \o Providers
  BY <1>3 DEF Stages
<1> QED BY <1>5, <1>6, <1>7 DEF Stage

\* Every stage is of one kind only.
LEMMA StageKinds ==
  ASSUME NEW s \in Stage
  PROVE  /\ s \in Text \/ s \in ToSet(Finishing) \/ s \in Provider
         /\ s \in Text => s \notin ToSet(Finishing) \cup Provider
         /\ s \in Provider => s \notin ToSet(Finishing)
         /\ Text \cup {"asset-provisioning"} \subseteq Counter /\ Provider \subseteq Counter
         /\ s \in Text => s \in State
  BY StagesAre, RunnerAssumption DEF RunnerAssumption, Counter, State

-----------------------------------------------------------------------------
(* What a stage leaves of an item.                                         *)

\* What a stage may do to an item it is called for: it counts an attempt in its
\* own counter alone, and only as a failure that paces.
IsResult(s, it, r) ==
  /\ r.to \in Record
  /\ r.failed \in BOOLEAN /\ r.paces = r.failed
  /\ s \in NoRetryStages => ~r.failed
  /\ \A c \in Counter : c # s => r.to.retry[c] = it.retry[c]

\* A record with one field replaced is a record.
LEMMA FieldsOfRecord ==
  ASSUME NEW it \in Record
  PROVE  /\ \A v \in State : [it EXCEPT !.state = v] \in Record
         /\ \A s \in Stage : [it EXCEPT !.logged = @ \cup {s}] \in Record
         /\ [it EXCEPT !.assets = TRUE] \in Record
         /\ [it EXCEPT !.media = TRUE] \in Record
         /\ [it EXCEPT !.short = TRUE] \in Record
         /\ \A f \in Format : [it EXCEPT !.format = f] \in Record
  BY DEF Record

\* The same for a row of publications, with the state or without it.
LEMMA RowsOfRecord ==
  ASSUME NEW it \in Record, NEW p \in Provider, NEW v \in RowStatus
  PROVE  /\ [it EXCEPT !.row[p] = v] \in Record
         /\ \A w \in State : [it EXCEPT !.row[p] = v, !.state = w] \in Record
  BY DEF Record

\* One more attempt, where there is one left.
LEMMA RetryOfRecord ==
  ASSUME NEW it \in Record, NEW c \in Counter, it.retry[c] < RetryCap
  PROVE  [it EXCEPT !.retry[c] = @ + 1] \in Record
<1>1. it.retry[c] + 1 \in 0..RetryCap
  BY RunnerAssumption DEF RunnerAssumption, Record
<1> QED BY <1>1 DEF Record

\* A result that is clean or refused, or paces without counting, and leaves the
\* counters.
LEMMA PlainResult ==
  ASSUME NEW s, NEW it, NEW to \in Record, to.retry = it.retry
  PROVE  /\ IsResult(s, it, Clean(to)) /\ IsResult(s, it, Refused(to))
         /\ s \notin NoRetryStages => /\ IsResult(s, it, Pacing(to))
                                     /\ IsResult(s, it, [Pacing(to) EXCEPT !.refused = TRUE])
  BY DEF IsResult, Clean, Refused, Pacing

\* A result that counts an attempt.
LEMMA CountedResult ==
  ASSUME NEW s \in Counter, NEW it, NEW to \in Record, to.retry = it.retry,
         s \notin NoRetryStages, to.retry[s] < RetryCap
  PROVE  IsResult(s, it, Recorded(to, s))
<1>1. [to EXCEPT !.retry[s] = @ + 1] \in Record
  BY RetryOfRecord
<1>2. \A c \in Counter : c # s => [to EXCEPT !.retry[s] = @ + 1].retry[c] = to.retry[c]
  BY DEF Record
<1> QED BY <1>1, <1>2 DEF IsResult, Recorded, Pacing

\* The stage after a text stage is one, or the item is produced.
LEMMA AfterIsState == ASSUME NEW s \in Text PROVE After(s) \in State
<1> DEFINE n == CHOOSE m \in DOMAIN Line : Line[m] = s
<1>1. \E m \in DOMAIN Line : Line[m] = s
  BY DEF Text, ToSet
<1>2. n \in DOMAIN Line
  BY <1>1
<1>3. Line \in Seq(Text)
  BY RunnerAssumption DEF RunnerAssumption
<1> HIDE DEF n
<1>4. n # Len(Line) => Line[n + 1] \in Text
  BY <1>2, <1>3
<1>5. After(s) = IF n = Len(Line) THEN "PRODUCED" ELSE Line[n + 1]
  BY DEF After, n
<1> QED BY <1>4, <1>5 DEF State

\* A text stage moves the item on or out, excludes it, or counts an attempt.
LEMMA TextIsResult ==
  ASSUME NEW s \in Text, NEW it \in Record, it.retry[s] < RetryCap, NEW r \in TextResults(s, it)
  PROVE  IsResult(s, it, r)
<1>1. s \in Stage /\ s \in Counter /\ s \notin NoRetryStages
  BY StagesAre, FinishingIs, StageKinds, RunnerAssumption DEF RunnerAssumption, NoRetryStages, Counter
<1>2. \A v \in State : IsResult(s, it, Clean([it EXCEPT !.state = v]))
  <2> TAKE v \in State
  <2>1. [it EXCEPT !.state = v] \in Record /\ [it EXCEPT !.state = v].retry = it.retry
    BY FieldsOfRecord DEF Record
  <2> QED BY <2>1, PlainResult
<1>3. IsResult(s, it, Clean([it EXCEPT !.logged = @ \cup {s}]))
  <2>1. [it EXCEPT !.logged = @ \cup {s}] \in Record /\ [it EXCEPT !.logged = @ \cup {s}].retry = it.retry
    BY <1>1, FieldsOfRecord DEF Record
  <2> QED BY <2>1, PlainResult
<1>4. IsResult(s, it, Recorded(it, s))
  BY <1>1, CountedResult
<1>5. \/ \E v \in State : r = Clean([it EXCEPT !.state = v])
      \/ r = Clean([it EXCEPT !.logged = @ \cup {s}])
      \/ r = Recorded(it, s) \/ r = Refused(it)
  BY AfterIsState DEF TextResults, State
<1> QED BY <1>2, <1>3, <1>4, <1>5, PlainResult

\* Provisioning attaches a picture, or counts an attempt.
LEMMA AssetIsResult ==
  ASSUME NEW it \in Record, it.retry["asset-provisioning"] < RetryCap, NEW r \in AssetResults(it)
  PROVE  IsResult("asset-provisioning", it, r)
<1>1. "asset-provisioning" \in Counter /\ "asset-provisioning" \notin NoRetryStages
  BY DEF NoRetryStages, Counter
<1>2. [it EXCEPT !.assets = TRUE] \in Record /\ [it EXCEPT !.assets = TRUE].retry = it.retry
  BY FieldsOfRecord DEF Record
<1>3. IsResult("asset-provisioning", it, Recorded(it, "asset-provisioning"))
  BY <1>1, CountedResult
<1>4. \/ r = Clean(it) \/ r = Clean([it EXCEPT !.assets = TRUE])
      \/ r = Recorded(it, "asset-provisioning") \/ r = Refused(it)
  BY DEF AssetResults
<1>5. IsResult("asset-provisioning", it, Clean(it)) /\ IsResult("asset-provisioning", it, Refused(it))
  BY PlainResult
<1>6. IsResult("asset-provisioning", it, Clean([it EXCEPT !.assets = TRUE]))
  BY <1>2, PlainResult
<1> QED BY <1>3, <1>4, <1>5, <1>6

\* Rights, media and compliance count nothing.
LEMMA RightsIsResult ==
  ASSUME "rights-verification" \in Stage, NEW it \in Record, NEW r \in RightsResults(it)
  PROVE  IsResult("rights-verification", it, r)
<1> DEFINE to == [it EXCEPT !.logged = @ \cup {"rights-verification"}]
<1>1. to \in Record /\ to.retry = it.retry
  BY FieldsOfRecord DEF Record
<1>2. r = Clean(it) \/ r = Clean(to)
  BY DEF RightsResults
<1>3. IsResult("rights-verification", it, Clean(it)) /\ IsResult("rights-verification", it, Clean(to))
  BY <1>1, PlainResult
<1> QED BY <1>2, <1>3

LEMMA MediaIsResult ==
  ASSUME "media-production" \in Stage, NEW it \in Record, NEW r \in MediaResults(it)
  PROVE  IsResult("media-production", it, r)
<1> DEFINE to == [it EXCEPT !.logged = @ \cup {"media-production"}]
           shown == [it EXCEPT !.media = TRUE]
<1>1. to \in Record /\ to.retry = it.retry /\ shown \in Record /\ shown.retry = it.retry
  BY FieldsOfRecord DEF Record
<1>2. r = Clean(it) \/ r = Clean(to) \/ r = Clean(shown) \/ r = Refused(it)
  BY DEF MediaResults
<1>3. IsResult("media-production", it, Clean(it)) /\ IsResult("media-production", it, Refused(it))
  BY PlainResult
<1>4. IsResult("media-production", it, Clean(to)) /\ IsResult("media-production", it, Clean(shown))
  BY <1>1, PlainResult
<1> QED BY <1>2, <1>3, <1>4

LEMMA ComplianceIsResult ==
  ASSUME NEW it \in Record, NEW r \in ComplianceResults(it)
  PROVE  IsResult("final-compliance", it, r)
<1>1. r = Refused(it) \/ \E v \in State : r = Clean([it EXCEPT !.state = v])
  BY DEF ComplianceResults, State
<1>2. \A v \in State : [it EXCEPT !.state = v] \in Record /\ [it EXCEPT !.state = v].retry = it.retry
  BY FieldsOfRecord DEF Record
<1> QED BY <1>1, <1>2, PlainResult

\* The format decision is a record with the counters it had.
LEMMA DecidedIsRecord ==
  ASSUME NEW it \in Record, NEW d \in Decided(it)
  PROVE  d \in Record /\ d.retry = it.retry
<1>1. d = it \/ \E f \in Format : d = [it EXCEPT !.format = f]
  BY DEF Decided
<1>2. ASSUME NEW f \in Format, d = [it EXCEPT !.format = f] PROVE d \in Record /\ d.retry = it.retry
  <2>1. [it EXCEPT !.format = f] \in Record
    BY FieldsOfRecord
  <2>2. [it EXCEPT !.format = f].retry = it.retry
    BY DEF Record
  <2> QED BY <1>2, <2>1, <2>2
<1> QED BY <1>1, <1>2

LEMMA ShortIsResult ==
  ASSUME NEW it \in Record, NEW r \in ShortResults(it)
  PROVE  IsResult("short-form-production", it, r)
<1>1. PICK d \in Decided(it) : \/ r = Clean(d) \/ r = Clean([d EXCEPT !.short = TRUE])
                               \/ r = Refused(d) \/ r = [Pacing(d) EXCEPT !.refused = TRUE]
  BY DEF ShortResults
<1>2. d \in Record /\ d.retry = it.retry
  BY DecidedIsRecord
<1>3. [d EXCEPT !.short = TRUE] \in Record /\ [d EXCEPT !.short = TRUE].retry = it.retry
  BY <1>2, FieldsOfRecord DEF Record
<1>4. "short-form-production" \notin NoRetryStages
  BY DEF NoRetryStages
<1>5. /\ IsResult("short-form-production", it, Clean(d))
      /\ IsResult("short-form-production", it, Refused(d))
      /\ IsResult("short-form-production", it, [Pacing(d) EXCEPT !.refused = TRUE])
  BY <1>2, <1>4, PlainResult
<1>6. IsResult("short-form-production", it, Clean([d EXCEPT !.short = TRUE]))
  BY <1>2, <1>3, PlainResult
<1> QED BY <1>1, <1>5, <1>6

\* A publication changes one row, and counts an attempt only if it reached its
\* provider, which it does only with an attempt left.
LEMMA PublicationIsResult ==
  ASSUME NEW p \in Provider, NEW it \in Record, NEW r \in PublicationResults(p, it)
  PROVE  IsResult(p, it, r)
<1>1. p \in Counter /\ p \notin NoRetryStages
  BY StageKinds, StagesAre, FinishingIs DEF NoRetryStages
<1>2. \A v \in RowStatus : [it EXCEPT !.row[p] = v] \in Record /\ [it EXCEPT !.row[p] = v].retry = it.retry
  BY RowsOfRecord DEF Record
<1>3. [it EXCEPT !.row[p] = "PUBLISHED", !.state = "PUBLISHED"] \in Record
      /\ [it EXCEPT !.row[p] = "PUBLISHED", !.state = "PUBLISHED"].retry = it.retry
  BY RowsOfRecord DEF Record, RowStatus, State
<1>4. RowsAllow(it, p) => it.retry[p] < RetryCap
  BY <1>1, RunnerAssumption DEF RunnerAssumption, RowsAllow, Quarantined, Record
<1>5. \/ r = Refused(it)
      \/ \E v \in RowStatus : r = Clean([it EXCEPT !.row[p] = v])
      \/ r = Clean([it EXCEPT !.row[p] = "PUBLISHED", !.state = "PUBLISHED"])
      \/ RowsAllow(it, p) /\ r = Recorded([it EXCEPT !.row[p] = "FAILED"], p)
  BY DEF PublicationResults, RowStatus
<1>6. CASE RowsAllow(it, p) /\ r = Recorded([it EXCEPT !.row[p] = "FAILED"], p)
  <2>1. [it EXCEPT !.row[p] = "FAILED"] \in Record /\ [it EXCEPT !.row[p] = "FAILED"].retry = it.retry
    BY <1>2 DEF RowStatus
  <2> QED BY <1>1, <1>4, <1>6, <2>1, CountedResult
<1>7. IsResult(p, it, Refused(it))
  BY PlainResult
<1>8. \A v \in RowStatus : IsResult(p, it, Clean([it EXCEPT !.row[p] = v]))
  BY <1>2, PlainResult
<1>9. IsResult(p, it, Clean([it EXCEPT !.row[p] = "PUBLISHED", !.state = "PUBLISHED"]))
  BY <1>3, PlainResult
<1> QED BY <1>5, <1>6, <1>7, <1>8, <1>9

\* Whatever a stage is called for, it leaves a result.
LEMMA ResultsAreResults ==
  ASSUME NEW s \in Stage, NEW it \in Record, s \in Counting => it.retry[s] < RetryCap,
         NEW r \in Results(s, it)
  PROVE  IsResult(s, it, r)
<1>1. CASE s \in Text
  <2>1. r \in TextResults(s, it)
    BY <1>1, StageKinds, FinishingIs DEF Results
  <2> QED BY <1>1, <2>1, TextIsResult DEF Counting
<1>2. CASE s = "asset-provisioning"
  <2>1. r \in AssetResults(it)
    BY <1>2, StageKinds, FinishingIs DEF Results
  <2> QED BY <1>2, <2>1, AssetIsResult DEF Counting
<1>3. CASE s = "rights-verification"
  <2>1. r \in RightsResults(it)
    BY <1>3, StageKinds, FinishingIs DEF Results
  <2> QED BY <1>3, <2>1, RightsIsResult
<1>4. CASE s = "media-production"
  <2>1. r \in MediaResults(it)
    BY <1>4, StageKinds, FinishingIs DEF Results
  <2> QED BY <1>4, <2>1, MediaIsResult
<1>5. CASE s = "short-form-production"
  <2>1. r \in ShortResults(it)
    BY <1>5, StageKinds, FinishingIs DEF Results
  <2> QED BY <1>5, <2>1, ShortIsResult
<1>6. CASE s = "final-compliance"
  <2>1. r \in ComplianceResults(it)
    BY <1>6, StageKinds, FinishingIs DEF Results
  <2> QED BY <1>6, <2>1, ComplianceIsResult
<1>7. CASE s \in Provider
  <2>1. r \in PublicationResults(s, it)
    BY <1>7, StageKinds, FinishingIs DEF Results
  <2> QED BY <1>7, <2>1, PublicationIsResult
<1> QED BY <1>1, <1>2, <1>3, <1>4, <1>5, <1>6, <1>7, StageKinds, FinishingIs

-----------------------------------------------------------------------------
(* The steps of a run.                                                     *)

\* A call of a stage, by its result.
LEMMA TakeKeeps ==
  ASSUME RunnerInv, NEW s \in Stage, NEW i \in Item, NEW r, IsResult(s, item[i], r), Take(s, i, r)
  PROVE  /\ item' \in [Item -> Record] /\ pc' \in {"off", "sweep", "call"}
         /\ {eligible', todo', consumed', failed'} \subseteq SUBSET (Stage \X Item)
         /\ PacingInv' /\ AttemptsLeft'
<1>1. <<s, i>> \in todo /\ todo' = todo \ {<<s, i>>} /\ item' = [item EXCEPT ![i] = r.to]
      /\ pc' \in {"sweep", "call"} /\ eligible' = eligible
  BY DEF Take, IsNext
<1>2. consumed' = consumed \cup (IF r.paces THEN {<<s, i>>} ELSE {})
      /\ failed' = failed \cup (IF r.failed THEN {<<s, i>>} ELSE {})
  BY DEF Take, RetryKey
<1>3. TypeOK /\ PacingInv /\ AttemptsLeft
  BY DEF RunnerInv
<1>4. item' \in [Item -> Record]
  BY <1>1, <1>3 DEF TypeOK, IsResult
<1>5. {eligible', todo', consumed', failed'} \subseteq SUBSET (Stage \X Item)
  BY <1>1, <1>2, <1>3 DEF TypeOK
<1>6. consumed' = failed'
  BY <1>2, <1>3 DEF PacingInv, IsResult
<1>7. \A k \in failed' : k[1] \notin NoRetryStages
  BY <1>2, <1>3 DEF PacingInv, IsResult
<1>8. todo' \cap failed' = {}
  BY <1>1, <1>2, <1>3 DEF PacingInv
<1>9. ASSUME NEW t \in Counting, NEW j \in Item, <<t, j>> \in todo' PROVE item'[j].retry[t] < RetryCap
  <2>1. <<t, j>> \in todo /\ (t # s \/ j # i) /\ item[j].retry[t] < RetryCap
    BY <1>1, <1>3, <1>9 DEF AttemptsLeft
  <2>2. t \in Counter
    BY DEF Counting, Counter
  <2>3. CASE j = i
    BY <1>1, <1>3, <2>1, <2>2, <2>3 DEF IsResult, TypeOK
  <2>4. CASE j # i
    BY <1>1, <1>3, <2>1, <2>4 DEF TypeOK
  <2> QED BY <2>3, <2>4
<1> QED BY <1>1, <1>4, <1>5, <1>6, <1>7, <1>8, <1>9 DEF PacingInv, AttemptsLeft

\* The next call has an attempt left, if its stage counts on it.
LEMMA CallIsResult ==
  ASSUME RunnerInv, NEW s \in Stage, NEW i \in Item, NEW r \in Results(s, item[i]), Take(s, i, r)
  PROVE  IsResult(s, item[i], r)
<1>1. <<s, i>> \in todo /\ item[i] \in Record
  BY DEF Take, IsNext, RunnerInv, TypeOK
<1>2. s \in Counting => item[i].retry[s] < RetryCap
  BY <1>1 DEF RunnerInv, AttemptsLeft
<1> QED BY <1>1, <1>2, ResultsAreResults

\* A sweep leaves out what is paced, and a stage that counts selects only what
\* has an attempt left.
LEMMA SweepKeeps == ASSUME RunnerInv, Sweep PROVE RunnerInv'
<1>1. TypeOK /\ PacingInv
  BY DEF RunnerInv
<1>2. eligible' = Selection /\ todo' = {k \in Selection : ~Paced(k[1], k[2])}
      /\ pc' \in {"sweep", "call"} /\ UNCHANGED <<item, consumed, failed, mishaps>>
  BY DEF Sweep
<1>3. Selection \subseteq Stage \X Item
  BY DEF Selection
<1>4. TypeOK'
  BY <1>1, <1>2, <1>3 DEF TypeOK
<1>5. ASSUME NEW k \in todo' PROVE k \notin failed
  <2>1. k \in Stage \X Item /\ ~Paced(k[1], k[2]) /\ k = <<k[1], k[2]>>
    BY <1>2, <1>3
  <2>2. k[1] \in NoRetryStages \/ k \notin consumed
    BY <2>1 DEF Paced, RetryKey, NoRetryStages
  <2> QED BY <1>1, <2>2 DEF PacingInv
<1>6. PacingInv'
  BY <1>1, <1>2, <1>5 DEF PacingInv
<1>7. ASSUME NEW s \in Counting, NEW i \in Item, <<s, i>> \in todo' PROVE item[i].retry[s] < RetryCap
  <2>1. s \in Stage /\ Selects(s, item[i])
    BY <1>2, <1>7 DEF Selection
  <2>2. ~Quarantined(item[i], s)
    BY <2>1, StageKinds, FinishingIs DEF Selects, Counting
  <2>3. s \in Counter
    BY DEF Counting, Counter
  <2> QED BY <1>1, <2>2, <2>3, RunnerAssumption DEF RunnerAssumption, Quarantined, TypeOK, Record
<1> QED BY <1>2, <1>4, <1>6, <1>7 DEF RunnerInv, AttemptsLeft

\* A run that ends forgets what it paced.
LEMMA EndKeeps ==
  ASSUME EndRun, item' \in [Item -> Record], mishaps' \in 0..MaxMishap
  PROVE  RunnerInv'
  BY DEF EndRun, RunnerInv, TypeOK, PacingInv, AttemptsLeft

\* A mishap is one more of a bounded number.
LEMMA MishapKeeps == ASSUME TypeOK, Mishap PROVE mishaps' \in 0..MaxMishap
  BY RunnerAssumption DEF RunnerAssumption, TypeOK, Mishap

\* A stage that throws, or a process that dies, leaves a record.
LEMMA AbortKeeps ==
  ASSUME RunnerInv, NEW s \in Stage, NEW i \in Item, Abort(s, i)
  PROVE  RunnerInv'
<1>1. TypeOK /\ EndRun /\ Mishap
  BY DEF RunnerInv, Abort
<1>2. CASE item' = item
  BY <1>1, <1>2, EndKeeps, MishapKeeps DEF TypeOK
<1>3. CASE s \in Provider /\ item' = [item EXCEPT ![i].row[s] = "PENDING"]
  <2>1. item' = [item EXCEPT ![i] = [item[i] EXCEPT !.row[s] = "PENDING"]]
    BY <1>1, <1>3 DEF TypeOK
  <2>2. [item[i] EXCEPT !.row[s] = "PENDING"] \in Record
    BY <1>1, <1>3, RowsOfRecord DEF TypeOK, RowStatus
  <2>3. item' \in [Item -> Record]
    BY <1>1, <2>1, <2>2 DEF TypeOK
  <2> QED BY <1>1, <2>3, EndKeeps, MishapKeeps
<1> QED BY <1>2, <1>3 DEF Abort

LEMMA RunnerInit == Init => RunnerInv
  BY RunnerAssumption DEF RunnerAssumption, Init, RunnerInv, TypeOK, PacingInv, AttemptsLeft

LEMMA RunnerStep == RunnerInv /\ [Next]_vars => RunnerInv'
<1> SUFFICES ASSUME RunnerInv, [Next]_vars PROVE RunnerInv'
  OBVIOUS
<1>1. TypeOK
  BY DEF RunnerInv
<1>2. CASE StartRun
  BY <1>2 DEF StartRun, RunnerInv, TypeOK, PacingInv, AttemptsLeft
<1>3. CASE Stop
  BY <1>1, <1>3, EndKeeps DEF Stop, TypeOK
<1>4. CASE Sweep
  BY <1>4, SweepKeeps
<1>5. ASSUME NEW s \in Stage, NEW i \in Item, Call(s, i) PROVE RunnerInv'
  <2>1. PICK r \in Results(s, item[i]) : Take(s, i, r)
    BY <1>5 DEF Call
  <2>2. mishaps' = mishaps
    BY <1>5 DEF Call
  <2> QED BY <1>1, <2>1, <2>2, CallIsResult, TakeKeeps DEF RunnerInv, TypeOK
<1>6. ASSUME NEW s \in Stage, NEW i \in Item, Abort(s, i) PROVE RunnerInv'
  BY <1>6, AbortKeeps
<1>7. CASE UNCHANGED vars
  BY <1>7 DEF vars, runner, RunnerInv, TypeOK, PacingInv, AttemptsLeft
<1> QED BY <1>2, <1>3, <1>4, <1>5, <1>6, <1>7 DEF Next, Run

LEMMA RunnerInvariant == Spec => []RunnerInv
  BY RunnerInit, RunnerStep, PTL DEF Spec

-----------------------------------------------------------------------------
(* What holds of every run.                                                *)

\* Every reachable state of the runner is well typed: no stage ever counts more
\* attempts of an item than the cap, whatever fails, throws or dies
\* (recordFailedAttempt, the quarantine of every selector).
THEOREM RunnerTypeCorrect == Spec => []TypeOK
<1>1. RunnerInv => TypeOK
  BY DEF RunnerInv
<1> QED BY <1>1, RunnerInvariant, PTL

\* A sweep leaves out only what has failed in this run at the stage that it is
\* left out of, for any stages, items and failures (retryKey, runner.js).
THEOREM TurnsAreGiven == Spec => EveryItemGetsItsTurn
<1>1. RunnerInv /\ [Next]_vars => [pc = "sweep" => eligible' \ todo' \subseteq failed]_vars
  <2> SUFFICES ASSUME RunnerInv, [Next]_vars, pc = "sweep", ~UNCHANGED vars
               PROVE  eligible' \ todo' \subseteq failed
    OBVIOUS
  <2>1. CASE Stop
    BY <2>1 DEF Stop, EndRun
  <2>2. CASE Sweep
    <3>1. \A k \in eligible' \ todo' : k \in Stage \X Item /\ Paced(k[1], k[2])
      BY <2>2 DEF Sweep, Selection
    <3>2. \A k \in Stage \X Item : Paced(k[1], k[2]) => k \in consumed
      BY DEF Paced, RetryKey
    <3> QED BY <3>1, <3>2 DEF RunnerInv, PacingInv
  <2>3. ~StartRun /\ \A s \in Stage, i \in Item : ~Call(s, i) /\ ~Abort(s, i)
    BY DEF StartRun, Call, Abort, Take
  <2> QED BY <2>1, <2>2, <2>3 DEF Next, Run
<1> QED BY <1>1, RunnerInvariant, PTL DEF Spec, EveryItemGetsItsTurn

\* An item that has failed at a stage does not spend another attempt there in
\* the same run, in whatever sweep (ADR-0023).
THEOREM OneAttemptPerRun == Spec => OneFailurePerRun
<1>1. ASSUME RunnerInv, NEW s \in Stage, NEW j \in Item, NEW r, Take(s, j, r), IsResult(s, item[j], r),
             NEW i \in Item, NEW c \in Counter, item'[i].retry[c] > item[i].retry[c]
      PROVE  <<c, i>> \notin failed
  <2>1. item' = [item EXCEPT ![j] = r.to] /\ <<s, j>> \in todo /\ item \in [Item -> Record]
    BY <1>1 DEF Take, IsNext, RunnerInv, TypeOK
  <2>2. item[i].retry[c] \in Int
    BY <2>1 DEF Record
  <2>3. i = j /\ c = s
    BY <1>1, <2>1, <2>2 DEF IsResult
  <2>4. <<s, j>> \notin failed
    BY <1>1, <2>1 DEF RunnerInv, PacingInv
  <2> QED BY <2>3, <2>4
<1>2. ASSUME RunnerInv, NEW i \in Item, NEW c \in Counter, item' = item
      PROVE  ~(item'[i].retry[c] > item[i].retry[c])
  BY <1>2 DEF RunnerInv, TypeOK, Record
<1>3. ASSUME RunnerInv, NEW s \in Stage, NEW j \in Item, Abort(s, j), NEW i \in Item, NEW c \in Counter
      PROVE  ~(item'[i].retry[c] > item[i].retry[c])
  <2>1. item \in [Item -> Record]
    BY <1>3 DEF RunnerInv, TypeOK
  <2>2. item'[i].retry = item[i].retry
    BY <1>3, <2>1 DEF Abort, Record
  <2>3. item[i].retry[c] \in Int
    BY <2>1 DEF Record
  <2> QED BY <2>2, <2>3
<1>4. RunnerInv /\ [Next]_vars =>
        [\A i \in Item, c \in Counter : item'[i].retry[c] > item[i].retry[c] => <<c, i>> \notin failed]_vars
  <2> SUFFICES ASSUME RunnerInv, Next, NEW i \in Item, NEW c \in Counter,
                      item'[i].retry[c] > item[i].retry[c]
               PROVE  <<c, i>> \notin failed
    OBVIOUS
  <2>1. CASE StartRun \/ Stop \/ Sweep
    BY <1>2, <2>1 DEF StartRun, Stop, Sweep
  <2>2. ASSUME NEW s \in Stage, NEW j \in Item, Call(s, j) PROVE <<c, i>> \notin failed
    <3>1. PICK r \in Results(s, item[j]) : Take(s, j, r)
      BY <2>2 DEF Call
    <3>2. IsResult(s, item[j], r)
      BY <3>1, CallIsResult
    <3> QED BY <1>1, <3>1, <3>2
  <2>3. ASSUME NEW s \in Stage, NEW j \in Item, Abort(s, j) PROVE FALSE
    BY <1>3, <2>3
  <2> QED BY <2>1, <2>2, <2>3 DEF Next, Run
<1> QED BY <1>4, RunnerInvariant, PTL DEF Spec, OneFailurePerRun
=============================================================================
