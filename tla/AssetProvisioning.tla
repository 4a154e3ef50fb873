-------------------------- MODULE AssetProvisioning --------------------------
(***************************************************************************)
(* The pictures of one PRODUCED content version: runAssetProvisioning      *)
(* finds and attaches them, runRightsVerification decides on each, and     *)
(* runMediaProduction renders what is attached.                            *)
(*                                                                         *)
(* runAssetProvisioning awaits the provider between its look at what is    *)
(* attached and its transaction, and "may be invoked directly by any       *)
(* caller", so several invocations run at once; rights and media are the   *)
(* steps of one engine, synchronous up to their transactions.  A picture   *)
(* is what the provider delivers: a page and the bytes behind it.  Files   *)
(* that were downloaded and never attached are not state of this model.    *)
(***************************************************************************)
EXTENDS Pictures

CONSTANTS
  Process,    \* concurrent invocations of runAssetProvisioning
  QueryCount, \* how many queries each scene may make
  Deliveries, \* what the provider may deliver: scene, number of the query, pages
              \* excluded, picture
  FirstFailures, \* how the first query may fail
  HasVisualContext, \* there is a query to make for the video
  Content,    \* checksum of the bytes behind a page
  Licensed,   \* pictures with an origin and an approved license
  Relevance,  \* SCENE_RELEVANCE
  RetryCap,   \* STAGE_RETRY_CAP
  MaxPolicy,  \* bound: versions of the rights policy
  MaxMishap   \* bound: crashes, outages, files damaged or lost

\* The searches of a version are those that module Pictures derives.
ASSUME AssetAssumption ==
  /\ PlanningIsSound /\ PicturesAreSound
  /\ QueryCount = [s \in DOMAIN Plan |-> Len(QueriesFor(s))]
  /\ Deliveries = DeliveriesOfVersion
  /\ FirstFailures = FailuresOfFirst
  /\ HasVisualContext = (VideoQuery # <<>>)
  /\ QueryCount \in Seq(Nat) \ {<<>>}
  /\ Deliveries \subseteq (DOMAIN QueryCount) \X Nat \X (SUBSET Picture) \X Picture
  /\ Licensed \subseteq Picture
  /\ {RetryCap, MaxPolicy} \subseteq Nat \ {0}
  /\ {Relevance, HasVisualContext} \subseteq BOOLEAN
  /\ MaxMishap \in Nat

Scenes == Len(QueryCount)

\* An assets row with its asset_usages row; who attached it is not a column.
Asset == [pic : Picture, scene : 1..Scenes, by : Process]
Status == {"UNVERIFIED", "VERIFIED", "DISPUTED"}
Decision == {"VERIFIED", "NOT_VERIFIED", "DISPUTED"}

VARIABLES
  rows,      \* attached assets
  claimed,   \* those whose usage row carries the provisioning claim
  status,    \* assets.verification_status
  decisions, \* asset_verifications: asset, policy version, decision
  file,      \* the file at assets.location
  policy,    \* POLICY_VERSION of the deployed code
  retry,     \* attempts of (ASSET_PROVISIONING, content version)
  call,      \* what each invocation is doing
  todo,      \* assets the rights run in progress has selected and not decided
  render,    \* assets the render in progress is made of
  artifact,  \* assets the media artifact was made of
  mishaps

engine == <<todo, render, artifact>>
rights == <<status, decisions, policy>>
vars == <<rows, claimed, file, rights, retry, call, engine, mishaps>>

Call == [pc : {"idle", "first", "more"}, scene : 1..Scenes, tries : Nat, refused : SUBSET Picture]
At(pc, s, n, refused) == [pc |-> pc, scene |-> s, tries |-> n, refused |-> refused]
Idle == At("idle", 1, 0, {})

TypeOK ==
  /\ claimed \subseteq rows /\ rows \subseteq Asset
  /\ status \in [Asset -> Status]
  /\ decisions \subseteq Asset \X (1..MaxPolicy) \X Decision
  /\ file \in [Asset -> {"intact", "damaged", "lost"}]
  /\ policy \in 1..MaxPolicy
  /\ retry \in 0..RetryCap
  /\ call \in [Process -> Call]
  /\ todo \subseteq rows /\ render \subseteq rows /\ artifact \subseteq rows
  /\ mishaps \in 0..MaxMishap

Init ==
  /\ rows = {} /\ claimed = {}
  /\ status = [a \in Asset |-> "UNVERIFIED"]
  /\ decisions = {}
  /\ file = [a \in Asset |-> "intact"]
  /\ policy = 1
  /\ retry = 0
  /\ call = [p \in Process |-> Idle]
  /\ todo = {} /\ render = {} /\ artifact = {}
  /\ mishaps = 0

-----------------------------------------------------------------------------
(* runAssetProvisioning: the first scene.                                  *)

Return(p) == call' = [call EXCEPT ![p] = Idle]
\* The next query of the same scene.
Again(p, refused) == call' = [call EXCEPT ![p] = At(@.pc, @.scene, @.tries + 1, refused)]
IsQuarantined == retry = RetryCap
\* Mutant: the failure is logged and the attempt is not recorded.
RecordNothing == retry' = retry
\* recordFailedAttempt: a quarantined item accrues no further attempt.
RecordFailedAttempt == retry' = IF IsQuarantined THEN retry ELSE retry + 1
Mishap == mishaps < MaxMishap /\ mishaps' = mishaps + 1

\* Nothing is asked of the provider once a picture is attached.
Invoke(p) ==
  /\ call[p].pc = "idle"
  /\ ~IsQuarantined
  /\ rows = {}
  /\ HasVisualContext
  /\ call' = [call EXCEPT ![p] = At("first", 1, 0, {})]
  /\ UNCHANGED <<rows, claimed, file, rights, retry, engine, mishaps>>

\* The next query of the scene; the last one has been made when there is none.
Asking(p) == call[p].tries < QueryCount[call[p].scene]
Found(p, excluded) ==
  {pic \in Picture : <<call[p].scene, call[p].tries + 1, excluded, pic>> \in Deliveries}

\* failWith: the first query finds no picture or an invalid one, for a reason of
\* this item; or the relevance check accepts none, after every query of the scene.
FailAttempt(p) ==
  /\ call[p].pc = "first"
  /\ \/ ~Asking(p)
     \/ call[p].tries = 0 /\ (FirstFailures \cap Transient # {} \/ Found(p, {}) # {})
  /\ RecordFailedAttempt
  /\ Return(p)
  /\ UNCHANGED <<rows, claimed, file, rights, engine, mishaps>>

\* The provider refuses, throws or is not configured, or nothing can be scored:
\* logged, and no attempt is recorded.
FailOutside(p) ==
  /\ call[p].pc = "first" /\ Asking(p)
  /\ \/ call[p].tries = 0 /\ FirstFailures \ Transient # {}
     \/ Relevance /\ Found(p, call[p].refused) # {}
  /\ Mishap
  /\ Return(p)
  /\ UNCHANGED <<rows, claimed, file, rights, retry, engine>>

\* The picture does not fit the scene: its page is not asked for again.
RefuseFirst(p) ==
  /\ call[p].pc = "first" /\ Asking(p)
  /\ Relevance
  /\ \E pics \in {{pic} : pic \in Found(p, call[p].refused)} \cup (IF call[p].tries = 0 THEN {} ELSE {{}}) :
       Again(p, call[p].refused \cup pics)
  /\ UNCHANGED <<rows, claimed, file, rights, retry, engine, mishaps>>

\* The scenes after s that have a query of their own to make.
Later(s) == {t \in s + 1..Scenes : QueryCount[t] > 0}
ToScene(p, s, refused) ==
  IF Later(s) = {} THEN Return(p)
  ELSE \E t \in Later(s) :
         /\ \A u \in Later(s) : t <= u
         /\ call' = [call EXCEPT ![p] = At("more", t, 0, refused)]

New(p, pic, s) == [pic |-> pic, scene |-> s, by |-> p]
\* Mutant: the transaction does not look for a claim again.
NeverRaced == FALSE
Raced == claimed # {}

\* The transaction: another invocation's claim wins, and what was fetched is dropped.
LoseRace(p) ==
  /\ call[p].pc = "first" /\ Asking(p)
  /\ Found(p, call[p].refused) # {}
  /\ Raced
  /\ Return(p)
  /\ UNCHANGED <<rows, claimed, file, rights, retry, engine, mishaps>>
CommitFirst(p) ==
  /\ call[p].pc = "first" /\ Asking(p)
  /\ ~Raced
  /\ \E pic \in Found(p, call[p].refused) :
       /\ rows' = rows \cup {New(p, pic, 1)}
       /\ claimed' = claimed \cup {New(p, pic, 1)}
  /\ ToScene(p, 1, {})
  /\ UNCHANGED <<file, rights, retry, engine, mishaps>>

-----------------------------------------------------------------------------
(* provisionAdditionalScenes: best effort, one query at a time.            *)

Mine(p) == {a \in rows : a.by = p}
\* assetFingerprints of what this invocation has attached.
Seen(p, pic) == Content[pic] \in {Content[a.pic] : a \in Mine(p)}
\* The candidate screen leaves out the pages attached or refused so far.
Offered(p) == Found(p, {a.pic : a \in Mine(p)} \cup call[p].refused)

AttachScene(p) ==
  /\ call[p].pc = "more"
  /\ \E pic \in Offered(p) :
       /\ ~Seen(p, pic)
       /\ rows' = rows \cup {New(p, pic, call[p].scene)}
  /\ ToScene(p, call[p].scene, call[p].refused)
  /\ UNCHANGED <<claimed, file, rights, retry, engine, mishaps>>

\* Nothing found, an invalid or a duplicate picture, or one that does not fit.
MissScene(p) ==
  /\ call[p].pc = "more"
  /\ \E pics \in {{}} \cup (IF Relevance THEN {{q} : q \in {r \in Offered(p) : ~Seen(p, r)}} ELSE {}) :
       LET refused == call[p].refused \cup pics IN
       IF call[p].tries + 1 < QueryCount[call[p].scene]
       THEN Again(p, refused)
       ELSE ToScene(p, call[p].scene, refused)
  /\ UNCHANGED <<rows, claimed, file, rights, retry, engine, mishaps>>

\* The provider limits the rate, or nothing can be scored: the other scenes are left out.
StopScenes(p) ==
  /\ call[p].pc = "more"
  /\ Return(p)
  /\ UNCHANGED <<rows, claimed, file, rights, retry, engine, mishaps>>

Crash(p) ==
  /\ call[p].pc # "idle"
  /\ Mishap
  /\ Return(p)
  /\ UNCHANGED <<rows, claimed, file, rights, retry, engine>>

-----------------------------------------------------------------------------
(* runRightsVerification.                                                  *)

\* Mutant: a dispute is decided again under the next policy.
EligibleDisputed == {a \in rows : ~\E d \in Decision : <<a, policy, d>> \in decisions}
\* selectEligibleAssets: not DISPUTED, and not decided under this policy version.
Eligible == {a \in rows : status[a] # "DISPUTED" /\ ~\E d \in Decision : <<a, policy, d>> \in decisions}

SelectAssets ==
  /\ todo = {} /\ render = {}
  /\ Eligible # {}
  /\ todo' = Eligible
  /\ UNCHANGED <<rows, claimed, file, rights, retry, call, render, artifact, mishaps>>

\* policy.evaluate: conflicting evidence first, then missing evidence.
Evaluate(a) ==
  IF file[a] = "damaged" THEN "DISPUTED"
  ELSE IF a.pic \notin Licensed \/ file[a] = "lost" THEN "NOT_VERIFIED" ELSE "VERIFIED"

\* Mutant: a decision that does not verify leaves the column as it was.
CacheOnlyPromotes(a, decision) == IF decision = "NOT_VERIFIED" THEN status[a] ELSE decision
\* CACHE_STATUS_FOR_DECISION
CacheStatus(a, decision) == IF decision = "NOT_VERIFIED" THEN "UNVERIFIED" ELSE decision

\* One transaction: the decision row and the status column.
Decide(a) ==
  /\ a \in todo
  /\ decisions' = decisions \cup {<<a, policy, Evaluate(a)>>}
  /\ status' = [status EXCEPT ![a] = CacheStatus(a, Evaluate(a))]
  /\ todo' = todo \ {a}
  /\ UNCHANGED <<rows, claimed, file, policy, retry, call, render, artifact, mishaps>>

-----------------------------------------------------------------------------
(* runMediaProduction, as far as it reads the assets.                      *)

\* Every attached asset is VERIFIED, its bytes are those declared, and the files are there.
BeginRender ==
  /\ todo = {} /\ render = {} /\ artifact = {}
  /\ rows # {}
  /\ \A a \in rows : status[a] \notin {"DISPUTED", "UNVERIFIED"} /\ file[a] = "intact"
  /\ render' = rows
  /\ UNCHANGED <<rows, claimed, file, rights, retry, call, todo, artifact, mishaps>>

CommitRender ==
  /\ render # {}
  /\ artifact' = render
  /\ render' = {}
  /\ UNCHANGED <<rows, claimed, file, rights, retry, call, todo, mishaps>>

\* A render fails, or the engine dies in a rights run or a render.
EngineStops ==
  /\ todo # {} \/ render # {}
  /\ Mishap
  /\ todo' = {} /\ render' = {}
  /\ UNCHANGED <<rows, claimed, file, rights, retry, call, artifact>>

\* A release with another policy version, between two runs.
Deploy ==
  /\ todo = {} /\ render = {}
  /\ policy < MaxPolicy
  /\ policy' = policy + 1
  /\ UNCHANGED <<rows, claimed, file, status, decisions, retry, call, engine, mishaps>>

\* A file changes or disappears; the cached directory may bring it back.
Disturb(a, now) ==
  /\ a \in rows
  /\ file[a] # now
  /\ IF now = "intact" THEN UNCHANGED mishaps ELSE Mishap
  /\ file' = [file EXCEPT ![a] = now]
  /\ UNCHANGED <<rows, claimed, rights, retry, call, engine>>

Provision(p) ==
  \/ Invoke(p) \/ FailAttempt(p) \/ RefuseFirst(p) \/ LoseRace(p) \/ CommitFirst(p)
  \/ AttachScene(p) \/ MissScene(p) \/ StopScenes(p)
Verify == SelectAssets \/ \E a \in Asset : Decide(a)

Next ==
  \/ \E p \in Process : Provision(p) \/ FailOutside(p) \/ Crash(p)
  \/ Verify \/ BeginRender \/ CommitRender \/ EngineStops \/ Deploy
  \/ \E a \in Asset, now \in {"intact", "damaged", "lost"} : Disturb(a, now)

\* The runner selects a PRODUCED version in every sweep, and awaits each stage.
Spec == Init /\ [][Next]_vars /\ WF_vars(Verify) /\ \A p \in Process : WF_vars(Provision(p))

-----------------------------------------------------------------------------
(* Properties.                                                             *)

\* Whatever invocations overlap and wherever one dies, the attached pictures are
\* those of the single invocation that took the claim: one claim, no scene
\* illustrated twice and no two pictures with the same bytes
\* (runAssetProvisioning and provisionAdditionalScenes, migration 0014).
OneInvocationProvisions ==
  /\ Cardinality(claimed) <= 1
  /\ \A a \in rows : \E c \in claimed : a.by = c.by
  /\ \A a, b \in rows : a.scene = b.scene \/ Content[a.pic] = Content[b.pic] => a = b

Latest(a) ==
  {e \in decisions : e[1] = a /\ \A f \in decisions : f[1] = a => f[2] <= e[2]}

\* assets.verification_status says what the last decision says, whichever policy
\* versions have come and gone, and the media artifact was made only of pictures
\* a VERIFIED decision stands for (runRightsVerification, runMediaProduction).
RightsBeforeRender ==
  /\ \A a \in rows :
       \/ Latest(a) = {} /\ status[a] = "UNVERIFIED"
       \/ \E e \in Latest(a) : /\ Latest(a) = {e}
                               /\ status[a] = "VERIFIED" <=> e[3] = "VERIFIED"
                               /\ status[a] = "DISPUTED" <=> e[3] = "DISPUTED"
  /\ \A a \in render \cup artifact : \E v \in 1..MaxPolicy : <<a, v, "VERIFIED">> \in decisions

\* A disputed picture stays disputed under every later policy: the automated
\* stage never resolves a dispute (selectEligibleAssets).
DisputeStands == [][\A a \in Asset : status[a] = "DISPUTED" => status'[a] = "DISPUTED"]_vars

\* While outages are finite, a version gets its first picture or is quarantined
\* after its failed attempts; it is never asked for for ever.
Provisioned == (rows = {}) ~> (rows # {} \/ IsQuarantined)
=============================================================================
