---------------------------- MODULE ProviderProofs ----------------------------
(***************************************************************************)
(* Proofs about what stands between the stages and the providers they ask: *)
(* module AssetProvisioning, for any script, plan, provider, number of     *)
(* invocations, policy versions and mishaps, and module LlmRouter, for any *)
(* callers, providers, intervals, costs and limits.                        *)
(***************************************************************************)
EXTENDS AssetProvisioning, LlmRouter, FiniteSetTheorems, TLAPS

-----------------------------------------------------------------------------
(* AssetProvisioning: its inductive invariant.                             *)

\* One invocation has the claim, all the pictures are its own, and the scene it
\* is at comes after theirs.
ClaimInv ==
  /\ \A c, d \in claimed : c = d
  /\ \A a \in rows : \E c \in claimed : a.by = c.by
  /\ \A p \in Process : call[p].pc = "more" =>
       /\ \E c \in claimed : c.by = p
       /\ \A a \in rows : a.scene < call[p].scene
  /\ \A a, b \in rows : a.scene = b.scene \/ Content[a.pic] = Content[b.pic] => a = b

\* There is one decision for an asset and a version, none of a version to come;
\* what is about to be decided is not disputed and has none of this version.
DecisionInv ==
  /\ \A e \in decisions : e[2] <= policy
  /\ \A e, f \in decisions : e[1] = f[1] /\ e[2] = f[2] => e = f
  /\ \A a \in todo : status[a] # "DISPUTED"
  /\ \A a \in todo, e \in decisions : e[1] = a => e[2] # policy

\* The status column says what the last decision says.
Agrees(a) ==
  \/ Latest(a) = {} /\ status[a] = "UNVERIFIED"
  \/ \E e \in Latest(a) : /\ Latest(a) = {e}
                          /\ status[a] = "VERIFIED" <=> e[3] = "VERIFIED"
                          /\ status[a] = "DISPUTED" <=> e[3] = "DISPUTED"

\* That holds of every asset; and whatever is rendered has been verified.
RightsInv ==
  /\ \A a \in Asset : Agrees(a)
  /\ \A a \in render \cup artifact : \E v \in 1..MaxPolicy : <<a, v, "VERIFIED">> \in decisions

AssetInv == TypeOK /\ ClaimInv /\ DecisionInv /\ RightsInv

-----------------------------------------------------------------------------
(* What the provider delivers is a picture of a planned scene.             *)

\* A plan has a first scene.
LEMMA SomeScene == ASSUME AssetAssumption PROVE 1 \in 1..Scenes
  BY AssetAssumption DEF AssetAssumption, Scenes

\* A picture is found for the scene the invocation is at.
LEMMA FoundScene ==
  ASSUME AssetAssumption, NEW p, NEW excluded, NEW pic \in Found(p, excluded)
  PROVE  pic \in Picture /\ call[p].scene \in 1..Scenes
<1>1. <<call[p].scene, call[p].tries + 1, excluded, pic>>
        \in (DOMAIN QueryCount) \X Nat \X (SUBSET Picture) \X Picture
  BY AssetAssumption DEF AssetAssumption, Found
<1>2. DOMAIN QueryCount = 1..Scenes
  BY AssetAssumption DEF AssetAssumption, Scenes
<1> QED BY <1>1, <1>2

\* So what is attached is an asset.
LEMMA AttachedIsAsset ==
  ASSUME AssetAssumption, NEW p \in Process, NEW excluded, NEW pic \in Found(p, excluded)
  PROVE  New(p, pic, call[p].scene) \in Asset
  BY FoundScene DEF New, Asset

-----------------------------------------------------------------------------
(* Types.                                                                  *)

LEMMA AssetTypeInit == ASSUME AssetAssumption, Init PROVE TypeOK
  BY SomeScene, AssetAssumption
     DEF AssetAssumption, Init, TypeOK, Call, Idle, At, Status, Decision

\* What becomes of the invocation after a call or an answer is well typed.
LEMMA CallSteps ==
  ASSUME AssetAssumption, call \in [Process -> Call], NEW p \in Process,
         \/ Return(p)
         \/ call' = [call EXCEPT ![p] = At("first", 1, 0, {})]
         \/ \E refused \in SUBSET Picture : Again(p, refused)
         \/ \E s \in 1..Scenes, refused \in SUBSET Picture : ToScene(p, s, refused)
  PROVE  call' \in [Process -> Call]
<1>1. Idle \in Call /\ At("first", 1, 0, {}) \in Call
  BY SomeScene DEF Idle, At, Call
<1>2. \A refused \in SUBSET Picture : At(call[p].pc, call[p].scene, call[p].tries + 1, refused) \in Call
  BY DEF At, Call
<1>3. \A s \in 1..Scenes, refused \in SUBSET Picture :
        \A t \in Later(s) : At("more", t, 0, refused) \in Call
  BY DEF At, Call, Later
<1>4. CASE Return(p) \/ call' = [call EXCEPT ![p] = At("first", 1, 0, {})]
  BY <1>1, <1>4 DEF Return
<1>5. CASE \E refused \in SUBSET Picture : Again(p, refused)
  BY <1>2, <1>5 DEF Again
<1>6. CASE \E s \in 1..Scenes, refused \in SUBSET Picture : ToScene(p, s, refused)
  BY <1>1, <1>3, <1>6 DEF ToScene, Return
<1> QED BY <1>4, <1>5, <1>6

LEMMA AssetTypeStep == ASSUME AssetAssumption, TypeOK, [Next]_vars PROVE TypeOK'
<1> USE AssetAssumption DEF AssetAssumption, TypeOK
<1>0. \A p \in Process : call[p].refused \subseteq Picture /\ call[p].scene \in 1..Scenes
  BY DEF Call
<1>1. ASSUME NEW p \in Process, Provision(p) PROVE TypeOK'
  <2>1. CASE Invoke(p)
    BY <2>1, <1>0, CallSteps DEF Invoke, rights, engine
  <2>2. CASE FailAttempt(p)
    <3>1. call' \in [Process -> Call]
      BY <2>2, <1>0, CallSteps DEF FailAttempt
    <3>2. retry' \in 0..RetryCap
      BY <2>2 DEF FailAttempt, RecordFailedAttempt, IsQuarantined
    <3> QED BY <2>2, <3>1, <3>2 DEF FailAttempt, rights, engine
  <2>3. CASE RefuseFirst(p)
    <3>1. \A q \in Found(p, call[p].refused) : q \in Picture
      BY DEF Found
    <3>2. PICK refused \in SUBSET Picture : Again(p, refused)
      BY <2>3, <3>1, <1>0 DEF RefuseFirst
    <3>3. call' \in [Process -> Call]
      BY <3>2, SomeScene, CallSteps
    <3> QED BY <2>3, <3>3 DEF RefuseFirst, rights, engine
  <2>4. CASE LoseRace(p)
    BY <2>4, <1>0, CallSteps DEF LoseRace, rights, engine
  <2>5. CASE CommitFirst(p)
    <3>1. call' \in [Process -> Call]
      BY <2>5, SomeScene, CallSteps DEF CommitFirst
    <3>2. PICK pic \in Found(p, call[p].refused) :
            /\ rows' = rows \cup {New(p, pic, 1)} /\ claimed' = claimed \cup {New(p, pic, 1)}
      BY <2>5 DEF CommitFirst
    <3>3. New(p, pic, 1) \in Asset
      BY SomeScene, FoundScene DEF New, Asset
    <3> QED BY <2>5, <3>1, <3>2, <3>3 DEF CommitFirst, rights, engine
  <2>6. CASE AttachScene(p)
    <3>1. call' \in [Process -> Call]
      BY <2>6, <1>0, CallSteps DEF AttachScene
    <3>2. PICK pic \in Offered(p) : rows' = rows \cup {New(p, pic, call[p].scene)}
      BY <2>6 DEF AttachScene
    <3>3. New(p, pic, call[p].scene) \in Asset
      BY AttachedIsAsset DEF Offered
    <3> QED BY <2>6, <3>1, <3>2, <3>3 DEF AttachScene, rights, engine
  <2>7. CASE MissScene(p)
    <3>1. \A q \in Offered(p) : q \in Picture
      BY DEF Offered, Found
    <3>2. PICK refused \in SUBSET Picture : Again(p, refused) \/ ToScene(p, call[p].scene, refused)
      BY <2>7, <3>1, <1>0 DEF MissScene
    <3>3. call' \in [Process -> Call]
      BY <3>2, <1>0, CallSteps
    <3> QED BY <2>7, <3>3 DEF MissScene, rights, engine
  <2>8. CASE StopScenes(p)
    BY <2>8, <1>0, CallSteps DEF StopScenes, rights, engine
  <2> QED BY <1>1, <2>1, <2>2, <2>3, <2>4, <2>5, <2>6, <2>7, <2>8 DEF Provision
<1>2. ASSUME NEW p \in Process, FailOutside(p) \/ Crash(p) PROVE TypeOK'
  <2>1. call' \in [Process -> Call]
    BY <1>2, <1>0, CallSteps DEF FailOutside, Crash
  <2> QED BY <1>2, <2>1 DEF FailOutside, Crash, Mishap, rights, engine
<1>3. CASE SelectAssets
  BY <1>3 DEF SelectAssets, Eligible, rights
<1>4. ASSUME NEW a \in Asset, Decide(a) PROVE TypeOK'
  <2>1. Evaluate(a) \in Decision /\ CacheStatus(a, Evaluate(a)) \in Status
    BY DEF Evaluate, CacheStatus, Decision, Status
  <2>2. decisions' \subseteq Asset \X (1..MaxPolicy) \X Decision
    BY <1>4, <2>1 DEF Decide
  <2>3. status' \in [Asset -> Status]
    BY <1>4, <2>1 DEF Decide
  <2> QED BY <1>4, <2>2, <2>3 DEF Decide
<1>5. CASE BeginRender \/ CommitRender
  BY <1>5 DEF BeginRender, CommitRender, rights
<1>6. CASE EngineStops
  BY <1>6 DEF EngineStops, Mishap, rights
<1>7. CASE Deploy
  BY <1>7 DEF Deploy, engine
<1>8. ASSUME NEW a \in Asset, NEW now \in {"intact", "damaged", "lost"}, Disturb(a, now) PROVE TypeOK'
  BY <1>8 DEF Disturb, Mishap, rights, engine
<1>9. CASE UNCHANGED vars
  BY <1>9 DEF vars, rights, engine
<1> QED BY <1>1, <1>2, <1>3, <1>4, <1>5, <1>6, <1>7, <1>8, <1>9 DEF Next, Verify

-----------------------------------------------------------------------------
(* The claim.                                                              *)

\* An invocation goes on to a later scene, or to none.
LEMMA SceneAfter ==
  ASSUME AssetAssumption, TypeOK, NEW p \in Process, NEW s \in 1..Scenes, NEW refused, ToScene(p, s, refused)
  PROVE  /\ \A q \in Process \ {p} : call'[q] = call[q]
         /\ call'[p].pc = "more" => call'[p].scene > s /\ call'[p].scene \in Int
<1>1. CASE Later(s) = {}
  <2>1. call' = [call EXCEPT ![p] = Idle]
    BY <1>1 DEF ToScene, Return
  <2> QED BY <2>1 DEF TypeOK, Idle, At
<1>2. CASE Later(s) # {}
  <2>1. PICK t \in Later(s) : call' = [call EXCEPT ![p] = At("more", t, 0, refused)]
    BY <1>2 DEF ToScene
  <2>2. t > s /\ t \in Int
    BY DEF Later
  <2> QED BY <2>1, <2>2 DEF TypeOK, At
<1> QED BY <1>1, <1>2

\* A step that attaches nothing and takes no invocation to a further scene keeps
\* the claim.
LEMMA ClaimKept ==
  ASSUME TypeOK, ClaimInv, rows' = rows, claimed' = claimed,
         \A p \in Process : call'[p].pc = "more" =>
           call[p].pc = "more" /\ call'[p].scene >= call[p].scene /\ call'[p].scene \in Int
  PROVE  ClaimInv'
<1>1. \A a \in rows : a.scene \in Int
  BY DEF TypeOK, Asset
<1>2. \A p \in Process : call[p].scene \in Int
  BY DEF TypeOK, Call
<1>3. ASSUME NEW p \in Process, call'[p].pc = "more", NEW a \in rows PROVE a.scene < call'[p].scene
  BY <1>1, <1>2, <1>3 DEF ClaimInv
<1> QED BY <1>3 DEF ClaimInv

\* The same, when an invocation returns, asks again, or goes to a later scene.
LEMMA ClaimMoves ==
  ASSUME AssetAssumption, TypeOK, ClaimInv, rows' = rows, claimed' = claimed, NEW p \in Process,
         \/ Return(p)
         \/ call' = [call EXCEPT ![p] = At("first", 1, 0, {})]
         \/ \E refused \in SUBSET Picture : Again(p, refused)
         \/ /\ call[p].pc = "more"
            /\ \E refused \in SUBSET Picture : ToScene(p, call[p].scene, refused)
  PROVE  ClaimInv'
<1>1. call \in [Process -> Call] /\ call[p].scene \in 1..Scenes
  BY DEF TypeOK, Call
<1>2. \A q \in Process \ {p} : call'[q] = call[q] /\ call[q].scene \in Int
  BY <1>1 DEF Return, Again, ToScene, Call
<1>3. CASE Return(p) \/ call' = [call EXCEPT ![p] = At("first", 1, 0, {})]
  <2>1. call'[p].pc # "more"
    BY <1>1, <1>3 DEF Return, Idle, At
  <2> QED BY <1>2, <2>1, ClaimKept
<1>4. CASE \E refused \in SUBSET Picture : Again(p, refused)
  <2>1. call'[p].pc = call[p].pc /\ call'[p].scene = call[p].scene
    BY <1>1, <1>4 DEF Again, At
  <2> QED BY <1>1, <1>2, <2>1, ClaimKept
<1>5. CASE call[p].pc = "more" /\ \E refused \in SUBSET Picture : ToScene(p, call[p].scene, refused)
  <2>1. call'[p].pc = "more" => call'[p].scene >= call[p].scene /\ call'[p].scene \in Int
    BY <1>1, <1>5, SceneAfter
  <2> QED BY <1>2, <1>5, <2>1, ClaimKept
<1> QED BY <1>3, <1>4, <1>5

LEMMA ClaimStep == ASSUME AssetAssumption, TypeOK, ClaimInv, [Next]_vars PROVE ClaimInv'
<1>0. \A p \in Process : call[p].refused \in SUBSET Picture /\ call[p].scene \in 1..Scenes
  BY DEF TypeOK, Call
<1>1. ASSUME NEW p \in Process, Provision(p) PROVE ClaimInv'
  <2>1. CASE Invoke(p)
    BY <2>1, ClaimMoves DEF Invoke
  <2>2. CASE FailAttempt(p) \/ LoseRace(p) \/ StopScenes(p)
    BY <2>2, ClaimMoves DEF FailAttempt, LoseRace, StopScenes
  <2>3. CASE RefuseFirst(p)
    <3>1. \A q \in Found(p, call[p].refused) : q \in Picture
      BY DEF Found
    <3>2. \E refused \in SUBSET Picture : Again(p, refused)
      BY <2>3, <3>1, <1>0 DEF RefuseFirst
    <3> QED BY <2>3, <3>2, ClaimMoves DEF RefuseFirst
  <2>4. CASE CommitFirst(p)
    <3>1. PICK pic \in Found(p, call[p].refused) :
            /\ rows' = rows \cup {New(p, pic, 1)} /\ claimed' = claimed \cup {New(p, pic, 1)}
      BY <2>4 DEF CommitFirst
    <3>2. claimed = {} /\ rows = {}
      BY <2>4 DEF CommitFirst, Raced, ClaimInv
    <3>3. rows' = {New(p, pic, 1)} /\ claimed' = {New(p, pic, 1)}
      BY <3>1, <3>2
    <3>4. \A q \in Process \ {p} : call[q].pc # "more"
      BY <3>2 DEF ClaimInv
    <3>5. /\ \A q \in Process \ {p} : call'[q] = call[q]
          /\ call'[p].pc = "more" => call'[p].scene > 1
      BY <2>4, SomeScene, SceneAfter DEF CommitFirst
    <3>6. New(p, pic, 1).by = p /\ New(p, pic, 1).scene = 1
      BY DEF New
    <3> QED BY <3>3, <3>4, <3>5, <3>6 DEF ClaimInv
  <2>5. CASE AttachScene(p)
    <3>1. PICK pic \in Offered(p) : ~Seen(p, pic) /\ rows' = rows \cup {New(p, pic, call[p].scene)}
      BY <2>5 DEF AttachScene
    <3> DEFINE new == New(p, pic, call[p].scene)
    <3>2. new.by = p /\ new.scene = call[p].scene /\ new.pic = pic
      BY DEF New
    <3>3. claimed' = claimed /\ \A c, d \in claimed : c = d
      BY <2>5 DEF AttachScene, ClaimInv
    <3>4. PICK c \in claimed : c.by = p
      BY <2>5 DEF AttachScene, ClaimInv
    <3>5. \A a \in rows : a.by = p /\ a.scene < call[p].scene
      BY <2>5, <3>3, <3>4 DEF AttachScene, ClaimInv
    <3>6. \A a \in rows : Content[a.pic] # Content[pic]
      BY <3>1, <3>5 DEF Seen, Mine
    <3>7. /\ \A q \in Process \ {p} : call'[q] = call[q]
          /\ call'[p].pc = "more" => call'[p].scene > call[p].scene /\ call'[p].scene \in Int
      BY <2>5, <1>0, SceneAfter DEF AttachScene
    <3>8. \A q \in Process \ {p} : call[q].pc # "more"
      BY <3>3, <3>4 DEF ClaimInv
    <3>9. \A a \in rows : a.scene \in Int
      BY DEF TypeOK, Asset
    <3>10. \A a, b \in rows' : a.scene = b.scene \/ Content[a.pic] = Content[b.pic] => a = b
      <4>1. \A a \in rows : a.scene # new.scene /\ Content[a.pic] # Content[new.pic]
        BY <3>2, <3>5, <3>6, <3>9, <1>0
      <4>2. \A a \in rows' : a \in rows \/ a = new
        BY <3>1
      <4> HIDE DEF new
      <4> QED BY <4>1, <4>2 DEF ClaimInv
    <3>11. \A a \in rows' : a.by = p /\ (call'[p].pc = "more" => a.scene < call'[p].scene)
      BY <3>1, <3>2, <3>5, <3>7, <3>9, <1>0
    <3>12. \A q \in Process : call'[q].pc = "more" => q = p
      BY <3>7, <3>8
    <3> HIDE DEF new
    <3> QED BY <3>3, <3>4, <3>10, <3>11, <3>12 DEF ClaimInv
  <2>6. CASE MissScene(p)
    <3>1. \A q \in Offered(p) : q \in Picture
      BY DEF Offered, Found
    <3>2. PICK refused \in SUBSET Picture : Again(p, refused) \/ ToScene(p, call[p].scene, refused)
      BY <2>6, <3>1, <1>0 DEF MissScene
    <3> QED BY <2>6, <3>2, ClaimMoves DEF MissScene
  <2> QED BY <1>1, <2>1, <2>2, <2>3, <2>4, <2>5, <2>6 DEF Provision
<1>2. ASSUME NEW p \in Process, FailOutside(p) \/ Crash(p) PROVE ClaimInv'
  BY <1>2, ClaimMoves DEF FailOutside, Crash
<1>3. CASE /\ UNCHANGED <<rows, claimed, call>>
  BY <1>3 DEF ClaimInv
<1>4. ASSUME Verify \/ BeginRender \/ CommitRender \/ EngineStops \/ Deploy
             \/ (\E a \in Asset, now \in {"intact", "damaged", "lost"} : Disturb(a, now)) \/ UNCHANGED vars
      PROVE  UNCHANGED <<rows, claimed, call>>
  BY <1>4 DEF Verify, SelectAssets, Decide, BeginRender, CommitRender, EngineStops, Deploy, Disturb, vars
<1> QED BY <1>1, <1>2, <1>3, <1>4 DEF Next

-----------------------------------------------------------------------------
(* The decisions.                                                          *)

\* What reads and writes no decision and selects nothing keeps them.
LEMMA DecisionKept ==
  ASSUME DecisionInv, UNCHANGED rights, todo' \subseteq todo
  PROVE  DecisionInv'
  BY DEF DecisionInv, rights

LEMMA DecisionStep == ASSUME TypeOK, DecisionInv, [Next]_vars PROVE DecisionInv'
<1>1. CASE SelectAssets
  <2>1. todo' = Eligible /\ UNCHANGED rights
    BY <1>1 DEF SelectAssets
  <2>2. \A a \in Eligible, e \in decisions : e[1] = a => e[2] # policy
    <3> SUFFICES ASSUME NEW a \in Eligible, NEW e \in decisions, e[1] = a, e[2] = policy
                 PROVE  FALSE
      OBVIOUS
    <3>1. e = <<a, policy, e[3]>> /\ e[3] \in Decision
      BY DEF TypeOK
    <3> QED BY <3>1 DEF Eligible
  <2> QED BY <2>1, <2>2 DEF DecisionInv, Eligible, rights
<1>2. ASSUME NEW a \in Asset, Decide(a) PROVE DecisionInv'
  <2> DEFINE e == <<a, policy, Evaluate(a)>>
  <2>1. decisions' = decisions \cup {e} /\ policy' = policy /\ todo' = todo \ {a}
        /\ \A b \in Asset \ {a} : status'[b] = status[b]
    BY <1>2 DEF Decide, TypeOK
  <2>2. \A f \in decisions : f[1] = a => f[2] # policy
    BY <1>2 DEF Decide, DecisionInv
  <2>3. e[1] = a /\ e[2] = policy /\ policy \in Nat
    BY DEF TypeOK
  <2>4. todo \subseteq Asset
    BY DEF TypeOK
  <2> HIDE DEF e
  <2>5. \A f \in decisions' : f[2] <= policy'
    BY <2>1, <2>3 DEF DecisionInv
  <2>6. \A f, g \in decisions' : f[1] = g[1] /\ f[2] = g[2] => f = g
    BY <2>1, <2>2, <2>3 DEF DecisionInv
  <2>7. \A b \in todo' : status'[b] # "DISPUTED"
    BY <2>1, <2>4 DEF DecisionInv
  <2>8. \A b \in todo', f \in decisions' : f[1] = b => f[2] # policy'
    BY <2>1, <2>3 DEF DecisionInv
  <2> QED BY <2>5, <2>6, <2>7, <2>8 DEF DecisionInv
<1>3. CASE Deploy
  <2>1. todo' = {} /\ decisions' = decisions /\ policy' = policy + 1
    BY <1>3 DEF Deploy, engine
  <2>2. \A e \in decisions : e[2] <= policy /\ e[2] \in Nat /\ policy \in Nat
    BY DEF DecisionInv, TypeOK
  <2> QED BY <2>1, <2>2 DEF DecisionInv
<1>4. ASSUME NEW p \in Process, Provision(p) \/ FailOutside(p) \/ Crash(p)
      PROVE  UNCHANGED rights /\ UNCHANGED engine
  BY <1>4 DEF Provision, Invoke, FailAttempt, RefuseFirst, LoseRace, CommitFirst, AttachScene,
              MissScene, StopScenes, FailOutside, Crash
<1>5. ASSUME \/ BeginRender \/ CommitRender \/ EngineStops \/ UNCHANGED vars
             \/ \E a \in Asset, now \in {"intact", "damaged", "lost"} : Disturb(a, now)
      PROVE  UNCHANGED rights /\ todo' \subseteq todo
  BY <1>5 DEF BeginRender, CommitRender, EngineStops, Disturb, engine, vars
<1>6. ASSUME NEW p \in Process, Provision(p) \/ FailOutside(p) \/ Crash(p) PROVE DecisionInv'
  BY <1>4, <1>6, DecisionKept DEF engine
<1> QED BY <1>1, <1>2, <1>3, <1>5, <1>6, DecisionKept DEF Next, Verify

-----------------------------------------------------------------------------
(* Rights.                                                                 *)

\* What changes no decision and renders nothing new keeps them.
LEMMA RightsKept ==
  ASSUME RightsInv, decisions' = decisions, status' = status,
         render' \cup artifact' \subseteq render \cup artifact
  PROVE  RightsInv'
  BY DEF RightsInv, Agrees, Latest

\* The decision just made is the last one of its asset.
LEMMA RightsDecide ==
  ASSUME TypeOK, DecisionInv, RightsInv, NEW a \in Asset, Decide(a)
  PROVE  RightsInv'
<1> DEFINE e == <<a, policy, Evaluate(a)>>
<1>1. /\ decisions' = decisions \cup {e}
      /\ status' = [status EXCEPT ![a] = CacheStatus(a, Evaluate(a))]
      /\ render' = render /\ artifact' = artifact
  BY DEF Decide
<1>2. e[1] = a /\ e[2] = policy /\ e[3] = Evaluate(a) /\ e[3] \in Decision
  BY DEF Evaluate, Decision
<1>3. \A f \in decisions : f[2] \in Nat /\ policy \in Nat /\ f[2] <= policy /\ (f[1] = a => f[2] # policy)
  BY DEF TypeOK, DecisionInv, Decide
<1>4. Agrees(a)'
  <2>1. status'[a] = CacheStatus(a, e[3])
    BY <1>1, <1>2 DEF TypeOK
  <2>2. Latest(a)' = {e}
    <3> HIDE DEF e
    <3>1. policy <= policy
      BY DEF TypeOK
    <3>2. \A f \in decisions' : f[1] = a => f[2] <= e[2]
      BY <1>1, <1>2, <1>3, <3>1
    <3>3. \A f \in decisions : f[1] = a => ~(e[2] <= f[2])
      BY <1>2, <1>3
    <3> QED BY <1>1, <1>2, <3>2, <3>3 DEF Latest
  <2>3. /\ CacheStatus(a, e[3]) = "VERIFIED" <=> e[3] = "VERIFIED"
        /\ CacheStatus(a, e[3]) = "DISPUTED" <=> e[3] = "DISPUTED"
    BY <1>2 DEF CacheStatus, Decision
  <2> HIDE DEF e
  <2> QED BY <2>1, <2>2, <2>3 DEF Agrees
<1>5. ASSUME NEW b \in Asset, b # a PROVE Agrees(b)'
  <2>1. status'[b] = status[b]
    BY <1>1, <1>5 DEF TypeOK
  <2>2. Latest(b)' = Latest(b)
    <3> HIDE DEF e
    <3> QED BY <1>1, <1>2, <1>5 DEF Latest
  <2> QED BY <2>1, <2>2 DEF RightsInv, Agrees
<1>6. (\A b \in render \cup artifact : \E v \in 1..MaxPolicy : <<b, v, "VERIFIED">> \in decisions)'
  BY <1>1 DEF RightsInv
<1> QED BY <1>4, <1>5, <1>6 DEF RightsInv

\* What is about to be rendered has been verified.
LEMMA RightsRender ==
  ASSUME TypeOK, RightsInv, BeginRender
  PROVE  RightsInv'
<1>1. ASSUME NEW a \in rows PROVE \E v \in 1..MaxPolicy : <<a, v, "VERIFIED">> \in decisions
  <2>1. a \in Asset /\ status[a] = "VERIFIED"
    BY DEF BeginRender, TypeOK, Status
  <2>2. PICK e \in Latest(a) : e[3] = "VERIFIED"
    BY <2>1 DEF RightsInv, Agrees
  <2>3. e \in decisions /\ e[1] = a
    BY DEF Latest
  <2>4. e = <<a, e[2], "VERIFIED">> /\ e[2] \in 1..MaxPolicy
    BY <2>2, <2>3 DEF TypeOK
  <2> QED BY <2>3, <2>4
<1>2. render' = rows /\ artifact' = artifact /\ decisions' = decisions /\ status' = status
  BY DEF BeginRender, rights
<1>3. ASSUME NEW a \in Asset PROVE Agrees(a)'
  BY <1>2 DEF RightsInv, Agrees, Latest
<1>4. (\A b \in render \cup artifact : \E v \in 1..MaxPolicy : <<b, v, "VERIFIED">> \in decisions)'
  BY <1>1, <1>2 DEF RightsInv
<1> QED BY <1>3, <1>4 DEF RightsInv

LEMMA RightsStep == ASSUME TypeOK, DecisionInv, RightsInv, [Next]_vars PROVE RightsInv'
<1>1. ASSUME NEW p \in Process, Provision(p) \/ FailOutside(p) \/ Crash(p)
      PROVE  UNCHANGED rights /\ UNCHANGED engine
  BY <1>1 DEF Provision, Invoke, FailAttempt, RefuseFirst, LoseRace, CommitFirst, AttachScene,
              MissScene, StopScenes, FailOutside, Crash
<1>2. ASSUME \/ SelectAssets \/ CommitRender \/ EngineStops \/ Deploy \/ UNCHANGED vars
             \/ \E a \in Asset, now \in {"intact", "damaged", "lost"} : Disturb(a, now)
      PROVE  /\ decisions' = decisions /\ status' = status
             /\ render' \cup artifact' \subseteq render \cup artifact
  BY <1>2 DEF SelectAssets, CommitRender, EngineStops, Deploy, Disturb, rights, engine, vars
<1>3. ASSUME NEW p \in Process, Provision(p) \/ FailOutside(p) \/ Crash(p) PROVE RightsInv'
  BY <1>1, <1>3, RightsKept DEF rights, engine
<1> QED BY <1>2, <1>3, RightsKept, RightsDecide, RightsRender DEF Next, Verify

-----------------------------------------------------------------------------
(* The theorems.                                                           *)

LEMMA AssetInitInv == ASSUME AssetAssumption, Init PROVE AssetInv
<1>1. TypeOK
  BY AssetTypeInit
<1>2. ClaimInv
  BY DEF Init, ClaimInv, Idle, At
<1>3. DecisionInv
  BY DEF Init, DecisionInv
<1>4. RightsInv
  BY DEF Init, RightsInv, Agrees, Latest
<1> QED BY <1>1, <1>2, <1>3, <1>4 DEF AssetInv

\* The invariant all the theorems follow from.
THEOREM AssetInvariant == Spec => []AssetInv
<1>1. Init => AssetInv
  BY AssetAssumption, AssetInitInv
<1>2. AssetInv /\ [Next]_vars => AssetInv'
  BY AssetAssumption, AssetTypeStep, ClaimStep, DecisionStep, RightsStep DEF AssetInv
<1> QED BY <1>1, <1>2, PTL DEF Spec

\* The variables have their types (AssetProvisioning.TypeOK).
THEOREM AssetTypes == Spec => []TypeOK
<1>1. AssetInv => TypeOK
  BY DEF AssetInv
<1> QED BY <1>1, AssetInvariant, PTL

\* However many invocations overlap, the attached pictures are those of the one
\* that took the claim, one for a scene, no two with the same bytes.
THEOREM OneProvisions == Spec => []OneInvocationProvisions
<1>1. AssetInv => OneInvocationProvisions
  <2> SUFFICES ASSUME AssetInv PROVE OneInvocationProvisions
    OBVIOUS
  <2>1. Cardinality(claimed) <= 1
    <3>1. CASE claimed = {}
      BY <3>1, FS_EmptySet
    <3>2. CASE claimed # {}
      <4>1. PICK c : claimed = {c}
        BY <3>2 DEF AssetInv, ClaimInv
      <4>2. Cardinality({c}) = 1
        BY FS_Singleton
      <4> QED BY <4>1, <4>2
    <3> QED BY <3>1, <3>2
  <2> QED BY <2>1 DEF AssetInv, ClaimInv, OneInvocationProvisions
<1> QED BY <1>1, AssetInvariant, PTL

\* The status column says what the last decision says under any sequence of policy
\* versions, and nothing is rendered that no decision verified.
THEOREM RenderedIsVerified == Spec => []RightsBeforeRender
<1>1. AssetInv => RightsBeforeRender
  BY DEF AssetInv, TypeOK, RightsInv, Agrees, RightsBeforeRender
<1> QED BY <1>1, AssetInvariant, PTL

\* No step of the automated engine resolves a dispute.
THEOREM DisputesStand == Spec => DisputeStands
<1>1. AssetInv /\ [Next]_vars => [\A a \in Asset : status[a] = "DISPUTED" => status'[a] = "DISPUTED"]_vars
  <2> SUFFICES ASSUME AssetInv, Next, NEW a \in Asset, status[a] = "DISPUTED" PROVE status'[a] = "DISPUTED"
    BY DEF vars
  <2>1. ASSUME NEW b \in Asset, Decide(b) PROVE status'[a] = "DISPUTED"
    BY <2>1 DEF Decide, AssetInv, TypeOK, DecisionInv
  <2>2. ASSUME NEW p \in Process, Provision(p) \/ FailOutside(p) \/ Crash(p) PROVE status' = status
    BY <2>2 DEF Provision, Invoke, FailAttempt, RefuseFirst, LoseRace, CommitFirst, AttachScene,
                MissScene, StopScenes, FailOutside, Crash, rights
  <2>3. ASSUME \/ SelectAssets \/ BeginRender \/ CommitRender \/ EngineStops \/ Deploy
               \/ \E b \in Asset, now \in {"intact", "damaged", "lost"} : Disturb(b, now)
        PROVE  status' = status
    BY <2>3 DEF SelectAssets, BeginRender, CommitRender, EngineStops, Deploy, Disturb, rights
  <2> QED BY <2>1, <2>2, <2>3 DEF Next, Verify
<1> QED BY <1>1, AssetInvariant, PTL DEF Spec, DisputeStands

-----------------------------------------------------------------------------
(* LlmRouter: the pacing gate and the budget.                              *)

\* Whoever has passed the gate is at the head of the chain, so there is one of
\* them at most, and the interval is over: nobody else can stamp meanwhile.
GateInv ==
  /\ pc \in [Caller -> Pc]
  /\ queue \in Seq(Caller)
  /\ stamp \in 0..Interval /\ silence = stamp
  /\ \A c \in Caller : pc[c] = "granted" =>
       queue # <<>> /\ Head(queue) = c /\ stamp >= Interval

\* What is called for is what is recorded, and the record is within the limits.
BudgetInv ==
  /\ ledger \in Spend /\ invoked = ledger
  /\ ledger.today <= MaxDaily /\ ledger.content <= MaxContent

GateStep(c) == PassGate(c) \/ Start(c) \/ Abandon(c)
Answer(c) ==
  Complete(c) \/ Fail(c) \/ RetryNetwork(c) \/ RetryStatus(c) \/ RetryRate(c) \/ RateLimited(c)

-----------------------------------------------------------------------------
(* The gate.                                                               *)

\* The gate is free when the process starts.
LEMMA GateInit == RouterInit => GateInv
  BY LlmRouterAssumption DEF LlmRouterAssumption, RouterInit, GateInv, Pc, gate

\* Joining the chain never displaces its head.
LEMMA JoinKeepsGate ==
  ASSUME GateInv, NEW c \in Caller, pc[c] # "granted",
         queue' = Append(queue, c), Become(c, "queued"), UNCHANGED <<stamp, silence>>
  PROVE  GateInv'
<1>1. queue' \in Seq(Caller) /\ queue' # <<>>
  BY DEF GateInv
<1>2. queue # <<>> => Head(queue') = Head(queue)
  BY DEF GateInv
<1>3. pc' = [pc EXCEPT ![c] = "queued"] /\ pc' \in [Caller -> Pc]
  BY DEF GateInv, Become, Pc
<1> QED BY <1>1, <1>2, <1>3 DEF GateInv

\* A caller that moves off the gate without touching it disturbs nobody.
LEMMA LeaveKeepsGate ==
  ASSUME GateInv, NEW c \in Caller, NEW p \in Pc \ {"granted"}, Become(c, p), UNCHANGED gate
  PROVE  GateInv'
  BY DEF GateInv, Become, gate

\* A router step: Gemini joins the chain, any other provider leaves it alone.
LEMMA RouterKeepsGate ==
  ASSUME GateInv, NEW c \in Caller, Select(c) \/ CallProvider(c) \/ GiveUp(c) \/ Wake(c)
  PROVE  GateInv'
<1>1. CASE Select(c)
  BY <1>1, LeaveKeepsGate DEF Select, Pc
<1>2. CASE CallProvider(c) /\ Head(rest[c]) = Gemini
  BY <1>2, JoinKeepsGate DEF CallProvider
<1>3. CASE CallProvider(c) /\ Head(rest[c]) # Gemini
  BY <1>3, LeaveKeepsGate DEF CallProvider, Pc, gate
<1>4. CASE GiveUp(c)
  BY <1>4, LeaveKeepsGate DEF GiveUp, Pc
<1>5. CASE Wake(c)
  BY <1>5, JoinKeepsGate DEF Wake
<1> QED BY <1>1, <1>2, <1>3, <1>4, <1>5

\* The turn, the start and the release of the slot.
LEMMA GateKeepsGate ==
  ASSUME GateInv, NEW c \in Caller, GateStep(c)
  PROVE  GateInv'
<1> USE LlmRouterAssumption DEF LlmRouterAssumption
<1>1. CASE PassGate(c)
  BY <1>1 DEF GateInv, PassGate, Turn, Become, Pc, gate
<1>2. CASE Start(c) \/ Abandon(c)
  <2>1. pc[c] = "granted" /\ queue # <<>> /\ Head(queue) = c
    BY <1>2 DEF Start, Abandon, GateInv
  <2>2. queue' = Tail(queue)
    BY <1>2 DEF Start, Abandon, Release
  <2>3. Tail(queue) \in Seq(Caller)
    BY <2>1 DEF GateInv
  <2>4. \A d \in Caller : pc'[d] # "granted"
    BY <1>2, <2>1 DEF Start, Abandon, Become, GateInv
  <2>5. pc' \in [Caller -> Pc]
    BY <1>2 DEF Start, Abandon, Become, GateInv, Pc
  <2>6. stamp' \in 0..Interval /\ silence' = stamp'
    BY <1>2 DEF Start, Abandon, GateInv
  <2> QED BY <2>2, <2>3, <2>4, <2>5, <2>6 DEF GateInv
<1> QED BY <1>1, <1>2 DEF GateStep

\* An answer ends a request or puts its caller to sleep, outside the gate.
LEMMA AnswerKeepsGate ==
  ASSUME GateInv, NEW c \in Caller, Answer(c)
  PROVE  GateInv'
<1>1. UNCHANGED gate
  BY DEF Answer, Answered, Complete, Fail, RetryNetwork, RetryStatus, RetryRate, RateLimited
<1>2. \E p \in Pc \ {"granted"} : Become(c, p)
  <2>1. CASE Complete(c)
    BY <2>1 DEF Complete, Pc
  <2>2. CASE Fail(c) \/ RateLimited(c)
    BY <2>2 DEF Fail, RateLimited, Pc
  <2>3. CASE RetryNetwork(c) \/ RetryStatus(c) \/ RetryRate(c)
    BY <2>3 DEF RetryNetwork, RetryStatus, RetryRate, Sleep, Pc
  <2> QED BY <2>1, <2>2, <2>3 DEF Answer
<1> QED BY <1>1, <1>2, LeaveKeepsGate

\* Time only brings the interval nearer its end.
LEMMA TickKeepsGate == GateInv /\ Tick => GateInv'
  BY LlmRouterAssumption DEF LlmRouterAssumption, GateInv, Tick, More

\* Every step keeps the gate.
LEMMA GateInvariant == GateInv /\ [RouterNext]_routerVars => GateInv'
<1> SUFFICES ASSUME GateInv, [RouterNext]_routerVars PROVE GateInv'
  OBVIOUS
<1>1. CASE Tick
  BY <1>1, TickKeepsGate
<1>2. CASE NewDay
  BY <1>2 DEF NewDay, GateInv, gate
<1>3. ASSUME NEW c \in Caller, Select(c) \/ Step(c) PROVE GateInv'
  BY <1>3, RouterKeepsGate, GateKeepsGate, AnswerKeepsGate DEF Step, GateStep, Answer
<1>4. CASE UNCHANGED routerVars
  BY <1>4 DEF routerVars, gate, GateInv
<1> QED BY <1>1, <1>2, <1>3, <1>4 DEF RouterNext

\* A request is sent by Start alone, from the gate.
LEMMA OnlyStartSends ==
  ASSUME GateInv, [RouterNext]_routerVars, NEW c \in Caller, pc[c] # "sent", pc'[c] = "sent"
  PROVE  silence >= Interval
<1>1. \E d \in Caller : Start(d) /\ d = c
  BY DEF RouterNext, Step, Tick, NewDay, Select, CallProvider, GiveUp, PassGate, Start, Abandon, Complete, Fail,
         RetryNetwork, RetryStatus, RetryRate, RateLimited, Answered, Sleep, Wake, Become, routerVars, GateInv
<1> QED BY <1>1 DEF Start, GateInv

\* Any request to the paced provider starts an interval after the one before
\* it: the comment of MIN_REQUEST_INTERVAL_MS, for any number of callers.
THEOREM RequestsPaced == RouterSpec => RequestsArePaced
<1>1. RouterSpec => []GateInv
  BY GateInit, GateInvariant, PTL DEF RouterSpec
<1>2. GateInv /\ [RouterNext]_routerVars =>
        [\A c \in Caller : pc[c] # "sent" /\ pc'[c] = "sent" => silence >= Interval]_routerVars
  BY OnlyStartSends
<1> QED BY <1>1, <1>2, PTL DEF RouterSpec, RequestsArePaced

-----------------------------------------------------------------------------
(* The budget.                                                             *)

\* A recorded call is within the limits.
LEMMA InvokeKeepsBudget ==
  ASSUME BudgetInv, NEW c \in Caller, CallProvider(c)
  PROVE  BudgetInv'
<1> USE LlmRouterAssumption DEF LlmRouterAssumption
<1>1. Cost[c] \in Nat /\ MaxDaily \in Nat /\ MaxContent \in Nat
  OBVIOUS
<1>2. ledger' = Plus(ledger, c) /\ invoked' = ledger'
  BY DEF CallProvider, Record, BudgetInv
<1>3. ledger' \in Spend /\ ledger'.today = ledger.today + Cost[c]
        /\ ledger'.content = ledger.content + Cost[c]
  BY <1>1, <1>2 DEF Plus, Spend, BudgetInv
<1>4. Cost[c] > 0 => ledger.today + Cost[c] <= MaxDaily /\ ledger.content + Cost[c] <= MaxContent
  BY DEF CallProvider, WithinBudget
<1>5. ledger.today \in Nat /\ ledger.content \in Nat
        /\ ledger.today <= MaxDaily /\ ledger.content <= MaxContent
  BY DEF BudgetInv, Spend
<1> QED BY <1>1, <1>2, <1>3, <1>4, <1>5 DEF BudgetInv

\* Midnight clears the day, not the item.
LEMMA NewDayKeepsBudget == BudgetInv /\ NewDay => BudgetInv'
<1> SUFFICES ASSUME BudgetInv, NewDay PROVE BudgetInv'
  OBVIOUS
<1>1. ledger' \in Spend /\ ledger'.today = 0 /\ ledger'.content = ledger.content
  BY DEF NewDay, BudgetInv, Spend
<1>2. invoked' = ledger'
  BY DEF NewDay, BudgetInv
<1> QED BY <1>1, <1>2, LlmRouterAssumption DEF LlmRouterAssumption, BudgetInv

\* Every step keeps the budget.
LEMMA BudgetInvariant == BudgetInv /\ [RouterNext]_routerVars => BudgetInv'
<1> SUFFICES ASSUME BudgetInv, [RouterNext]_routerVars PROVE BudgetInv'
  OBVIOUS
<1>1. CASE NewDay
  BY <1>1, NewDayKeepsBudget
<1>2. ASSUME NEW c \in Caller, CallProvider(c) PROVE BudgetInv'
  BY <1>2, InvokeKeepsBudget
<1>3. CASE UNCHANGED budget
  BY <1>3 DEF budget, BudgetInv
<1>4. NewDay \/ (\E c \in Caller : CallProvider(c)) \/ UNCHANGED budget
  BY DEF RouterNext, Step, Tick, Select, GiveUp, PassGate, Start, Abandon, Complete, Fail,
         RetryNetwork, RetryStatus, RetryRate, RateLimited, Answered, Wake, routerVars
<1> QED BY <1>1, <1>2, <1>3, <1>4

\* What has been called for stays within the day's limit and the item's, for
\* any callers, costs, providers and failovers.
THEOREM SpendBounded == RouterSpec => []SpendWithinLimits
<1>1. RouterInit => BudgetInv
  BY LlmRouterAssumption DEF LlmRouterAssumption, RouterInit, BudgetInv, Spend
<1>2. BudgetInv => SpendWithinLimits
  BY DEF BudgetInv, SpendWithinLimits
<1> QED BY <1>1, <1>2, BudgetInvariant, PTL DEF RouterSpec
=============================================================================
