------------------------------ MODULE Pictures ------------------------------
(***************************************************************************)
(* What PixabayAssetSourceProvider may answer to a query for a picture of  *)
(* a scene: acquireVisualAsset with the screen of candidateGate, and which *)
(* failures say something of the item.  What Pixabay lists is external.    *)
(*                                                                         *)
(* The tags of a picture are words, as those of a text.  A comma, a dash   *)
(* or a parenthesis is the word SoftBoundary.                              *)
(***************************************************************************)
EXTENDS ScenePlan

CONSTANTS
  Picture,       \* pages of the provider: origin
  Tags,          \* the tags of each
  Usable,        \* pictures with an address to download from
  Hits(_),       \* what Pixabay may list for a query: sequences of pictures
  Gate,          \* SCENE_CANDIDATE_GATE
  HasKey,        \* PIXABAY_API_KEY is set
  MaxQueryWords, \* PIXABAY_MAX_QUERY_LENGTH, in words
  Branded,       \* BRANDED_UI_CAPTURE_TAGS
  OffStyle,      \* OFF_STYLE_WORDS, OFF_STYLE_PHRASES
  Script,        \* narration of the script of the version: sentences
  Ideas,         \* content_briefs.visual_ideas: the terms
  MultiScene     \* MULTI_SCENE_VISUALS

PicturesAreSound ==
  /\ Tags \in [Picture -> SUBSET Telling]
  /\ Usable \subseteq Picture
  /\ Branded \cup OffStyle \subseteq Telling
  /\ {Gate, HasKey, MultiScene} \subseteq BOOLEAN
  /\ MaxQueryWords \in Nat \ {0}

-----------------------------------------------------------------------------
(* mentionsChildrenAffirmatively.                                          *)

SoftBoundary == ","
ChildForms == {"baby", "infant", "toddler", "kid", "child", "children"}
Child == ChildForms \cup {"pupil", "preschool", "newborn", "schoolchild"}
Prepositional == {"without", "excluding", "except", "barring", "no"}
Negators == Prepositional \cup {"not", "never", "nor", "non", "cannot", "unsuitable", "unfit"}
Auxiliaries == {"is", "are", "was", "can", "could", "may", "should", "will", "do"}
Contrast == {"but", "rather", "instead"}
Conjunctions == {"and", "or", "nor"}
Fillers == {"any", "all", "the", "a", "other", "for", "young", "small", "little"}
NegationWindow == 6

\* A word that calls for children is not negated by what stands before it: the
\* nearest of a contrast, a new clause and a negator decides; nor by what follows.
AffirmsChildren(text) ==
  LET places == Rank({n \in DOMAIN text : text[n] # SoftBoundary}, <)
      words == [i \in DOMAIN places |-> text[places[i]]]
      segment(i) == Count(SubSeq(text, 1, places[i]), {SoftBoundary})
      Is(i, W) == i \in DOMAIN words /\ words[i] \in W
      Negates(i) == /\ Is(i, Negators)
                    /\ ~(Is(i, {"not"}) /\ Is(i + 1, {"only", "just", "merely", "simply"}))
      OnlyList(seg) == \A i \in DOMAIN words : segment(i) = seg => Is(i, Child \cup Conjunctions)
      NewClause(i) == /\ segment(i) # segment(i + 1)
                      /\ ~Is(i, Child) /\ ~OnlyList(segment(i + 1))
      Governs(i, j) == Is(i, Prepositional) =>
                         \A m \in i + 1..j - 1 : Is(m, Child \cup Conjunctions \cup Fillers)
      Before(j) ==
        LET deciding == {i \in Max({1, j - NegationWindow})..j - 1 :
                           Is(i, Contrast) \/ NewClause(i) \/ Negates(i)}
            i == Max(deciding)
        IN deciding # {} /\ ~Is(i, Contrast) /\ ~NewClause(i) /\ Governs(i, j)
      CantWait(i) ==
        \/ /\ Is(i + 1, {"can", "could"}) /\ Is(i + 2, {"not"}) /\ Is(i + 3, {"wait"})
           /\ segment(i + 3) = segment(i)
        \/ Is(i + 1, {"cannot"}) /\ Is(i + 2, {"wait"}) /\ segment(i + 2) = segment(i)
      After(i) ==
        LET k == IF Is(i + 1, Auxiliaries) /\ segment(i + 1) = segment(i) THEN i + 2 ELSE i + 1
        IN /\ k \in DOMAIN words /\ segment(k) = segment(i)
           /\ Negates(k) /\ (Is(k, Prepositional) => Is(k, {"no"}))
  IN \E i \in DOMAIN words : Is(i, Child) /\ ~Before(i) /\ (After(i) => CantWait(i))

-----------------------------------------------------------------------------
(* The screen, and the choice among what it lets through.                  *)

QueryWords(query) == ToSet(query) \cap Telling
Context(query, scene) == QueryWords(query) \cup WordsOf(scene.text)
WantsChildren(query, scene) ==
  AffirmsChildren(query) \/ \E i \in DOMAIN scene.text : AffirmsChildren(scene.text[i].text)

\* buildHitScreen: not attached or refused before, no brand, style or child that
\* the scene or the query does not ask for, and a tag in common with the query.
Accepts(pic, query, scene, excluded) ==
  /\ pic \notin excluded
  /\ Tags[pic] \cap (Branded \cup OffStyle) \subseteq Context(query, scene)
  /\ Tags[pic] \cap ChildForms # {} => WantsChildren(query, scene)
  /\ Tags[pic] # {} /\ Context(query, scene) # {} =>
       Tags[pic] \cap (IF QueryWords(query) # {} THEN QueryWords(query) ELSE Context(query, scene)) # {}

Score(pic, query, scene) ==
  Cardinality(Tags[pic] \cap QueryWords(query)) + Cardinality(Tags[pic] \cap Context(query, scene))

\* The places in the list that may be downloaded.
Acceptable(hits, query, scene, excluded) ==
  IF Gate THEN {n \in DOMAIN hits : hits[n] \in Usable /\ Accepts(hits[n], query, scene, excluded)}
  ELSE {n \in DOMAIN hits \cap {1} : hits[n] \in Usable}

\* The best one, and the first of these.
Chosen(hits, query, scene, excluded) ==
  LET fit == Acceptable(hits, query, scene, excluded)
      best == {n \in fit : \A m \in fit : Score(hits[n], query, scene) >= Score(hits[m], query, scene)}
  IN hits[Min(best)]

Listed(query) == Hits(SubSeq(query, 1, Lower(MaxQueryWords, Len(query))))

\* The pictures acquireVisualAsset may deliver.
Delivers(query, scene, excluded) ==
  IF ~HasKey THEN {}
  ELSE {Chosen(hits, query, scene, excluded) :
          hits \in {h \in Listed(query) : Acceptable(h, query, scene, excluded) # {}}}

\* The failures it may answer.
Failures(query, scene, excluded) ==
  IF ~HasKey THEN {"MISSING_API_KEY"}
  ELSE {"NETWORK_FAILURE", "AUTH_FAILURE", "RATE_LIMIT", "PROVIDER_SERVER_FAILURE",
        "BAD_REQUEST", "MALFORMED_RESPONSE"}
       \cup (IF Delivers(query, scene, excluded) # {} THEN {"DOWNLOAD_FAILURE"} ELSE {})
       \cup {"EMPTY_RESULT" : hits \in {h \in Listed(query) : Acceptable(h, query, scene, excluded) = {}}}

\* PROVIDER_FAILURE_DISPOSITION: the kinds that may consume a retry of the item.
Transient == {"EMPTY_RESULT", "DOWNLOAD_FAILURE", "RATE_LIMIT", "PROVIDER_SERVER_FAILURE", "NETWORK_FAILURE"}

-----------------------------------------------------------------------------
(* The searches of one content version.                                    *)

\* The scenes planned for the version, or one scene of the whole video.
VideoQuery == WholeQuery(Script, Ideas)
Plan ==
  LET plan == PlanScenes(Script, Ideas) IN
  IF MultiScene /\ Len(plan) > 0 THEN plan ELSE <<[text |-> <<>>, queries |-> <<VideoQuery>>]>>

MaxExtraQueryAttempts == 3
\* The queries of a scene: for a further one, those that are its own.
QueriesFor(s) ==
  IF s = 1 THEN SubSeq(Plan[1].queries, 1, Lower(MaxExtraQueryAttempts + 1, Len(Plan[1].queries)))
  ELSE SubSeq(Plan[s].queries, 1, Lower(MaxExtraQueryAttempts, Len(Plan[s].queries) - 1))

\* What may be asked of the provider: scene, number of the query, pages excluded;
\* and with the picture it delivers.
Asked ==
  {x \in (DOMAIN Plan) \X (1..MaxQueries) \X (SUBSET Picture) : x[2] \in DOMAIN QueriesFor(x[1])}
DeliveriesOfVersion ==
  UNION {{<<x[1], x[2], x[3], pic>> : pic \in Delivers(QueriesFor(x[1])[x[2]], Plan[x[1]], x[3])} :
           x \in Asked}
FailuresOfFirst == Failures(QueriesFor(1)[1], Plan[1], {})
=============================================================================
