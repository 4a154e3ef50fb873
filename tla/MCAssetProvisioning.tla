------------------------- MODULE MCAssetProvisioning -------------------------
(***************************************************************************)
(* A script of two scenes; two pages with the same picture, one of them    *)
(* without a license; a branded picture and one of a child, which the      *)
(* screen keeps out.  Planning is checked on every short script and brief, *)
(* and the reading of children on the examples its comment gives; then     *)
(* what the render does with the script and its pictures, on short scripts *)
(* and a few pictures (a caption of 6 characters, a narration of 5 s).     *)
(***************************************************************************)
EXTENDS AssetProvisioning, Timeline, TLC

CONSTANTS pier, quay, copy, sign, play

MCTelling == {"boats", "pier", "crowd", "quay", "logo", "children"}
MCConcepts == <<[words |-> {"crowd"}, queries |-> <<<<"quay", "people">>, <<"street">>>>]>>
MCContent == (pier :> 1) @@ (quay :> 2) @@ (copy :> 1) @@ (sign :> 3) @@ (play :> 4)
MCTags == (pier :> {"boats", "pier"}) @@ (quay :> {"quay"}) @@ (copy :> {"pier", "quay"})
          @@ (sign :> {"quay", "logo"}) @@ (play :> {"pier", "children"})
\* All that has a tag of the query, in any order that matters.
MCHits(q) ==
  LET found == {pic \in Picture : Tags[pic] \cap ToSet(q) # {}} IN SetToSeqs(found)

Said(words) == [text |-> words, heading |-> FALSE]
Headed(words) == [text |-> words, heading |-> TRUE]
MCScript == <<Said(<<"the", "boats", "leave", "pier">>), Said(<<"not", "for", "children", ",", "crowd", "fills", "quay">>)>>
MCIdeas == <<<<"pier">>, <<"quay">>>>

\* What comes of that: the pictures for each query, the best first, and failures.
MCPreferred == <<<<<<{pier}, {copy}>>, <<{copy}, {quay}>>, <<{copy}, {pier}, {quay}>>>>,
                 <<<<{quay, copy}>>, <<{quay, copy}>>>>>>
MCQueryCount == <<3, 2>>
\* Those of the first rank that is not excluded whole.
Delivered(ranks, excluded) ==
  UNION {ranks[i] \ excluded :
           i \in {j \in DOMAIN ranks : \A k \in 1..j - 1 : ranks[k] \subseteq excluded}}
MCDeliveries ==
  {x \in (1..2) \X (1..3) \X (SUBSET Picture) \X Picture :
     x[2] \in DOMAIN MCPreferred[x[1]] /\ x[4] \in Delivered(MCPreferred[x[1]][x[2]], x[3])}
MCFirstFailures == {"NETWORK_FAILURE", "AUTH_FAILURE", "RATE_LIMIT", "PROVIDER_SERVER_FAILURE",
                    "BAD_REQUEST", "MALFORMED_RESPONSE", "DOWNLOAD_FAILURE"}

SomeSentences == {Said(<<"the", "boats", "leave", "pier">>), Said(<<"crowd", "boats">>), Headed(<<"quay">>)}
Scripts == UNION {[1..n -> SomeSentences] : n \in 1..4}
Briefs == {<<>>, <<<<"pier">>>>, <<<<"quay">>, <<"pier">>>>, <<<<"pier", "boats">>, <<"street">>>>}
ASSUME PlansAreSound == \A script \in Scripts, terms \in Briefs : PlanIsSound(script, terms)

ASSUME ChildrenAreAffirmed ==
  \A text \in {<<"not", "for", "adults", "but", "for", "children">>,
              <<"children", ",", "not", "adults", ",", "can", "participate">>,
              <<"children", "can", "not", "wait", "for", "the", "trip">>,
              <<"without", "adults", ",", "children", "play", "here">>,
              <<"without", "adults", "children", "play", "here">>,
              <<"children", "without", "adults", "play", "here">>} : AffirmsChildren(text)
ASSUME ChildrenAreNegated ==
  \A text \in {<<"not", "intended", "for", "children">>,
              <<"children", "are", "not", "the", "target", "audience">>,
              <<"children", "can", "not", "attend">>,
              <<"not", "for", "adults", ",", "children", "or", "baby">>,
              <<"not", "for", "children", ",", "baby", "or", "toddler">>} : ~AffirmsChildren(text)

-----------------------------------------------------------------------------
Longest == 6
Narrated == 5000
Least == 1500
Words == {[size |-> 2, stop |-> FALSE], [size |-> 3, stop |-> TRUE], [size |-> 7, stop |-> FALSE]}
Texts == UNION {[1..n -> Words] : n \in 1..5}
Whole(timing) == FlattenSeq([i \in DOMAIN timing |-> timing[i].text])
\* From the start of the first to the end, each where the one before it ends.
Tiles(slots, to) ==
  /\ \A i \in DOMAIN slots : slots[i].duration > 0 /\ (i > 1 => slots[i].start = End(slots[i - 1]))
  /\ End(Last(slots)) = to

\* Captions show every word that is spoken, in order, for exactly the time of the narration; one
\* is longer than the limit only if it is a single word (captionTiming.js:7-14, 70-77).
ASSUME CaptionsAreWhole ==
  \A text \in Texts : \A captions \in {SegmentCaptions(text, Longest)} :
    /\ FlattenSeq(captions) = text
    /\ \A i \in DOMAIN captions : Shown(captions[i]) <= Longest \/ Len(captions[i]) = 1
    /\ \A timing \in {CaptionTiming(captions, Narrated)} : Tiles(timing, Narrated) /\ timing[1].start = 0

\* A script is narrated whole or not at all, and no two fields run into one sentence
\* (scriptText.js:24-32).
Fields == {<<>>, <<[size |-> 2, stop |-> FALSE]>>, <<[size |-> 3, stop |-> TRUE], [size |-> 7, stop |-> FALSE]>>}
Bodies == [hook : Fields, narrative : Fields, counterpoints : Fields, conclusion : {<<[size |-> 2, stop |-> FALSE]>>},
           sections : {<<>>} \cup {<<[heading |-> h, content |-> c]>> : h, c \in Fields}, calls : {<<>>} \cup {<<f>> : f \in Fields}]
ASSUME NarrationIsWhole ==
  \A body \in Bodies :
    LET fields == {body.hook, body.narrative, body.counterpoints}
                  \cup UNION {{s.heading, s.content} : s \in ToSet(body.sections)} \cup ToSet(body.calls)
    IN IF <<>> \in fields \/ body.sections = <<>> THEN NarrationText(body) = <<>>
       ELSE Len(Sentences(NarrationText(body)))
              = FoldLeft(LAMBDA n, f : n + Len(Sentences(f)), 0,
                         <<body.hook, body.narrative, body.sections[1].heading, body.sections[1].content,
                           body.counterpoints, body.conclusion>> \o body.calls)

\* Captions timed by what the recogniser heard still show the script whole, in order, one at a
\* time, and end with the narration (asrCaptions.js:1-40).
Heard == UNION {[1..n -> [from : {0, 1000, 2000}, to : {1000, 2000, 3500}, size : {0, 2, 6}]] : n \in 1..2}
Accepted == {<<t, text>> \in {<<CaptionsFromAsr(heard, text, 3000, Longest), text>> :
                                heard \in {h \in Heard : Plausible(h, 3000)},
                                text \in {t \in Texts : Len(t) = 3}} : t # <<>>}
ASSUME HeardCaptionsAreWhole ==
  /\ Accepted # {}
  /\ \A a \in Accepted : /\ Whole(a[1]) = a[2]
                         /\ \A i \in DOMAIN a[1] : i > 1 => a[1][i].start >= End(a[1][i - 1])
                         /\ End(Last(a[1])) <= 3000

\* The first caption may then start late, and the pictures of a script without scenes with it:
\* in all they last less than the narration, whose end the muxing cuts with -shortest, which
\* render.js:150-156 takes for a mere safety bound.
ASSUME LatePicturesCutTheNarration ==
  \E a \in Accepted : LET shown == VisualSequencing(<<1, 2>>, a[1], 3000, Least) IN
    MapThenSumSet(LAMBDA i : shown[i].duration, DOMAIN shown) < 3000

\* The pictures fill the narration, none of them too short to see unless it is the only one; a
\* picture of a scene is not shown before that of an earlier scene (sceneSequencing.js:5-17).
Shots == {<<[scene |-> 1, at |-> 0]>>}
         \cup {[i \in 1..3 |-> [scene |-> scenes[i], at |-> at[scenes[i] + 1]]] :
                 scenes \in {<<1, 2, 3>>, <<3, 1, 2>>, <<1, 1, 2>>, <<0, 1, 2>>},
                 at \in {a \in [1..4 -> {0, 2500, 6000, 9900}] : \A i \in 1..3 : a[i] <= a[i + 1]}}
Timings == {CaptionTiming(SegmentCaptions(text, Longest), Narrated) : text \in {t \in Texts : Len(t) \in {1, 4}}}
ASSUME PicturesFillTheNarration ==
  \A pics \in Shots, timing \in Timings :
    \A shown \in {Visuals(pics, timing, Narrated, Least, Greedy(Len(pics), <<>>))} :
      /\ Tiles(shown, Narrated) /\ shown[1].start = 0
      /\ SceneSequencing(pics, timing, Narrated, Least) # <<>> =>
           \A i \in DOMAIN shown : /\ shown[i].duration >= Least
                                   /\ i > 1 => shown[i - 1].pic.scene < shown[i].pic.scene

\* Without a scene plan every picture has a slot as long as there are enough of them, and the
\* exact assignment is one: no other order gives more slots a scored picture, or as many and a
\* greater total (sceneAssignment.js:161-224).  With reuse no picture follows itself.
Matrices(slots, n, values) == [1..slots -> UNION {[D -> values] : D \in SUBSET (1..n)}]
Orders(n) == {o \in [1..n -> 1..n] : ToSet(o) = 1..n}
Worth(order, scores) ==
  LET rated == {i \in DOMAIN scores \cap DOMAIN order : order[i] \in DOMAIN scores[i]} IN
  <<Cardinality(rated), Total(rated, LAMBDA i : scores[i][order[i]])>>
ASSUME AssignmentIsExact ==
  \A scores \in Matrices(2, 3, {-1, 2}) \cup [1..3 -> [1..3 -> 0..1]] :
    /\ Greedy(3, scores) \in Orders(3)
    /\ \A order \in {GreatestTotal(3, scores)} :
         /\ order \in Orders(3)
         /\ \A other \in Orders(3) : LET w == Worth(other, scores) IN
              \A best \in {Worth(order, scores)} : w[1] < best[1] \/ (w[1] = best[1] /\ w[2] <= best[2])
ASSUME NoPictureFollowsItself ==
  \A scores \in Matrices(4, 2, {1}) \cup Matrices(3, 2, {1, 2}) : \A order \in {GreedyWithReuse(2, scores)} :
    ToSet(order) = 1..2 /\ \A i \in 2..Len(scores) : order[i] # order[i - 1]
=============================================================================
