------------------------------ MODULE Timeline ------------------------------
(***************************************************************************)
(* The timeline of a rendered video: what is narrated, its captions, and   *)
(* the pictures shown, by scriptBodyToNarrationText, segmentCaptions,      *)
(* computeCaptionTiming, buildCaptionsFromAsr, computeSceneSequencing and  *)
(* computeVisualSequencing.  All are pure, so there are no variables.      *)
(*                                                                         *)
(* Times are in milliseconds.  A word is its length and whether a sentence *)
(* ends with it; a text is a sequence of words, and so is a caption.       *)
(***************************************************************************)
EXTENDS SlotAssignment

Rounded(a, b) == (2 * a + b) \div (2 * b)
Sum(s, f(_)) == MapThenSumSet(LAMBDA i : f(s[i]), DOMAIN s)
Size(w) == w.size
Shown(caption) == Sum(caption, Size) + Len(caption) - 1

-----------------------------------------------------------------------------
(* Narration.                                                              *)

\* A field ends as a sentence does.
AsSentence(text) ==
  IF Last(text).stop THEN text ELSE Append(Front(text), [size |-> Last(text).size + 1, stop |-> TRUE])

\* The fields in reading order, all of them; none of it (an error) if one that a
\* script must have is empty.  calls has the call to action, if there is one.
NarrationText(body) ==
  LET parts == FlattenSeq([i \in DOMAIN body.sections |-> <<body.sections[i].heading, body.sections[i].content>>])
      fields == <<body.hook, body.narrative>> \o parts \o <<body.counterpoints, body.conclusion>> \o body.calls
  IN IF body.sections = <<>> \/ \E i \in DOMAIN fields : fields[i] = <<>> THEN <<>>
     ELSE FlattenSeq([i \in DOMAIN fields |-> AsSentence(fields[i])])

-----------------------------------------------------------------------------
(* Captions.                                                               *)

Sentences(text) ==
  FoldLeft(LAMBDA acc, w :
             IF acc = <<>> \/ Last(Last(acc)).stop THEN Append(acc, <<w>>)
             ELSE Append(Front(acc), Append(Last(acc), w)),
           <<>>, text)

\* A sentence as captions of at most max characters, word by word.
Split(sentence, max) ==
  FoldLeft(LAMBDA acc, w :
             IF acc = <<>> \/ Shown(Append(Last(acc), w)) > max THEN Append(acc, <<w>>)
             ELSE Append(Front(acc), Append(Last(acc), w)),
           <<>>, sentence)

\* A last caption of one word takes the word before it, if the two fit.
AvoidOrphanTail(captions, max) ==
  LET n == Len(captions) IN
  IF n < 2 \/ Len(captions[n]) > 1 THEN captions
  ELSE LET before == captions[n - 1]
           tail == <<Last(before)>> \o captions[n]
       IN IF Len(before) = 1 \/ Shown(tail) > max THEN captions
          ELSE SubSeq(captions, 1, n - 2) \o <<Front(before), tail>>

SegmentCaptions(text, max) ==
  FlattenSeq([i \in DOMAIN Sentences(text) |-> AvoidOrphanTail(Split(Sentences(text)[i], max), max)])

\* The captions in turn, each for its share of the characters; the last one has the rest.
Tile(captions, from, to) ==
  LET all == Sum(captions, Shown)
      Extended(acc, i) ==
        LET at == IF acc = <<>> THEN from ELSE Last(acc).start + Last(acc).duration
            share == Max({1, Rounded((to - from) * Shown(captions[i]), all)})
        IN Append(acc, [text |-> captions[i], start |-> at,
                        duration |-> IF i = Len(captions) THEN to - at ELSE share])
  IN FoldLeftDomain(Extended, <<>>, captions)

CaptionTiming(captions, length) == Tile(captions, 0, length)

Tolerance == 1000
End(c) == c.start + c.duration
InOrder(timing, length) ==
  \A i \in DOMAIN timing : /\ End(timing[i]) <= length + 1
                           /\ i > 1 => timing[i].start >= End(timing[i - 1]) - 1

\* Segments as whisper reports them: from, to, and the characters heard.
Plausible(heard, length) ==
  /\ heard # <<>>
  /\ \A i \in DOMAIN heard :
       /\ 0 <= heard[i].from /\ heard[i].from <= heard[i].to /\ heard[i].to <= length + Tolerance
       /\ i > 1 => heard[i].from >= heard[i - 1].from /\ heard[i].from >= heard[i - 1].to - 1
       /\ heard[i].size > 0 => heard[i].from < heard[i].to /\ heard[i].from < length

\* Each word of the script goes to the segment that its middle falls in, by
\* characters; the words of a segment are its captions.  None if rejected: a
\* transcript that says something else is rejected before.
CaptionsFromAsr(heard, text, length, max) ==
  LET speech == SelectSeq(heard, LAMBDA h : h.size > 0)
      said(k) == MapThenSumSet(LAMBDA i : speech[i].size, 1..k)
      read(k) == MapThenSumSet(LAMBDA i : text[i].size + 1, 1..k)
      falls(i, k) == (2 * read(i - 1) + text[i].size) * said(Len(speech)) < 2 * said(k) * read(Len(text))
      place(i) == LET those == {k \in DOMAIN speech : falls(i, k)} IN
                  IF those = {} THEN Len(speech) ELSE Min(those)
      words(k) == LET those == {i \in DOMAIN text : place(i) = k} IN
                  IF those = {} THEN <<>> ELSE SubSeq(text, Min(those), Max(those))
      tiled(k) == Tile(SegmentCaptions(words(k), max), speech[k].from, Lesser(speech[k].to, length))
      timing == FlattenSeq([k \in DOMAIN speech |->
                  [i \in DOMAIN tiled(k) |-> [tiled(k)[i] EXCEPT !.duration = Max({1, @})]]])
  IN IF Plausible(heard, length) /\ speech # <<>> /\ InOrder(timing, length) THEN timing ELSE <<>>

-----------------------------------------------------------------------------
(* Pictures.                                                               *)

\* The slots from each start to the next one, the last to the end of the narration.
Slots(starts, pics, length) ==
  [i \in DOMAIN starts |->
     [pic |-> pics[i], start |-> starts[i],
      duration |-> (IF i = Len(starts) THEN length ELSE starts[i + 1]) - starts[i]]]

\* N equal parts in input order.
VisualTiming(pics, length) ==
  LET each == Rounded(length, Len(pics)) IN
  Slots([i \in DOMAIN pics |-> (i - 1) * each], pics, length)

\* Each picture where its scene is told, at the nearest cut between captions; a
\* scene too short to show is left to the one before.  None if a picture has no scene.
SceneSequencing(pics, timing, length, least) ==
  LET orders == {pics[i].scene : i \in DOMAIN pics}
      inOrder == SetToSortSeq(ToSet(pics), LAMBDA x, y : x.scene < y.scene)
      cuts == SelectSeq([i \in DOMAIN timing |-> timing[i].start], LAMBDA t : t > 0)
      away(t, c) == IF t > c THEN t - c ELSE c - t
      snap(t) == IF cuts = <<>> THEN t
                 ELSE cuts[Min({i \in DOMAIN cuts :
                                 \A j \in DOMAIN cuts : away(t, cuts[i]) <= away(t, cuts[j])})]
      Extended(acc, pic) ==
        LET start == IF acc = <<>> THEN 0 ELSE snap(Rounded(pic.at * length, 10000)) IN
        IF acc # <<>> /\ (start - Last(acc)[1] < least \/ length - start < least) THEN acc
        ELSE Append(acc, <<start, pic>>)
      kept == FoldLeft(Extended, <<>>, inOrder)
  IN IF Len(pics) < 2 \/ 0 \in orders \/ Cardinality(orders) < Len(pics) \/ Len(kept) < 2 THEN <<>>
     ELSE Slots([i \in DOMAIN kept |-> kept[i][1]], [i \in DOMAIN kept |-> kept[i][2]], length)

\* Segments between the ends of captions; one too short to show takes in the next
\* one, and a short last one is taken in.
MergeShortSegments(timing, least) ==
  LET ends == [i \in DOMAIN timing |-> End(timing[i])]
      from(i) == IF i = 1 THEN timing[1].start ELSE ends[i - 1]
      raw == SelectSeq([i \in DOMAIN timing |-> <<from(i), ends[i]>>], LAMBDA s : s[2] > s[1])
      short(s) == s[2] - s[1] < least
      Extended(acc, s) == IF acc # <<>> /\ short(Last(acc))
                      THEN Append(Front(acc), <<Last(acc)[1], s[2]>>) ELSE Append(acc, s)
      merged == FoldLeft(Extended, <<>>, raw)
  IN IF Len(merged) > 1 /\ short(Last(merged))
     THEN Append(Front(Front(merged)), <<Last(Front(merged))[1], Last(merged)[2]>>)
     ELSE merged

\* Without scenes: a new picture at the end of a caption, the pictures in turn.
VisualSequencing(pics, timing, length, least) ==
  LET merged == MergeShortSegments(timing, least)
      n == Len(pics)
  IN IF n < 2 \/ timing = <<>> \/ merged = <<>> THEN VisualTiming(pics, length)
     ELSE Slots([i \in DOMAIN merged |-> merged[i][1]],
                [i \in DOMAIN merged |-> pics[((i - 1) % n) + 1]], length)

\* What runMediaProduction shows; the slots without scenes get the pictures in the
\* order that module SlotAssignment computes for their scores, or in their own.
Visuals(pics, timing, length, least, order) ==
  LET scenes == SceneSequencing(pics, timing, length, least) IN
  IF scenes # <<>> THEN scenes
  ELSE VisualSequencing([i \in DOMAIN order |-> pics[order[i]]], timing, length, least)
=============================================================================
