------------------------------ MODULE ScenePlan ------------------------------
(***************************************************************************)
(* The scenes of a script and the searches made for a picture of each:     *)
(* planScenes.  It is a pure function of the script, the visual ideas of   *)
(* the brief and the query of the whole video, so there are no variables.  *)
(*                                                                         *)
(* A script is a sequence of sentences, each a sequence of words that is   *)
(* or is not a heading; lengths in characters are counted in words.  A     *)
(* query is a sequence of words.  Which words are stopwords, proper nouns  *)
(* or too abstract for a picture is in the constants.                      *)
(***************************************************************************)
EXTENDS Integers, Sequences, FiniteSetsExt, SequencesExt

CONSTANTS
  Telling,       \* words that tell scenes apart: tokens, without stopwords
  Concrete,      \* words a phrase may be made of
  Concepts,      \* CONCEPTS: the words that call for each, and its queries in turn
  MaxScenes,     \* MAX_SCENES
  WordsPerScene, \* SECONDS_PER_SCENE * WORDS_PER_SECOND
  MaxQueries     \* MAX_QUERIES_PER_SCENE

MinScenes == 2
PlanningIsSound ==
  /\ Concrete \subseteq Telling
  /\ \A i \in DOMAIN Concepts : Concepts[i].queries # <<>>
  /\ MaxScenes \in Nat /\ MaxScenes >= MinScenes
  /\ WordsPerScene \in Nat \ {0}
  /\ MaxQueries \in Nat /\ MaxQueries >= 2

Count(s, W) == Cardinality({i \in DOMAIN s : s[i] \in W})
Lower(a, b) == IF a < b THEN a ELSE b
Rank(S, Before(_, _)) == [n \in 1..Cardinality(S) |-> CHOOSE x \in S : Cardinality({y \in S : Before(y, x)}) = n - 1]
AddNew(qs, q) == IF q = <<>> \/ q \in ToSet(qs) THEN qs ELSE Append(qs, q)

-----------------------------------------------------------------------------
(* Sentences and scenes.                                                   *)

\* A heading goes with the sentence it introduces, the last ones with the last.
SplitSentences(script) ==
  LET bodies == Rank({i \in DOMAIN script : ~script[i].heading}, <) IN
  IF bodies = <<>> THEN IF script = <<>> THEN <<>> ELSE <<script>>
  ELSE [n \in DOMAIN bodies |->
          SubSeq(script, IF n = 1 THEN 1 ELSE bodies[n - 1] + 1,
                         IF n = Len(bodies) THEN Len(script) ELSE bodies[n])]

TextOf(part) == FlattenSeq([i \in DOMAIN part |-> part[i].text])
WordsOf(part) == ToSet(TextOf(part)) \cap Telling
Length(s, a, b) == MapThenSumSet(LAMBDA i : Len(TextOf(s[i])), a..b)

HowMany(script, s) ==
  LET wanted == (Len(TextOf(script)) + WordsPerScene - 1) \div WordsPerScene IN
  Max({MinScenes, Lower(Lower(MaxScenes, wanted), Len(s))})

\* The chunk each sentence falls in: the next begins when this one has its share
\* of the text, or when the later ones need every sentence left.
Balanced(s, k) ==
  LET n == Len(s)
      chunk[i \in 1..n] ==
        IF i = 1 THEN 1
        ELSE LET g == chunk[i - 1]
                 full == k * Length(s, 1, i - 1) >= g * Length(s, 1, n)
                 left == n - (i - 1)
             IN IF g < k /\ left >= k - g /\ (full \/ left = k - g) THEN g + 1 ELSE g
  IN [j \in 1..k |-> LET mine == {i \in 1..n : chunk[i] = j} IN
        IF mine = {} THEN <<>> ELSE FlattenSeq(SubSeq(s, Min(mine), Max(mine)))]

\* Terms in the order of their mean place in the text; one it does not mention
\* keeps its slot.
ByMention(overlap, k) ==
  LET weight(j) == MapThenSumSet(LAMBDA i : overlap[i][j], DOMAIN overlap)
      place(j) == MapThenSumSet(LAMBDA i : i * overlap[i][j], DOMAIN overlap)
      mentioned == {j \in 1..k : weight(j) > 0}
      Earlier(a, b) == \/ place(a) * weight(b) < place(b) * weight(a)
                       \/ place(a) * weight(b) = place(b) * weight(a) /\ a < b
      moved == Rank(mentioned, Earlier)
  IN [j \in 1..k |-> IF j \in mentioned THEN moved[Cardinality({i \in mentioned : i <= j})] ELSE j]

\* With one term for each scene, the cuts under which the chunks mention their
\* terms most; then the most even ones, then the earliest last cut.
ByTerms(s, terms, k) ==
  LET n == Len(s)
      overlap == [i \in 1..n |-> [j \in 1..k |->
                    Cardinality(ToSet(terms[j]) \cap WordsOf(s[i]))]]
      term == ByMention(overlap, k)
      cuts == {<<0>> \o Rank(m, <) \o <<n>> : m \in kSubset(k - 1, 1..n - 1)}
      score(c) == MapThenSumSet(LAMBDA j : MapThenSumSet(LAMBDA i : overlap[i][term[j]],
                                                         c[j] + 1..c[j + 1]), 1..k)
      uneven(c) == MapThenSumSet(LAMBDA j : (k * Length(s, c[j] + 1, c[j + 1]) - Length(s, 1, n))^2, 1..k)
      most == {c \in cuts : \A d \in cuts : score(c) >= score(d)}
      even == {c \in most : \A d \in most : uneven(c) <= uneven(d)}
      cut == CHOOSE c \in even : \A d \in even \ {c} :
               \E j \in 1..k : c[j] < d[j] /\ \A i \in j + 1..k : c[i] = d[i]
  IN [j \in 1..k |-> FlattenSeq(SubSeq(s, cut[j] + 1, cut[j + 1]))]

IsByTerms(s, terms, k) ==
  /\ Len(terms) = k /\ Len(s) >= k
  /\ \E i \in DOMAIN s, j \in DOMAIN terms : ToSet(terms[j]) \cap WordsOf(s[i]) # {}

Chunks(script, terms) ==
  LET s == SplitSentences(script)
      k == HowMany(script, s)
  IN IF Len(s) < MinScenes THEN <<>>
     ELSE IF IsByTerms(s, terms, k) THEN ByTerms(s, terms, k)
     ELSE SelectSeq(Balanced(s, k), LAMBDA c : c # <<>>)

-----------------------------------------------------------------------------
(* The queries of each scene.                                              *)

Overlap(term, chunk) == Count(term, WordsOf(chunk))

\* A term goes to the scene that mentions it most, at most two to a scene.
Assigned(chunks, terms) ==
  LET pairs == {x \in (DOMAIN terms) \X (DOMAIN chunks) : Overlap(terms[x[1]], chunks[x[2]]) > 0}
      score(x) == Overlap(terms[x[1]], chunks[x[2]])
      Before(x, y) == \/ score(x) > score(y)
                      \/ score(x) = score(y) /\ (x[1] < y[1] \/ (x[1] = y[1] /\ x[2] < y[2]))
  IN FoldLeft(LAMBDA taken, x :
                IF \/ \E y \in taken : y[1] = x[1]
                   \/ Cardinality({y \in taken : y[2] = x[2]}) >= 2
                THEN taken ELSE taken \cup {x},
              {}, Rank(pairs, Before))

\* What the narration of a scene calls for; a heading says it twice.
Calls(chunk, concept) ==
  MapThenSumSet(LAMBDA i : (IF chunk[i].heading THEN 2 ELSE 1) * Count(chunk[i].text, concept.words),
                DOMAIN chunk)

\* The concept queries of the scenes: the two it calls for most, every use in an
\* earlier scene counting against one by three quarters; each use takes its next query.
ConceptQueries(chunks) ==
  LET Scene(acc, c) ==
        LET calls(i) == Calls(chunks[c], Concepts[i])
            worth(i) == 4 * calls(i) - 3 * acc.used[i]
            ranked == Rank({i \in DOMAIN Concepts : calls(i) > 0},
                           LAMBDA i, j : worth(i) > worth(j) \/ (worth(i) = worth(j) /\ i < j))
            best == SubSeq(ranked, 1, Lower(2, Len(ranked)))
            query(i) == Concepts[i].queries[(acc.used[i] % Len(Concepts[i].queries)) + 1]
        IN [used |-> [i \in DOMAIN Concepts |-> acc.used[i] + Count(best, {i})],
            queries |-> Append(acc.queries, [n \in DOMAIN best |-> query(best[n])])]
  IN FoldLeftDomain(Scene, [used |-> [i \in DOMAIN Concepts |-> 0], queries |-> <<>>], chunks).queries

\* Two concrete words in a row, of the most frequent words, the first such pair.
DerivePhrase(part) ==
  LET weight(w) == MapThenSumSet(LAMBDA i : (IF part[i].heading THEN 2 ELSE 1) * Count(part[i].text, {w}),
                                 DOMAIN part)
      places == {x \in UNION {{i} \X (DOMAIN part[i].text) : i \in DOMAIN part} :
                   x[2] > 1 /\ {part[x[1]].text[x[2] - 1], part[x[1]].text[x[2]]} \subseteq Concrete}
      score(x) == weight(part[x[1]].text[x[2] - 1]) + weight(part[x[1]].text[x[2]])
      Before(x, y) == \/ score(x) > score(y)
                      \/ score(x) = score(y) /\ (x[1] < y[1] \/ (x[1] = y[1] /\ x[2] < y[2]))
      best == Rank(places, Before)[1]
  IN IF places = {} THEN <<>>
     ELSE <<part[best[1]].text[best[2] - 1], part[best[1]].text[best[2]]>>

\* A phrase is taken from the headings, or where no concept is called for.
Phrase(chunk, concepts) ==
  LET headings == SelectSeq(chunk, LAMBDA s : s.heading) IN
  IF headings # <<>> THEN DerivePhrase(headings)
  ELSE IF concepts # <<>> THEN <<>> ELSE DerivePhrase(chunk)

\* Terms nothing supports go to the scenes that have nothing of their own.
Filled(assigned, terms, chunks, bare) ==
  FoldLeftDomain(LAMBDA taken, t :
      LET empty == {c \in bare : ~\E x \in taken : x[2] = c} IN
      IF empty = {} \/ \E x \in taken : x[1] = t THEN taken ELSE taken \cup {<<t, Min(empty)>>},
    assigned, terms)

\* Terms the narration mostly mentions, concepts, the other terms, the phrase;
\* with fewer than two of these a term that is not the first query of the scene
\* before, used least so far; and last the query of the whole video.
Queries(chunks, terms, whole) ==
  LET concepts == ConceptQueries(chunks)
      phrase(c) == Phrase(chunks[c], concepts[c])
      bare == {c \in DOMAIN chunks : concepts[c] = <<>> /\ phrase(c) = <<>>}
      assigned == Filled(Assigned(chunks, terms), terms, chunks, bare)
      mine(c) == Rank({t \in DOMAIN terms : <<t, c>> \in assigned}, <)
      strong(t, c) == 2 * Overlap(terms[t], chunks[c]) >= Count(terms[t], Telling)
      named(ts) == [n \in DOMAIN ts |-> terms[ts[n]]]
      own(c) == FoldLeft(AddNew, <<>>,
                  named(SelectSeq(mine(c), LAMBDA t : strong(t, c))) \o concepts[c]
                  \o named(SelectSeq(mine(c), LAMBDA t : ~strong(t, c))) \o <<phrase(c)>>)
      Scene(acc, c) ==
        LET spare == Rank({t \in DOMAIN terms : terms[t] # acc.before /\ terms[t] \notin ToSet(own(c))},
                          LAMBDA t, u : \/ acc.used[t] < acc.used[u]
                                        \/ acc.used[t] = acc.used[u] /\ t < u)
            filled == Len(own(c)) < 2 /\ spare # <<>>
            all == IF filled THEN Append(own(c), terms[spare[1]]) ELSE own(c)
            head == SubSeq(all, 1, Lower(MaxQueries - 1, Len(all)))
        IN [plans |-> Append(acc.plans, AddNew(head, whole)),
            before |-> IF head = <<>> THEN <<>> ELSE head[1],
            used |-> IF filled THEN [acc.used EXCEPT ![spare[1]] = @ + 1] ELSE acc.used]
  IN FoldLeftDomain(Scene, [plans |-> <<>>, before |-> <<>>, used |-> [t \in DOMAIN terms |-> 0]], chunks).plans

\* deriveVisualQuery: the ideas as they stand, or the first sentence of the script.
WholeQuery(script, terms) ==
  IF terms # <<>> THEN FlattenSeq(terms) ELSE IF script = <<>> THEN <<>> ELSE script[1].text

\* No scenes when there is not enough to plan two.
PlanScenes(script, terms) ==
  LET chunks == Chunks(script, terms)
      queries == Queries(chunks, terms, WholeQuery(script, terms))
  IN IF Len(chunks) < MinScenes THEN <<>>
     ELSE [c \in DOMAIN chunks |-> [text |-> chunks[c], queries |-> queries[c]]]

-----------------------------------------------------------------------------
(* What a plan promises, for every script and brief.                       *)

\* The scenes tell the whole script in its order; each has a sentence that is not
\* a heading, if the script has one; each has queries to make and makes none twice.
PlanIsSound(script, terms) ==
  LET chunks == Chunks(script, terms)
      plan == PlanScenes(script, terms) IN
  plan # <<>> =>
    /\ Len(plan) \in MinScenes..MaxScenes
    /\ FlattenSeq(chunks) = script
    /\ \A c \in DOMAIN chunks : \E i \in DOMAIN chunks[c] : ~chunks[c][i].heading
    /\ \A c \in DOMAIN plan : LET q == plan[c].queries IN
         /\ Len(q) \in 1..MaxQueries
         /\ \A i, j \in DOMAIN q : q[i] = q[j] => i = j
=============================================================================
