------------------------------- MODULE Sources -------------------------------
(***************************************************************************)
(* Where the pages of a research project come from: the search providers,  *)
(* the query cascade of the expansion, the retrieval of one page, and the  *)
(* bounded loop over the candidates (acquireSources).                      *)
(*                                                                         *)
(* Nothing here remembers anything between calls, so there are no          *)
(* variables: an operator is the set of results its call may have.  The    *)
(* web is free: a search lists any links in any order, or fails, and a     *)
(* page answers a request in one of the ways Replies gives.  A search is   *)
(* taken to list a link once; the code removes no repetition within one    *)
(* answer.                                                                 *)
(***************************************************************************)
EXTENDS Naturals, Sequences, FiniteSets, SequencesExt

CONSTANTS
  Page,          \* candidate URLs
  Domain,        \* registrable domain of a page: independenceKey
  Authoritative, Social, Syndicated,  \* research_source_classification.json
  Wrapper,       \* Google News article links, which name no publisher
  Replies,       \* how a page may answer a request
  Readings,      \* the texts a clean reader may return for a page
  HasReader,     \* RESEARCH_READER_FALLBACK_URL is set
  Retries,       \* max_retries_per_source
  MaxQueries,    \* queries of a cascade: DEFAULT_MAX_QUERIES_PER_CLAIM
  PerDomain      \* maxPerDomain of a cascade

\* A text by what assessContent looks at; a request that brings none has NoText.
Text == [words : Nat, sentences : Nat, gate : BOOLEAN, chrome : BOOLEAN]
NoText == [words |-> 0, sentences |-> 0, gate |-> FALSE, chrome |-> FALSE]
Reply == [answer : {"unreachable", "denied", "HTTP error", "interrupted", "page"}, text : Text]

SourcesAreSound ==
  /\ IsFiniteSet(Page)
  /\ DOMAIN Domain = Page
  /\ Authoritative \cup Social \cup Syndicated \cup Wrapper \subseteq Page
  /\ \A p \in Page : Replies[p] \subseteq Reply /\ Readings[p] \subseteq Text
  /\ HasReader \in BOOLEAN
  /\ Retries \in Nat
  /\ {MaxQueries, PerDomain} \subseteq Nat \ {0}

AtMost(n, bound) == IF n < bound THEN n ELSE bound
FirstOf(s, n) == SubSeq(s, 1, AtMost(Len(s), n))

-----------------------------------------------------------------------------
(* What a page counts for: classifySourceRole, classifySourceQuality.      *)

Role == [p \in Page |-> IF p \in Authoritative THEN "primary_authoritative"
                        ELSE IF p \in Social THEN "social_media"
                        ELSE IF p \in Syndicated THEN "syndicated" ELSE "independent_reporting"]

\* The tier of a page that was read; MEDIUM is the least that may corroborate.
Quality(p) ==
  CASE Role[p] = "primary_authoritative" -> "HIGH"
    [] Role[p] = "independent_reporting" -> "MEDIUM"
    [] OTHER -> "LOW"

-----------------------------------------------------------------------------
(* The search providers.  None throws: a failure is an empty answer.       *)

\* The loop all of them end with: the first of the links that are wanted.  An
\* answer lists any links in any order, so it may list these in any order.
NewLinks(wanted, max) == {FirstOf(listing, max) : listing \in SetToAllKPermutations(wanted)}

MaxResults == 20  \* of one Tavily request
Tavily(known, max) == {<<>>} \cup NewLinks(Page \ known, AtMost(max, MaxResults))

DuckDuckGo(known, max) == {<<>>} \cup NewLinks(Page \ known, max)

\* A wrapper never takes the place of a link that can be read.
GoogleNewsRss(known, max) == {<<>>} \cup NewLinks(Page \ (known \cup Wrapper), max)

\* The second is asked when the first fails, finds nothing or is late.
WithFallback(known, max) == (Tavily(known, max) \ {<<>>}) \cup DuckDuckGo(known, max)

\* One or the other, as the environment holds a Tavily key or not.
Discover(known, max) == GoogleNewsRss(known, max) \cup WithFallback(known, max)

-----------------------------------------------------------------------------
(* The query cascade of the expansion.                                     *)

\* How many of the queries built for a claim are sent: the literal one at least.
QueriesSent(budget) == {AtMost(n, budget) : n \in 1..MaxQueries}

\* What the provider lists for the queries, interleaved without repetition: new
\* links, of publishers that do not support the claim yet, no social ones.
Cascade(known, linked, room, budget) ==
  LET findable == {p \in UNION {ToSet(found) : found \in Discover(known, room)} :
                     Domain[p] \notin linked /\ p \notin Social}
  IN {l \in UNION {SetToSeqs(S) : S \in SUBSET findable} :
        /\ \E sent \in QueriesSent(budget) : Len(l) <= sent * room
        /\ Len(l) <= budget
        /\ \A p \in ToSet(l) : Cardinality({q \in ToSet(l) : Domain[q] = Domain[p]}) <= PerDomain}

-----------------------------------------------------------------------------
(* One retrieval.                                                          *)

BoilerplateMaxWords == 150
\* assessContent: a whole sentence, and no gate phrase on a short page.
IsSubstantive(text) == text.sentences > 0 /\ ~(text.gate /\ text.words < BoilerplateMaxWords)

\* The static page behind an article link of Google News.
IsWrapperPage(p, text) == p \in Wrapper /\ text.chrome

\* DENIED is the FAILED that says it is not worth another try.
RetrievePlain(p, reply) ==
  CASE reply.answer \in {"unreachable", "HTTP error", "interrupted"} -> "FAILED"
    [] reply.answer = "denied" -> "DENIED"
    [] OTHER -> IF IsSubstantive(reply.text) /\ ~IsWrapperPage(p, reply.text)
                THEN "SUCCESS" ELSE "CONTENT_UNPARSEABLE"

\* A page that was reached and could not be read is read once more by the reader.
RetrieveSource(p, reply, reading) ==
  IF RetrievePlain(p, reply) = "CONTENT_UNPARSEABLE" /\ HasReader /\ IsSubstantive(reading)
  THEN "SUCCESS" ELSE RetrievePlain(p, reply)

Outcomes(p) == {RetrieveSource(p, reply, reading) : reply \in Replies[p], reading \in Readings[p]}

-----------------------------------------------------------------------------
(* The acquisition loop.                                                   *)

\* The tries one candidate may take and how the last ended: only a FAILED one
\* is followed by another, within its own retries and the budget of the pass.
Tries(p, left) ==
  LET most == AtMost(1 + Retries, left) IN
  {t \in (1..most) \X Outcomes(p) : /\ t[1] > 1 => "FAILED" \in Outcomes(p)
                                    /\ t[2] = "FAILED" => t[1] = most}

\* One turn of the loop; at a ceiling it is over.
Visit(a, p, room, budget) ==
  IF Cardinality(a.pages) >= room \/ a.tries >= budget THEN {a}
  ELSE {[pages |-> a.pages \cup {p}, ok |-> IF t[2] = "SUCCESS" THEN a.ok \cup {p} ELSE a.ok,
         tries |-> a.tries + t[1], visited |-> a.visited + 1] : t \in Tries(p, budget - a.tries)}

\* The pages a pass over the candidates takes, those it could read, the requests
\* it spent and the candidates it came to.
AcquireSources(candidates, room, budget) ==
  LET after[n \in 0..Len(candidates)] ==
        IF n = 0 THEN {[pages |-> {}, ok |-> {}, tries |-> 0, visited |-> 0]}
        ELSE UNION {Visit(a, candidates[n], room, budget) : a \in after[n - 1]}
  IN after[Len(candidates)]
=============================================================================
