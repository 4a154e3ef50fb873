----------------------------- MODULE ClaimRows -----------------------------
(***************************************************************************)
(* How the claims a model proposes for the pages of a project become rows. *)
(*                                                                         *)
(* The model is not trusted.  It quotes or rewrites a sentence of the page *)
(* and describes the proposition by an identity; normalization says if the *)
(* wording is the page's own, the identity is held against the wording,    *)
(* and only an identity that survives lets two pages share a row.          *)
(*                                                                         *)
(* A wording is one text, as the cue lists see it: its names (free of      *)
(* digits), its events, its negation, hedging and relation cues, its       *)
(* numbers, its month, and whether it is about the core question.          *)
(***************************************************************************)
EXTENDS Integers, Sources

CONSTANTS
  Name,        \* words for who and what: subject, object, qualifiers
  Verb,        \* normalized predicates
  Year,        \* numbers that are years
  Amount,      \* other numbers
  Published,   \* publication date of a page; month 0 when no trusted provider dates it
  Says,        \* the sentences of a page
  Extracts,    \* what the model may propose for a page: sequences of proposals
  Antecedent   \* the sole name "They" can stand for in a page, or "They"

CONSTANTS
  They,        \* the pronoun, which is a word like any other
  None         \* no identity, no original

Polarity == {"AFFIRMED", "NEGATED"}
Modality == {"OCCURRED", "ANNOUNCED", "PLANNED", "POSSIBLE", "ESTIMATED"}
Relation == {"DESCRIPTIVE", "ASSOCIATIVE", "CAUSAL"}
ClaimType == {"FACT", "INFERENCE", "OPINION"}
Month == 1..12
Number == Year \cup Amount \cup Month

Wording == [names : SUBSET Name, events : SUBSET Verb, polarities : SUBSET Polarity,
            cues : SUBSET Relation, hedged : BOOLEAN, numbers : SUBSET Number,
            month : Month \cup {0}, plain : BOOLEAN, about : {"question", "something else", "its source"}]

\* normalizeClaimIdentity: 0 is an absent year, month or quantity.
Identity ==
  {i \in [names : SUBSET Name, predicate : Verb, year : Year \cup {0}, month : Month \cup {0},
          quantity : Amount \cup {0}, polarity : Polarity, modality : Modality, relation : Relation] :
     i.names # {} /\ (i.month # 0 => i.year # 0)}

\* What the model proposes; without an original, the claim is said to be a quote.
Proposal == [text : Wording, original : Wording \cup {None}, identity : Identity \cup {None},
             kind : ClaimType, loadBearing : BOOLEAN]

ASSUME ClaimRowsAssumption ==
  /\ They \in Name
  /\ Year \subseteq Nat \ {0}
  /\ Amount \subseteq Nat \ {0}
  /\ Year \cap Amount = {} /\ Month \cap (Year \cup Amount) = {}
  /\ Published \in [Page -> [year : Year, month : Month \cup {0}]]
  /\ Says \in [Page -> SUBSET Wording]
  /\ Extracts \subseteq Seq(Proposal)
  /\ Antecedent \in [Page -> Name]

-----------------------------------------------------------------------------
(* Normalization: applySafeNormalization.                                  *)

\* The rewrite is the original with "They" replaced by its one antecedent.
IsSubstitution(text, original, page) ==
  /\ They \in original.names
  /\ Antecedent[page] # They
  /\ text = [original EXCEPT !.names = (@ \ {They}) \cup {Antecedent[page]}]

IsVerbatim(p, page) ==
  IF p.original = None THEN p.text \in Says[page]
  ELSE p.original \in Says[page] /\ (p.text = p.original \/ IsSubstitution(p.text, p.original, page))

\* A rewrite of a sentence of the page that cannot be proven.
IsRejected(p, page) ==
  /\ p.original # None
  /\ p.original \in Says[page]
  /\ ~IsVerbatim(p, page)

\* Rejected, it gives way to the original, and its identity is void.
Normalized(p, page) ==
  [text        |-> IF IsRejected(p, page) THEN p.original ELSE p.text,
   identity    |-> IF IsRejected(p, page) THEN None ELSE p.identity,
   kind        |-> p.kind,
   loadBearing |-> p.loadBearing,
   trusted     |-> IsVerbatim(p, page)]

-----------------------------------------------------------------------------
(* The identity against the wording: deriveClaimIdentity.                  *)

\* compoundTextConflict: a second event makes the identity a partial one.
SaysNoOtherEvent(text, i) == text.events \subseteq {i.predicate}

\* Mutant: the identity's own polarity is believed.
AgreesWithTextUnlessNegated(text, i) ==
  /\ text.cues \subseteq {i.relation}
  /\ text.hedged => i.modality # "OCCURRED"
  /\ text.numbers \subseteq {i.year, i.month, i.quantity}
  /\ text.month \in {0, i.month}
  /\ SaysNoOtherEvent(text, i)

\* identityTextConflict is null: one polarity, no second event, no cue, number
\* or month the identity leaves out.
AgreesWithText(text, i) ==
  /\ text.polarities = {i.polarity}
  /\ text.cues \subseteq {i.relation}
  /\ text.hedged => i.modality # "OCCURRED"
  /\ text.numbers \subseteq {i.year, i.month, i.quantity}
  /\ text.month \in {0, i.month}
  /\ SaysNoOtherEvent(text, i)

MaxPublicationGapMonths == 3

\* resolvePublicationYear: a page published in the months after vouches for the
\* year of a plain "in March".
IsVouchedFor(text, i, published) ==
  /\ i.modality \in {"OCCURRED", "ANNOUNCED"}
  /\ text.numbers \cap Year = {}
  /\ text.plain
  /\ text.month # 0 /\ text.month = i.month
  /\ published.month - i.month \in 1..MaxPublicationGapMonths
  /\ i.year = published.year

\* identityGroundingConflict: who, what and when are in the wording.
IsGrounded(text, i, published) ==
  /\ i.names \subseteq text.names
  /\ i.year \in {0} \cup text.numbers \/ IsVouchedFor(text, i, published)

IsTrusted(text, i, published) ==
  /\ i # None
  /\ AgreesWithText(text, i)
  /\ IsGrounded(text, i, published)

\* The fingerprint is a hash of the whole identity: equal iff the identities are.
Fingerprint(n, page) ==
  IF n.kind = "FACT" /\ IsTrusted(n.text, n.identity, Published[page]) THEN n.identity ELSE None

-----------------------------------------------------------------------------
(* Rows: the persistence loop of runResearchBody.                          *)

\* A row, with the wordings the decision log keeps of it, and what the indexes
\* of the loop hold of the first.
Row(n, page, fingerprint, converging) ==
  [text |-> n.text, kind |-> n.kind, loadBearing |-> n.loadBearing,
   said |-> {<<page, n.text>>}, identity |-> fingerprint, converging |-> converging]

\* isConvergenceEligible: trusted, about the question, and no pronoun to resolve.
IsConvergenceEligible(n, fingerprint) ==
  /\ fingerprint # None
  /\ n.trusted
  /\ n.text.about = "question" \/ (n.loadBearing /\ n.text.about # "its source")
  /\ They \notin n.text.names

IsLinked(row, page) == \E said \in row.said : said[1] = page

SameTextSameSource(rows, n, page) ==
  {k \in DOMAIN rows : rows[k].text = n.text /\ IsLinked(rows[k], page)}

\* claimIdentityIndex: the newest row with the fingerprint, unless its type or
\* its flag differs.
SameFingerprint(rows, indexed, n, fingerprint) ==
  LET known == {k \in indexed : rows[k].identity = fingerprint} IN
  {k \in known : /\ \A j \in known : j <= k
                 /\ fingerprint # None
                 /\ n.trusted
                 /\ rows[k].kind = n.kind
                 /\ rows[k].loadBearing = n.loadBearing}

\* ConvergenceIndex: rows that entered it, without this page.
Candidates(rows, page) == {k \in DOMAIN rows : rows[k].converging /\ ~IsLinked(rows[k], page)}

\* compareClaimIdentities promotes only when every field is exact.
Promotable(rows, n, page, fingerprint) ==
  {k \in Candidates(rows, page) : /\ IsConvergenceEligible(n, fingerprint)
                                  /\ rows[k].identity = fingerprint
                                  /\ rows[k].kind = n.kind
                                  /\ rows[k].loadBearing = n.loadBearing}

\* evaluateConvergence: two candidates are one too many.
Promoted(rows, n, page, fingerprint) ==
  LET K == Promotable(rows, n, page, fingerprint) IN IF Cardinality(K) = 1 THEN K ELSE {}

\* The row a proposal shares, if any: the first of the three ways that finds one.
Shared(acc, n, page, fingerprint) ==
  LET dedup == SameTextSameSource(acc.rows, n, page)
      equal == SameFingerprint(acc.rows, acc.indexed, n, fingerprint)
  IN IF dedup # {} THEN {k \in dedup : \A j \in dedup : k <= j}
     ELSE IF equal # {} THEN equal
     ELSE Promoted(acc.rows, n, page, fingerprint)

\* One turn of the loop.
Store(acc, n, page) ==
  LET fingerprint == Fingerprint(n, page)
      shared == Shared(acc, n, page, fingerprint)
      new == Len(acc.rows) + 1
  IN IF shared # {}
     THEN [acc EXCEPT !.rows[CHOOSE k \in shared : TRUE].said = @ \cup {<<page, n.text>>}]
     ELSE [rows    |-> Append(acc.rows, Row(n, page, fingerprint, IsConvergenceEligible(n, fingerprint))),
           indexed |-> IF fingerprint # None /\ n.trusted THEN acc.indexed \cup {new} ELSE acc.indexed]

\* The proposals of one page, in turn, on top of whatever is stored.
Stored(accs, page, extract) ==
  LET after[n \in 0..Len(extract)] ==
        IF n = 0 THEN accs ELSE {Store(acc, Normalized(extract[n], page), page) : acc \in after[n - 1]}
  IN after[Len(extract)]

\* The rows that may come of some pages, in whatever order they were acquired.
RowsOf(pages) ==
  LET through(order) ==
        LET after[k \in 0..Len(order)] ==
              IF k = 0 THEN {[rows |-> <<>>, indexed |-> {}]}
              ELSE UNION {Stored(after[k - 1], order[k], extract) : extract \in Extracts}
        IN after[Len(order)]
  IN {acc.rows : acc \in UNION {through(order) : order \in SetToSeqs(pages)}}

-----------------------------------------------------------------------------
\* Two wordings that cannot state the same fact.
Disagree(t, u) ==
  \/ t.polarities # u.polarities
  \/ \E e \in t.events, f \in u.events : e # f
  \/ \E c \in t.cues, d \in u.cues : c # d
  \/ \E m, n \in Year : m # n /\ m \in t.numbers /\ n \in u.numbers
  \/ \E m, n \in Amount : m # n /\ m \in t.numbers /\ n \in u.numbers
  \/ t.month # 0 /\ u.month # 0 /\ t.month # u.month

=============================================================================
