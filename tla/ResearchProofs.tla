---------------------------- MODULE ResearchProofs ----------------------------
(***************************************************************************)
(* Proofs about a research project, for any pages, searches, replies,      *)
(* proposals of the model and ceilings.                                    *)
(*                                                                         *)
(* The loops of the program are recursive functions of the model, and what *)
(* they compute is proved by induction.  The induction theorems of the     *)
(* library take an operator as a parameter and cannot be used; lemma UpTo  *)
(* below does instead: it speaks of a set of numbers.  In this order:      *)
(* induction; the pages of a search and of an acquisition pass; the rows   *)
(* of one proposal, of a page and of an extraction; counting; the          *)
(* invariant and its preservation; the theorems.                           *)
(***************************************************************************)
EXTENDS Research, FiniteSetTheorems, SequenceTheorems, WellFoundedInduction, TLAPS

-----------------------------------------------------------------------------
(* Induction over the numbers below a bound, and what it says of a         *)
(* function that each of its values is computed from the one before.       *)

Less == {ss \in Nat \X Nat : ss[1] < ss[2]}

LEMMA LeastNumber ==
  ASSUME NEW S \in SUBSET Nat, S # {}
  PROVE  \E n \in S : \A m \in S : n <= m
<1>1. IsWellFoundedOn(Less, Nat)
  BY NatLessThanWellFounded DEF Less, OpToRel
<1>2. PICK n \in S : \A m \in S : <<m, n>> \notin Less
  BY <1>1, WFMin
<1>3. \A m \in S : ~(m < n)
  BY <1>2 DEF Less
<1>4. QED
  BY <1>3

LEMMA UpTo ==
  ASSUME NEW N \in Nat, NEW S, 0 \in S, \A n \in 0..(N - 1) : n \in S => n + 1 \in S
  PROVE  \A n \in 0..N : n \in S
<1> DEFINE T == {n \in 0..N : n \notin S}
<1>1. SUFFICES ASSUME T # {} PROVE FALSE
  OBVIOUS
<1>2. PICK n \in T : \A m \in T : n <= m
  <2>1. T \in SUBSET Nat
    OBVIOUS
  <2> HIDE DEF T
  <2>2. QED
    BY <1>1, <2>1, LeastNumber
<1>3. n # 0 /\ n - 1 \in 0..(N - 1) /\ n - 1 \notin T
  BY <1>2
<1>4. QED
  BY <1>3

Reaches(N, X, first, step) ==
  \E f \in [0..N -> X] : f[0] = first /\ \A n \in 1..N : f[n] = step[n][f[n - 1]]

LEMMA Recursion ==
  ASSUME NEW N \in Nat, NEW X, NEW first \in X, NEW step \in [1..N -> [X -> X]]
  PROVE  Reaches(N, X, first, step)
<1> DEFINE S == {k \in 0..N : \E f \in [0..k -> X] : f[0] = first /\ \A n \in 1..k : f[n] = step[n][f[n - 1]]}
<1>1. 0 \in S
  <2>1. [n \in 0..0 |-> first] \in [0..0 -> X] /\ [n \in 0..0 |-> first][0] = first
    OBVIOUS
  <2>2. 0 \in 0..N /\ 1..0 = {}
    OBVIOUS
  <2>3. QED
    BY <2>1, <2>2
<1>2. ASSUME NEW k \in 0..(N - 1), k \in S PROVE k + 1 \in S
  <2>1. PICK f \in [0..k -> X] : f[0] = first /\ \A n \in 1..k : f[n] = step[n][f[n - 1]]
    BY <1>2
  <2> DEFINE g == [n \in 0..(k + 1) |-> IF n = k + 1 THEN step[k + 1][f[k]] ELSE f[n]]
  <2>2. g \in [0..(k + 1) -> X]
    <3>1. step[k + 1] \in [X -> X] /\ f[k] \in X
      OBVIOUS
    <3>2. \A n \in 0..(k + 1) : n # k + 1 => n \in 0..k
      OBVIOUS
    <3>3. QED
      BY <3>1, <3>2
  <2>3. g[0] = first
    BY <2>1
  <2>4. ASSUME NEW n \in 1..(k + 1) PROVE g[n] = step[n][g[n - 1]]
    <3>1. n - 1 \in 0..k /\ g[n - 1] = f[n - 1]
      OBVIOUS
    <3>2. CASE n = k + 1
      BY <3>1, <3>2
    <3>3. CASE n \in 1..k
      BY <2>1, <3>1, <3>3
    <3>4. QED
      BY <3>2, <3>3
  <2> HIDE DEF g
  <2>5. QED
    BY <2>2, <2>3, <2>4
<1> HIDE DEF S
<1>3. \A n \in 0..N : n \in S
  BY <1>1, <1>2, UpTo
<1>4. QED
  BY <1>3, N \in 0..N DEF S, Reaches

-----------------------------------------------------------------------------
(* What a search lists and what an acquisition takes.                      *)

LEMMA PermutationsAreSequences ==
  ASSUME NEW S, IsFiniteSet(S), NEW l \in SetToAllKPermutations(S)
  PROVE  l \in Seq(S)
<1>1. PICK T \in SUBSET S : l \in SetToSeqs(T)
  BY DEF SetToAllKPermutations
<1>2. IsFiniteSet(T) /\ Cardinality(T) \in Nat
  BY FS_Subset, FS_CardinalityType
<1>3. l \in [1..Cardinality(T) -> S]
  BY <1>1 DEF SetToSeqs
<1>4. QED
  BY <1>2, <1>3

LEMMA NewLinksAreWanted ==
  ASSUME NEW S, IsFiniteSet(S), NEW max \in Nat, NEW l \in NewLinks(S, max)
  PROVE  l \in Seq(S)
<1>1. PICK listing \in SetToAllKPermutations(S) : l = FirstOf(listing, max)
  BY DEF NewLinks
<1>2. listing \in Seq(S)
  BY <1>1, PermutationsAreSequences
<1>3. AtMost(Len(listing), max) \in 0..Len(listing)
  BY <1>2 DEF AtMost
<1>4. QED
  BY <1>1, <1>2, <1>3 DEF FirstOf

\* No search lists a link that is known.
LEMMA DiscoverIsNew ==
  ASSUME SourcesAreSound, NEW known \in SUBSET Page, NEW max \in Nat, NEW found \in Discover(known, max)
  PROVE  found \in Seq(Page \ known)
<1>1. IsFiniteSet(Page \ known) /\ IsFiniteSet(Page \ (known \cup Wrapper))
  BY FS_Subset DEF SourcesAreSound
<1>2. AtMost(max, MaxResults) \in Nat
  BY DEF AtMost, MaxResults
<1>3. \/ found = <<>>
      \/ found \in NewLinks(Page \ known, max) \/ found \in NewLinks(Page \ known, AtMost(max, MaxResults))
      \/ found \in NewLinks(Page \ (known \cup Wrapper), max)
  BY DEF Discover, GoogleNewsRss, WithFallback, Tavily, DuckDuckGo
<1>4. found = <<>> \/ found \in Seq(Page \ known) \/ found \in Seq(Page \ (known \cup Wrapper))
  BY <1>1, <1>2, <1>3, NewLinksAreWanted
<1>5. <<>> \in Seq(Page \ known) /\ Seq(Page \ (known \cup Wrapper)) \subseteq Seq(Page \ known)
  BY SeqMonotonic, EmptySeq
<1>6. QED
  BY <1>4, <1>5

LEMMA CascadeIsNew ==
  ASSUME SourcesAreSound, NEW known \in SUBSET Page, NEW linked, NEW room \in Nat, NEW budget \in Nat,
         NEW found \in Cascade(known, linked, room, budget)
  PROVE  found \in Seq(Page \ known)
<1> DEFINE findable == {p \in UNION {ToSet(l) : l \in Discover(known, room)} : Domain[p] \notin linked /\ p \notin Social}
<1>1. PICK S \in SUBSET findable : found \in SetToSeqs(S)
  BY DEF Cascade
<1>2. findable \subseteq Page \ known
  <2>1. ASSUME NEW l \in Discover(known, room) PROVE ToSet(l) \subseteq Page \ known
    <3>1. l \in Seq(Page \ known)
      BY DiscoverIsNew
    <3>2. QED
      BY <3>1 DEF ToSet
  <2>2. QED
    BY <2>1
<1>3. IsFiniteSet(Page \ known)
  BY FS_Subset DEF SourcesAreSound
<1>4. found \in SetToAllKPermutations(Page \ known)
  BY <1>1, <1>2 DEF SetToAllKPermutations
<1>5. QED
  BY <1>3, <1>4, PermutationsAreSequences

\* What a pass over some pages may have taken by any of its turns.
Passes(P, room, budget) ==
  {a \in [pages : SUBSET P, ok : SUBSET P, tries : Nat, visited : Nat] :
     a.ok \subseteq a.pages /\ Cardinality(a.pages) <= room /\ a.tries <= budget}

LEMMA VisitStaysWithin ==
  ASSUME SourcesAreSound, NEW P, IsFiniteSet(P), NEW p \in P, NEW room \in Nat, NEW budget \in Nat,
         NEW a \in Passes(P, room, budget), NEW b \in Visit(a, p, room, budget)
  PROVE  b \in Passes(P, room, budget)
<1>1. CASE b = a
  BY <1>1
<1>2. CASE b # a
  <2>1. /\ Cardinality(a.pages) < room /\ a.tries < budget
        /\ IsFiniteSet(a.pages) /\ Cardinality(a.pages) \in Nat /\ a.tries \in Nat /\ a.visited \in Nat
        /\ a.ok \subseteq a.pages /\ a.pages \subseteq P
    BY <1>2, FS_Subset, FS_CardinalityType DEF Visit, Passes
  <2>2. PICK t \in Tries(p, budget - a.tries) :
          b = [pages |-> a.pages \cup {p}, ok |-> IF t[2] = "SUCCESS" THEN a.ok \cup {p} ELSE a.ok,
               tries |-> a.tries + t[1], visited |-> a.visited + 1]
    BY <1>2, <2>1 DEF Visit
  <2>3. t[1] \in Nat /\ a.tries + t[1] <= budget
    <3>1. t[1] \in 1..AtMost(1 + Retries, budget - a.tries)
      BY <2>2 DEF Tries
    <3>2. QED
      BY <2>1, <3>1 DEF AtMost, SourcesAreSound
  <2>4. Cardinality(a.pages \cup {p}) <= room
    <3>1. Cardinality(a.pages \cup {p}) \in {Cardinality(a.pages), Cardinality(a.pages) + 1}
      BY <2>1, FS_AddElement
    <3>2. QED
      BY <2>1, <3>1
  <2>5. QED
    BY <2>1, <2>2, <2>3, <2>4 DEF Passes
<1>3. QED
  BY <1>1, <1>2

\* A pass takes no more pages and makes no more requests than it may, and only
\* of its candidates.
LEMMA AcquiredWithin ==
  ASSUME SourcesAreSound, NEW P, IsFiniteSet(P), NEW candidates \in Seq(P), NEW room \in Nat, NEW budget \in Nat
  PROVE  AcquireSources(candidates, room, budget) \subseteq Passes(P, room, budget)
<1> DEFINE N == Len(candidates)
           X == SUBSET Passes(P, room, budget)
           first == {[pages |-> {}, ok |-> {}, tries |-> 0, visited |-> 0]}
           F(g) == [n \in 0..Len(candidates) |->
                      IF n = 0 THEN {[pages |-> {}, ok |-> {}, tries |-> 0, visited |-> 0]}
                      ELSE UNION {Visit(a, candidates[n], room, budget) : a \in g[n - 1]}]
           after == CHOOSE g : g = F(g)
           step == [n \in 1..N |-> [A \in X |-> UNION {Visit(a, candidates[n], room, budget) : a \in A}]]
<1>1. AcquireSources(candidates, room, budget) = after[N]
  BY DEF AcquireSources
<1>2. N \in Nat /\ \A n \in 1..N : candidates[n] \in P
  OBVIOUS
<1>3. first \in X
  <2>1. Cardinality({}) = 0
    BY FS_EmptySet
  <2>2. [pages |-> {}, ok |-> {}, tries |-> 0, visited |-> 0] \in Passes(P, room, budget)
    <3> DEFINE none == {}
    <3>1. Cardinality(none) <= room /\ 0 <= budget /\ none \in SUBSET P
      BY <2>1
    <3> HIDE DEF none
    <3>2. [pages |-> none, ok |-> none, tries |-> 0, visited |-> 0] \in Passes(P, room, budget)
      BY <3>1 DEF Passes
    <3>3. QED
      BY <3>2 DEF none
  <2>3. QED
    BY <2>2
<1>4. ASSUME NEW n \in 1..N, NEW A \in X PROVE UNION {Visit(a, candidates[n], room, budget) : a \in A} \in X
  BY <1>2, VisitStaysWithin
<1>5. step \in [1..N -> [X -> X]]
  BY <1>4
<1>6. \E g : g = F(g)
  <2> HIDE DEF N, X, first, step
  <2>1. PICK f \in [0..N -> X] : f[0] = first /\ \A n \in 1..N : f[n] = step[n][f[n - 1]]
    <3>1. N \in Nat
      BY <1>2
    <3>2. QED
      <4>1. Reaches(N, X, first, step)
        BY <3>1, <1>3, <1>5, Recursion
      <4>2. QED
        BY <4>1 DEF Reaches
  <2> USE DEF N, first
  <2>2. ASSUME NEW n \in 0..N PROVE f[n] = F(f)[n]
    <3>1. CASE n = 0
      BY <2>1, <3>1
    <3>2. CASE n \in 1..N
      <4>1. f[n - 1] \in X
        BY <1>2, <3>2
      <4>2. step[n][f[n - 1]] = UNION {Visit(a, candidates[n], room, budget) : a \in f[n - 1]}
        BY <3>2, <4>1 DEF step
      <4>3. QED
        BY <2>1, <3>2, <4>2
    <3>3. QED
      BY <1>2, <3>1, <3>2
  <2>3. f = F(f)
    BY <2>2
  <2>4. QED
    BY <2>3
<1>7. after = F(after)
  BY <1>6
<1>8. after[0] = first /\ \A n \in 1..N : after[n] = UNION {Visit(a, candidates[n], room, budget) : a \in after[n - 1]}
  <2> HIDE DEF after
  <2>1. F(after)[0] = first
    BY <1>2
  <2>2. ASSUME NEW n \in 1..N
        PROVE  F(after)[n] = UNION {Visit(a, candidates[n], room, budget) : a \in after[n - 1]}
    <3>1. n \in 0..Len(candidates) /\ n # 0
      BY <1>2
    <3>2. QED
      BY <3>1
  <2> HIDE DEF F
  <2>3. QED
    BY <1>7, <2>1, <2>2
<1> HIDE DEF F, after, step, first, X
<1> DEFINE S == {n \in 0..N : after[n] \in X}
<1>9. 0 \in S
  BY <1>2, <1>3, <1>8
<1>10. ASSUME NEW n \in 0..(N - 1), n \in S PROVE n + 1 \in S
  BY <1>2, <1>4, <1>8, <1>10
<1> HIDE DEF S
<1>11. \A n \in 0..N : n \in S
  BY <1>2, <1>9, <1>10, UpTo
<1>12. QED
  BY <1>1, <1>2, <1>11 DEF S, X

\* Pages that share the row agree with its identity; without one, it has one page.
IsSound(row) ==
  /\ row.identity # None =>
       /\ row.identity \in Identity
       /\ AgreesWithText(row.text, row.identity)
       /\ \A s \in row.said : AgreesWithText(s[2], row.identity)
  /\ row.identity = None => \A s, t \in row.said : s[1] = t[1]

RowSet == [text : Wording, kind : ClaimType, loadBearing : BOOLEAN, said : SUBSET (Page \X Wording),
           identity : Identity \cup {None}, converging : BOOLEAN]

\* What the loop has stored: its rows, and those its identity index knows.
Stores == [rows : Seq(RowSet), indexed : SUBSET Nat]
IsSoundStore(acc) ==
  /\ acc \in Stores
  /\ acc.indexed \subseteq DOMAIN acc.rows
  /\ \A k \in DOMAIN acc.rows : IsSound(acc.rows[k])

\* A row joins no two wordings of different facts.
StatesOneFact(row) == \A s, t \in row.said : s[1] # t[1] => ~Disagree(s[2], t[2])

-----------------------------------------------------------------------------
\* Two wordings that agree with the identity of a proposition do not disagree:
\* neither negates what the other affirms, and they name no two events, relations,
\* years, amounts or months (identityTextConflict).
THEOREM AgreementIsShared ==
  ASSUME NEW t \in Wording, NEW u \in Wording, NEW i \in Identity,
         AgreesWithText(t, i), AgreesWithText(u, i)
  PROVE  ~Disagree(t, u)
<1> USE DEF AgreesWithText
<1>1. /\ i.year \in Year \cup {0} /\ i.month \in Month \cup {0} /\ i.quantity \in Amount \cup {0}
  BY DEF Identity
<1>2. t.polarities = u.polarities
  OBVIOUS
<1>3. ~\E e \in t.events, f \in u.events : e # f
  BY DEF SaysNoOtherEvent
<1>4. ~\E c \in t.cues, d \in u.cues : c # d
  OBVIOUS
<1>5. ~\E m, n \in Year : m # n /\ m \in t.numbers /\ n \in u.numbers
  <2>1. \A m \in Year : m \in {i.year, i.month, i.quantity} => m = i.year
    BY <1>1, ClaimRowsAssumption DEF ClaimRowsAssumption
  <2> QED BY <2>1
<1>6. ~\E m, n \in Amount : m # n /\ m \in t.numbers /\ n \in u.numbers
  <2>1. \A m \in Amount : m \in {i.year, i.month, i.quantity} => m = i.quantity
    BY <1>1, ClaimRowsAssumption DEF ClaimRowsAssumption
  <2> QED BY <2>1
<1>7. ~(t.month # 0 /\ u.month # 0 /\ t.month # u.month)
  OBVIOUS
<1> QED BY <1>2, <1>3, <1>4, <1>5, <1>6, <1>7 DEF Disagree

\* A sound row states one fact (RowsStateOneFact, of one row).
THEOREM SoundRowsStateOneFact ==
  ASSUME NEW row \in RowSet, IsSound(row)
  PROVE  StatesOneFact(row)
<1> SUFFICES ASSUME NEW s \in row.said, NEW t \in row.said, s[1] # t[1]
             PROVE  ~Disagree(s[2], t[2])
  BY DEF StatesOneFact
<1>1. row.identity # None
  BY DEF IsSound
<1>2. s[2] \in Wording /\ t[2] \in Wording
  BY DEF RowSet
<1> QED BY <1>1, <1>2, AgreementIsShared DEF IsSound

-----------------------------------------------------------------------------
\* What normalization makes of a proposal.
IsClaim(n) ==
  /\ n.text \in Wording
  /\ n.kind \in ClaimType
  /\ n.loadBearing \in BOOLEAN
  /\ n.identity \in Identity \cup {None}

LEMMA NormalizedIsClaim ==
  ASSUME NEW p \in Proposal, NEW page \in Page
  PROVE  IsClaim(Normalized(p, page))
<1>1. /\ p.text \in Wording /\ p.original \in Wording \cup {None}
      /\ p.identity \in Identity \cup {None}
      /\ p.kind \in ClaimType /\ p.loadBearing \in BOOLEAN
  BY DEF Proposal
<1> QED BY <1>1 DEF IsClaim, Normalized, IsRejected

\* A fingerprint is an identity the wording agrees with.
LEMMA FingerprintAgrees ==
  ASSUME NEW n, NEW page, IsClaim(n), Fingerprint(n, page) # None
  PROVE  /\ Fingerprint(n, page) \in Identity
         /\ AgreesWithText(n.text, Fingerprint(n, page))
<1>1. Fingerprint(n, page) = n.identity /\ IsTrusted(n.text, n.identity, Published[page])
  BY DEF Fingerprint
<1> QED BY <1>1 DEF IsTrusted, IsClaim

\* The row a claim shares can take its wording.
LEMMA SharedRowAgrees ==
  ASSUME NEW acc, NEW n, NEW page \in Page, IsClaim(n), IsSoundStore(acc),
         NEW k \in Shared(acc, n, page, Fingerprint(n, page))
  PROVE  /\ k \in DOMAIN acc.rows
         /\ acc.rows[k].identity # None => AgreesWithText(n.text, acc.rows[k].identity)
         /\ acc.rows[k].identity = None => \A s \in acc.rows[k].said : s[1] = page
<1> DEFINE f == Fingerprint(n, page)
<1>0. \A j \in DOMAIN acc.rows : IsSound(acc.rows[j])
  BY DEF IsSoundStore
<1>1. \/ k \in SameTextSameSource(acc.rows, n, page)
      \/ k \in SameFingerprint(acc.rows, acc.indexed, n, f)
      \/ k \in Promotable(acc.rows, n, page, f)
  BY DEF Shared, Promoted
<1>2. CASE k \in SameTextSameSource(acc.rows, n, page)
  <2>1. k \in DOMAIN acc.rows /\ acc.rows[k].text = n.text /\ IsLinked(acc.rows[k], page)
    BY <1>2 DEF SameTextSameSource
  <2>2. IsSound(acc.rows[k])
    BY <1>0, <2>1
  <2> QED BY <2>1, <2>2 DEF IsSound, IsLinked
<1>3. CASE k \in SameFingerprint(acc.rows, acc.indexed, n, f)
  <2>1. k \in acc.indexed /\ acc.rows[k].identity = f /\ f # None
    BY <1>3 DEF SameFingerprint
  <2>2. k \in DOMAIN acc.rows
    BY <2>1 DEF IsSoundStore
  <2> QED BY <2>1, <2>2, FingerprintAgrees
<1>4. CASE k \in Promotable(acc.rows, n, page, f)
  <2>1. k \in DOMAIN acc.rows /\ acc.rows[k].identity = f /\ f # None
    BY <1>4 DEF Promotable, Candidates, IsConvergenceEligible
  <2> QED BY <2>1, FingerprintAgrees
<1> QED BY <1>1, <1>2, <1>3, <1>4

LEMMA NothingStoredIsSound == IsSoundStore([rows |-> <<>>, indexed |-> {}])
BY DEF IsSoundStore, Stores

\* One turn of the loop keeps every row sound, whatever the proposal and whatever
\* was stored before it (the persistence loop of runResearchBody).
THEOREM StoreKeepsRowsSound ==
  ASSUME NEW acc, IsSoundStore(acc), NEW p \in Proposal, NEW page \in Page
  PROVE  IsSoundStore(Store(acc, Normalized(p, page), page))
<1> DEFINE n == Normalized(p, page)
           f == Fingerprint(n, page)
           shared == Shared(acc, n, page, f)
           k == CHOOSE j \in shared : TRUE
           converging == IsConvergenceEligible(n, f)
           row == Row(n, page, f, converging)
<1>1. IsClaim(n)
  BY NormalizedIsClaim
<1> HIDE DEF n
<1>2. acc \in Stores /\ acc.indexed \subseteq DOMAIN acc.rows /\ acc.rows \in Seq(RowSet)
  BY DEF IsSoundStore, Stores
<1>3. \A j \in DOMAIN acc.rows : IsSound(acc.rows[j]) /\ acc.rows[j] \in RowSet
  BY <1>2 DEF IsSoundStore
<1>4. CASE shared # {}
  <2>1. k \in shared
    BY <1>4
  <2> HIDE DEF k
  <2>2. /\ k \in DOMAIN acc.rows
        /\ acc.rows[k].identity # None => AgreesWithText(n.text, acc.rows[k].identity)
        /\ acc.rows[k].identity = None => \A s \in acc.rows[k].said : s[1] = page
    BY <2>1, <1>1, SharedRowAgrees
  <2> DEFINE joined == [acc.rows[k] EXCEPT !.said = @ \cup {<<page, n.text>>}]
             new == [acc.rows EXCEPT ![k] = joined]
  <2>3. acc.rows[k] \in RowSet /\ IsSound(acc.rows[k]) /\ n.text \in Wording
    BY <2>2, <1>3, <1>1 DEF IsClaim
  <2>4. /\ joined.text = acc.rows[k].text
        /\ joined.identity = acc.rows[k].identity
        /\ joined.said = acc.rows[k].said \cup {<<page, n.text>>}
    BY <2>3 DEF RowSet
  <2>5. joined \in RowSet
    BY <2>3 DEF RowSet
  <2> HIDE DEF joined
  <2>6. IsSound(joined)
    BY <2>2, <2>3, <2>4 DEF IsSound
  <2>7. new \in Seq(RowSet) /\ DOMAIN new = DOMAIN acc.rows
    BY <1>2, <2>2, <2>5
  <2>8. \A j \in DOMAIN new : IsSound(new[j])
    BY <1>3, <2>2, <2>6
  <2>9. Store(acc, n, page) = [acc EXCEPT !.rows = new]
    BY <1>4 DEF Store, k, joined
  <2> HIDE DEF new
  <2>10. /\ Store(acc, n, page) \in Stores
         /\ Store(acc, n, page).rows = new
         /\ Store(acc, n, page).indexed = acc.indexed
    BY <2>9, <2>7, <1>2 DEF Stores
  <2> QED BY <2>10, <2>7, <2>8, <1>2 DEF IsSoundStore, n
<1>5. CASE shared = {}
  <2> DEFINE new == Append(acc.rows, row)
             indexed == IF f # None /\ n.trusted THEN acc.indexed \cup {Len(acc.rows) + 1} ELSE acc.indexed
  <2>1. f # None => f \in Identity /\ AgreesWithText(n.text, f)
    BY <1>1, FingerprintAgrees
  <2>2. converging \in BOOLEAN
    BY DEF IsConvergenceEligible
  <2> HIDE DEF f, converging
  <2>3. /\ row.text = n.text /\ row.identity = f
        /\ row.said = {<<page, n.text>>}
    BY DEF Row
  <2>4. row \in RowSet
    BY <1>1, <2>1, <2>2 DEF Row, RowSet, IsClaim
  <2>5. IsSound(row)
    BY <2>1, <2>3 DEF IsSound
  <2> HIDE DEF row
  <2>6. /\ new \in Seq(RowSet)
        /\ DOMAIN new = 1..(Len(acc.rows) + 1) /\ DOMAIN acc.rows = 1..Len(acc.rows)
        /\ Len(acc.rows) \in Nat
    BY <1>2, <2>4
  <2>7. \A j \in DOMAIN new : new[j] = IF j = Len(acc.rows) + 1 THEN row ELSE acc.rows[j]
    BY <1>2, <2>6
  <2>8. \A j \in DOMAIN new : IsSound(new[j])
    BY <1>3, <2>5, <2>6, <2>7
  <2>9. indexed \subseteq DOMAIN new /\ indexed \in SUBSET Nat
    BY <1>2, <2>6
  <2>10. Store(acc, n, page) = [rows |-> new, indexed |-> indexed]
    BY <1>5 DEF Store, f, row, converging
  <2> HIDE DEF new, indexed
  <2> QED BY <2>10, <2>6, <2>8, <2>9 DEF IsSoundStore, Stores, n
<1> QED BY <1>4, <1>5

-----------------------------------------------------------------------------
(* The rows of a whole extraction.                                         *)

SoundStores == {acc \in Stores : IsSoundStore(acc)}

\* The proposals of a page, in turn, keep every row sound.
LEMMA StoredIsSound ==
  ASSUME NEW accs \in SUBSET SoundStores, NEW page \in Page, NEW extract \in Seq(Proposal)
  PROVE  Stored(accs, page, extract) \in SUBSET SoundStores
<1> DEFINE N == Len(extract)
           X == SUBSET SoundStores
           F(g) == [n \in 0..Len(extract) |->
                      IF n = 0 THEN accs
                      ELSE {Store(acc, Normalized(extract[n], page), page) : acc \in g[n - 1]}]
           after == CHOOSE g : g = F(g)
           step == [n \in 1..N |-> [A \in X |-> {Store(acc, Normalized(extract[n], page), page) : acc \in A}]]
<1>1. Stored(accs, page, extract) = after[N]
  BY DEF Stored
<1>2. N \in Nat /\ \A n \in 1..N : extract[n] \in Proposal
  OBVIOUS
<1>3. ASSUME NEW n \in 1..N, NEW A \in X
      PROVE  {Store(acc, Normalized(extract[n], page), page) : acc \in A} \in X
  <2>1. ASSUME NEW acc \in A PROVE Store(acc, Normalized(extract[n], page), page) \in SoundStores
    <3>1. IsSoundStore(acc) /\ extract[n] \in Proposal
      BY <1>2 DEF SoundStores
    <3>2. IsSoundStore(Store(acc, Normalized(extract[n], page), page))
      BY <3>1, StoreKeepsRowsSound
    <3>3. QED
      BY <3>2 DEF SoundStores, IsSoundStore
  <2>2. QED
    BY <2>1
<1>4. step \in [1..N -> [X -> X]]
  BY <1>3
<1>5. \E g : g = F(g)
  <2> HIDE DEF N, X, step
  <2>1. accs \in X
    BY DEF X
  <2>2. Reaches(N, X, accs, step)
    BY <1>2, <1>4, <2>1, Recursion
  <2>3. PICK f \in [0..N -> X] : f[0] = accs /\ \A n \in 1..N : f[n] = step[n][f[n - 1]]
    BY <2>2 DEF Reaches
  <2> USE DEF N
  <2>4. ASSUME NEW n \in 0..N PROVE f[n] = F(f)[n]
    <3>1. CASE n = 0
      BY <2>3, <3>1
    <3>2. CASE n \in 1..N
      <4>1. f[n - 1] \in X
        BY <1>2, <3>2
      <4>2. step[n][f[n - 1]] = {Store(acc, Normalized(extract[n], page), page) : acc \in f[n - 1]}
        BY <3>2, <4>1 DEF step
      <4>3. QED
        BY <2>3, <3>2, <4>2
    <3>3. QED
      BY <1>2, <3>1, <3>2
  <2>5. f = F(f)
    BY <2>4
  <2>6. QED
    BY <2>5
<1>6. after = F(after)
  BY <1>5
<1>7. /\ after[0] = accs
      /\ \A n \in 1..N : after[n] = {Store(acc, Normalized(extract[n], page), page) : acc \in after[n - 1]}
  <2> HIDE DEF after
  <2>1. F(after)[0] = accs
    BY <1>2
  <2>2. ASSUME NEW n \in 1..N
        PROVE  F(after)[n] = {Store(acc, Normalized(extract[n], page), page) : acc \in after[n - 1]}
    <3>1. n \in 0..Len(extract) /\ n # 0
      BY <1>2
    <3>2. QED
      BY <3>1
  <2> HIDE DEF F
  <2>3. QED
    BY <1>6, <2>1, <2>2
<1>8. accs \in X
  OBVIOUS
<1> HIDE DEF F, after, step, X
<1> DEFINE S == {n \in 0..N : after[n] \in X}
<1>9. 0 \in S
  BY <1>2, <1>7, <1>8
<1>10. ASSUME NEW n \in 0..(N - 1), n \in S PROVE n + 1 \in S
  BY <1>2, <1>3, <1>7, <1>10
<1> HIDE DEF S
<1>11. \A n \in 0..N : n \in S
  BY <1>2, <1>9, <1>10, UpTo
<1>12. QED
  BY <1>1, <1>2, <1>11 DEF S, X

LEMMA OrdersAreSequences ==
  ASSUME NEW P, IsFiniteSet(P), NEW order \in SetToSeqs(P)
  PROVE  order \in Seq(P)
<1>1. order \in SetToAllKPermutations(P)
  BY DEF SetToAllKPermutations
<1>2. QED
  BY <1>1, PermutationsAreSequences

\* Whatever the model proposes and in whatever order the pages come, the rows are sound.
LEMMA RowsOfAreSound ==
  ASSUME NEW P \in SUBSET Page, IsFiniteSet(P), NEW found \in RowsOf(P)
  PROVE  found \in Seq(RowSet) /\ \A k \in DOMAIN found : IsSound(found[k])
<1> DEFINE F(order, g) == [k \in 0..Len(order) |->
              IF k = 0 THEN {[rows |-> <<>>, indexed |-> {}]}
              ELSE UNION {Stored(g[k - 1], order[k], extract) : extract \in Extracts}]
           after(order) == CHOOSE g : g = F(order, g)
           X == SUBSET SoundStores
           first == {[rows |-> <<>>, indexed |-> {}]}
<1>0. PICK order \in SetToSeqs(P) : \E acc \in after(order)[Len(order)] : found = acc.rows
  BY DEF RowsOf
<1>1. PICK acc \in after(order)[Len(order)] : found = acc.rows
  BY <1>0
<1>2. order \in Seq(P)
  BY OrdersAreSequences
<1> DEFINE N == Len(order)
           step == [k \in 1..N |-> [A \in X |-> UNION {Stored(A, order[k], extract) : extract \in Extracts}]]
<1>3. N \in Nat /\ \A k \in 1..N : order[k] \in Page
  BY <1>2
<1>4. first \in X
  <2>1. [rows |-> <<>>, indexed |-> {}] \in Stores
    BY NothingStoredIsSound DEF IsSoundStore
  <2>2. QED
    BY <2>1, NothingStoredIsSound DEF SoundStores
<1>5. ASSUME NEW k \in 1..N, NEW A \in X
      PROVE  UNION {Stored(A, order[k], extract) : extract \in Extracts} \in X
  <2>1. ASSUME NEW extract \in Extracts PROVE Stored(A, order[k], extract) \in X
    <3>1. extract \in Seq(Proposal) /\ order[k] \in Page
      BY <1>3, ClaimRowsAssumption DEF ClaimRowsAssumption
    <3>2. QED
      BY <3>1, StoredIsSound
  <2>2. QED
    BY <2>1
<1>6. step \in [1..N -> [X -> X]]
  BY <1>5
<1>7. \E g : g = F(order, g)
  <2> HIDE DEF N, X, first, step
  <2>1. Reaches(N, X, first, step)
    BY <1>3, <1>4, <1>6, Recursion
  <2>2. PICK f \in [0..N -> X] : f[0] = first /\ \A n \in 1..N : f[n] = step[n][f[n - 1]]
    BY <2>1 DEF Reaches
  <2> USE DEF N, first
  <2>3. ASSUME NEW n \in 0..N PROVE f[n] = F(order, f)[n]
    <3>1. CASE n = 0
      BY <2>2, <3>1
    <3>2. CASE n \in 1..N
      <4>1. f[n - 1] \in X
        BY <1>3, <3>2
      <4>2. step[n][f[n - 1]] = UNION {Stored(f[n - 1], order[n], extract) : extract \in Extracts}
        BY <3>2, <4>1 DEF step
      <4>3. QED
        BY <2>2, <3>2, <4>2
    <3>3. QED
      BY <1>3, <3>1, <3>2
  <2>4. f = F(order, f)
    BY <2>3
  <2>5. QED
    BY <2>4
<1> DEFINE reached == after(order)
<1>8. reached = F(order, reached)
  BY <1>7
<1>9. /\ reached[0] = first
      /\ \A n \in 1..N : reached[n] = UNION {Stored(reached[n - 1], order[n], extract) : extract \in Extracts}
  <2> HIDE DEF reached
  <2>1. F(order, reached)[0] = first
    BY <1>3
  <2>2. ASSUME NEW n \in 1..N
        PROVE  F(order, reached)[n] = UNION {Stored(reached[n - 1], order[n], extract) : extract \in Extracts}
    <3>1. n \in 0..Len(order) /\ n # 0
      BY <1>3
    <3>2. QED
      BY <3>1
  <2> HIDE DEF F
  <2>3. QED
    BY <1>8, <2>1, <2>2
<1>10. acc \in reached[N]
  BY <1>1
<1> HIDE DEF F, after, reached, step, first, X
<1> DEFINE S == {n \in 0..N : reached[n] \in X}
<1>11. 0 \in S
  BY <1>3, <1>4, <1>9
<1>12. ASSUME NEW n \in 0..(N - 1), n \in S PROVE n + 1 \in S
  BY <1>3, <1>5, <1>9, <1>12
<1> HIDE DEF S
<1>13. \A n \in 0..N : n \in S
  BY <1>3, <1>11, <1>12, UpTo
<1>14. acc \in SoundStores
  BY <1>3, <1>10, <1>13 DEF S, X
<1>15. QED
  BY <1>1, <1>14 DEF SoundStores, IsSoundStore, Stores

-----------------------------------------------------------------------------
(* Counting: the pairs of a comparison, and how many facts it takes.       *)

LEMMA TwoApart ==
  ASSUME NEW S, Cardinality(S) >= 2
  PROVE  \E x, y \in S : x # y
<1>1. SUFFICES ASSUME \A x, y \in S : x = y PROVE FALSE
  OBVIOUS
<1>2. S # {}
  BY FS_EmptySet
<1>3. PICK x \in S : TRUE
  BY <1>2
<1>4. S = {x}
  BY <1>1, <1>3
<1>5. Cardinality({x}) = 1
  BY FS_Singleton
<1>6. QED
  BY <1>4, <1>5

LEMMA TwoInAPair ==
  ASSUME NEW x, NEW y, x # y
  PROVE  Cardinality({x, y}) = 2
<1>1. {x, y} = {x} \cup {y} /\ y \notin {x}
  OBVIOUS
<1>2. IsFiniteSet({x}) /\ Cardinality({x}) = 1
  BY FS_Singleton
<1>3. Cardinality({x} \cup {y}) = Cardinality({x}) + 1
  BY <1>1, <1>2, FS_AddElement
<1>4. QED
  BY <1>1, <1>2, <1>3

\* One more element is paired with each of the others.
LEMMA PairsWithOneMore ==
  ASSUME NEW G, NEW x, x \notin G, IsFiniteSet(G), IsFiniteSet(PairsOf(G))
  PROVE  /\ IsFiniteSet(PairsOf(G \cup {x}))
         /\ Cardinality(PairsOf(G \cup {x})) = Cardinality(PairsOf(G)) + Cardinality(G)
<1> DEFINE New == {{x, y} : y \in G}
<1>1. ASSUME NEW pair \in PairsOf(G \cup {x}) PROVE pair \in PairsOf(G) \/ pair \in New
  <2>1. pair \in SUBSET (G \cup {x}) /\ Cardinality(pair) = 2
    BY DEF PairsOf
  <2>2. CASE x \notin pair
    BY <2>1, <2>2 DEF PairsOf
  <2>3. CASE x \in pair
    <3>1. IsFiniteSet(pair)
      BY <2>1, FS_Subset, FS_AddElement
    <3>2. IsFiniteSet(pair \ {x}) /\ Cardinality(pair \ {x}) = 1
      <4>1. IsFiniteSet(pair \ {x}) /\ Cardinality(pair \ {x}) = Cardinality(pair) - 1
        BY <2>3, <3>1, FS_RemoveElement
      <4>2. QED
        BY <2>1, <4>1
    <3>3. PICK y : pair \ {x} = {y}
      BY <3>2, FS_Singleton
    <3>4. y \in G /\ pair = {x, y}
      BY <2>1, <2>3, <3>3
    <3>5. QED
      BY <3>4
  <2>4. QED
    BY <2>2, <2>3
<1>2. \A y \in G : {x, y} \in PairsOf(G \cup {x})
  <2>1. ASSUME NEW y \in G PROVE {x, y} \in PairsOf(G \cup {x})
    <3>1. Cardinality({x, y}) = 2
      BY TwoInAPair
    <3>2. QED
      BY <3>1 DEF PairsOf
  <2>2. QED
    BY <2>1
<1>3. PairsOf(G) \subseteq PairsOf(G \cup {x})
  BY DEF PairsOf
<1>4. PairsOf(G \cup {x}) = PairsOf(G) \cup New
  BY <1>1, <1>2, <1>3
<1>5. IsFiniteSet(New) /\ Cardinality(New) = Cardinality(G)
  <2> DEFINE f == [y \in G |-> {x, y}]
  <2>1. f \in Bijection(G, New)
    <3>1. f \in [G -> New]
      OBVIOUS
    <3>2. \A y, z \in G : f[y] = f[z] => y = z
      OBVIOUS
    <3>3. \A t \in New : \E y \in G : f[y] = t
      OBVIOUS
    <3> HIDE DEF f, New
    <3>4. QED
      BY <3>1, <3>2, <3>3 DEF Bijection, Injection, Surjection, IsInjective
  <2>2. ExistsBijection(G, New)
    BY <2>1 DEF ExistsBijection
  <2>3. QED
    BY <2>2, FS_Bijection
<1>6. PairsOf(G) \cap New = {}
  BY DEF PairsOf
<1> HIDE DEF New
<1>7. /\ IsFiniteSet(PairsOf(G) \cup New)
      /\ Cardinality(PairsOf(G) \cup New) = Cardinality(PairsOf(G)) + Cardinality(New) - Cardinality(PairsOf(G) \cap New)
  BY <1>5, FS_Union
<1>8. Cardinality(PairsOf(G) \cap New) = 0
  BY <1>6, FS_EmptySet
<1>9. Cardinality(PairsOf(G)) \in Nat /\ Cardinality(G) \in Nat
  BY FS_CardinalityType
<1>10. Cardinality(PairsOf(G) \cup New) = Cardinality(PairsOf(G)) + Cardinality(G)
  BY <1>5, <1>7, <1>8, <1>9
<1>11. QED
  BY <1>4, <1>7, <1>10

LEMMA PairsOfCount ==
  ASSUME NEW F, IsFiniteSet(F)
  PROVE  /\ IsFiniteSet(PairsOf(F))
         /\ 2 * Cardinality(PairsOf(F)) = Cardinality(F) * (Cardinality(F) - 1)
<1> DEFINE Counted(G) == /\ IsFiniteSet(PairsOf(G))
                         /\ 2 * Cardinality(PairsOf(G)) = Cardinality(G) * (Cardinality(G) - 1)
           N == Cardinality(F)
           S == {n \in 0..N : \A G \in SUBSET F : Cardinality(G) = n => Counted(G)}
<1>1. N \in Nat
  BY FS_CardinalityType
<1>2. 0 \in S
  <2>1. ASSUME NEW G \in SUBSET F, Cardinality(G) = 0 PROVE Counted(G)
    <3>1. G = {}
      BY <2>1, FS_Subset, FS_EmptySet
    <3>2. ASSUME NEW pair \in PairsOf(G) PROVE FALSE
      <4>1. pair = {} /\ Cardinality(pair) = 2
        BY <3>1 DEF PairsOf
      <4>2. QED
        BY <4>1, FS_EmptySet
    <3>3. PairsOf(G) = {}
      BY <3>2
    <3>4. QED
      BY <3>1, <3>3, FS_EmptySet
  <2>2. QED
    BY <1>1, <2>1
<1>3. ASSUME NEW n \in 0..(N - 1), n \in S PROVE n + 1 \in S
  <2>1. ASSUME NEW G \in SUBSET F, Cardinality(G) = n + 1 PROVE Counted(G)
    <3>1. IsFiniteSet(G)
      BY FS_Subset
    <3>2. G # {}
      BY <1>1, <2>1, FS_EmptySet
    <3>3. PICK x \in G : TRUE
      BY <3>2
    <3> DEFINE H == G \ {x}
    <3>4. IsFiniteSet(H) /\ Cardinality(H) = n
      <4>1. IsFiniteSet(H) /\ Cardinality(H) = Cardinality(G) - 1
        BY <3>1, FS_RemoveElement
      <4>2. QED
        BY <1>1, <2>1, <4>1
    <3>5. x \notin H /\ G = H \cup {x} /\ H \in SUBSET F
      OBVIOUS
    <3> HIDE DEF H
    <3>6. Counted(H)
      BY <1>3, <3>4, <3>5
    <3>7. IsFiniteSet(PairsOf(G)) /\ Cardinality(PairsOf(G)) = Cardinality(PairsOf(H)) + n
      BY <3>4, <3>5, <3>6, PairsWithOneMore
    <3>8. Cardinality(PairsOf(H)) \in Nat /\ 2 * Cardinality(PairsOf(H)) = n * (n - 1)
      BY <3>4, <3>6, FS_CardinalityType
    <3>9. 2 * Cardinality(PairsOf(G)) = n * (n - 1) + 2 * n
      BY <1>1, <3>7, <3>8
    <3>10. n * (n - 1) + 2 * n = (n + 1) * ((n + 1) - 1)
      BY <1>1
    <3>11. QED
      BY <2>1, <3>7, <3>9, <3>10
  <2>2. QED
    BY <1>1, <2>1
<1> HIDE DEF S, Counted
<1>4. \A n \in 0..N : n \in S
  BY <1>1, <1>2, <1>3, UpTo
<1>5. Counted(F)
  BY <1>1, <1>4 DEF S
<1>6. QED
  BY <1>5 DEF Counted

PairCount == (MaxEligible * (MaxEligible - 1)) \div 2

LEMMA ClaimsAreFinite ==
  ASSUME NEW S \in SUBSET Claim
  PROVE  IsFiniteSet(S) /\ Cardinality(S) \in Nat
<1>1. MaxClaims \in Nat
  BY ResearchAssumption DEF ResearchAssumption
<1>2. IsFiniteSet(Claim)
  BY <1>1, FS_Interval DEF Claim
<1>3. QED
  BY <1>2, FS_Subset, FS_CardinalityType

\* No more facts are compared than may be.
LEMMA CheckedWithin ==
  ASSUME loadBearing \in SUBSET Claim
  PROVE  IsFiniteSet(Checked) /\ Cardinality(Checked) <= MaxEligible
<1>1. MaxEligible \in Nat /\ MaxEligible >= 1 /\ MaxClaims \in Nat
  BY ResearchAssumption DEF ResearchAssumption
<1>2. Checked \subseteq LoadBearingFacts /\ LoadBearingFacts \subseteq Claim
  BY DEF Checked, LoadBearingFacts
<1>3. IsFiniteSet(Checked)
  BY <1>2, ClaimsAreFinite
<1>4. CASE Checked = {}
  BY <1>1, <1>3, <1>4, FS_EmptySet
<1>5. CASE Checked # {}
  <2> DEFINE T == {MaxClaims - c : c \in Checked}
  <2>1. T \in SUBSET Nat /\ T # {}
    <3>1. \A c \in Checked : MaxClaims - c \in Nat
      BY <1>1, <1>2 DEF Claim
    <3> HIDE DEF Claim
    <3>2. QED
      BY <1>5, <3>1
  <2>2. PICK n \in T : \A m \in T : n <= m
    BY <2>1, LeastNumber
  <2>3. PICK last \in Checked : n = MaxClaims - last
    BY <2>2
  <2>4. \A c \in Checked : c <= last
    BY <1>1, <1>2, <2>2, <2>3 DEF Claim
  <2> DEFINE before == {d \in LoadBearingFacts : d < last}
  <2>5. IsFiniteSet(before) /\ Cardinality(before) < MaxEligible /\ Cardinality(before) \in Nat
    <3>1. before \in SUBSET Claim
      BY <1>2
    <3>2. Cardinality(before) < MaxEligible
      BY <2>3 DEF Checked
    <3>3. QED
      BY <3>1, <3>2, ClaimsAreFinite
  <2>6. Checked \subseteq before \cup {last}
    BY <1>2, <2>3, <2>4 DEF Claim
  <2> HIDE DEF before
  <2>7. /\ IsFiniteSet(before \cup {last})
        /\ Cardinality(before \cup {last}) \in {Cardinality(before), Cardinality(before) + 1}
    BY <2>5, FS_AddElement
  <2>8. Cardinality(Checked) <= Cardinality(before \cup {last})
    BY <2>6, <2>7, FS_Subset
  <2>9. Cardinality(Checked) \in Nat
    BY <1>3, FS_CardinalityType
  <2>10. QED
    BY <1>1, <1>3, <2>5, <2>7, <2>8, <2>9
<1>6. QED
  BY <1>4, <1>5

\* A comparison takes no more calls than the workload budget counts for it.
LEMMA ComparisonWithin ==
  ASSUME loadBearing \in SUBSET Claim
  PROVE  /\ Cardinality(PairsOf(Checked)) \in Nat
         /\ Cardinality(PairsOf(Checked)) <= PairCount
         /\ PairCount \in Nat
<1> DEFINE m == Cardinality(Checked)
           c == Cardinality(PairsOf(Checked))
<1>1. MaxEligible \in Nat /\ MaxEligible >= 1
  BY ResearchAssumption DEF ResearchAssumption
<1>2. IsFiniteSet(Checked) /\ m \in Nat /\ m <= MaxEligible
  BY CheckedWithin, FS_CardinalityType
<1>3. IsFiniteSet(PairsOf(Checked)) /\ 2 * c = m * (m - 1)
  BY <1>2, PairsOfCount
<1>4. c \in Nat
  BY <1>3, FS_CardinalityType
<1> HIDE DEF m, c
<1>5. m * (m - 1) <= MaxEligible * (MaxEligible - 1)
  <2>1. \A i, j \in Nat : i <= j /\ j >= 1 => i * (i - 1) <= j * (j - 1)
    OBVIOUS
  <2>2. QED
    BY <1>1, <1>2, <2>1
<1>6. 2 * c <= MaxEligible * (MaxEligible - 1)
  BY <1>3, <1>5
<1> DEFINE e == MaxEligible * (MaxEligible - 1)
<1>7. e \in Nat
  BY <1>1
<1> HIDE DEF e
<1>8. e \div 2 \in Nat /\ c <= e \div 2
  BY <1>4, <1>6, <1>7 DEF e
<1>9. QED
  BY <1>4, <1>8 DEF PairCount, e, c

-----------------------------------------------------------------------------
(* The inductive invariant.                                                *)

Compared == {"plan", "verify", "grade", "complete"}

\* What is stored is within the ceilings, and is what its checkpoints say.
SourcesInv ==
  /\ \A p \in Page : stored[p] <= 1
  /\ attemptsUsed <= MaxAttempts
  /\ Cardinality(Known) <= MaxSources
  /\ retrieved \subseteq Known
  /\ "SOURCES" \notin checkpoint => Known = {} /\ attemptsUsed = 0
  /\ "EXPANSION" \notin checkpoint => Known = initial
  /\ "EXPANSION" \in checkpoint => expansion.claim \in Claim

RowsInv ==
  /\ rows \in Seq(RowSet)
  /\ \A k \in DOMAIN rows : IsSound(rows[k])
  /\ claims # {} => {"SOURCES", "EXTRACTION"} \subseteq checkpoint

\* Where an attempt is says what has been committed, and what it has graded.
StageInv ==
  /\ attempt.pc # "idle" => status = "RESEARCHING" /\ retry < RetryCap
  /\ attempt.pc = "acquire" => "SOURCES" \notin checkpoint
  /\ attempt.pc \notin {"idle", "acquire"} => "SOURCES" \in checkpoint
  /\ attempt.pc \in Compared \cup {"contradict"} => "EXTRACTION" \in checkpoint
  /\ attempt.pc \in Compared => (Cardinality(LoadBearingFacts) >= 2 => "CONTRADICTION" \in checkpoint)
  /\ attempt.pc = "complete" => \A c \in claims : grade[c] = ComputeEvidenceStatus(c)
  /\ "EXTRACTION" \in checkpoint => "SOURCES" \in checkpoint

\* What an attempt has asked for, by the phase it is in.
WorkloadInv ==
  /\ attempt.pc \in {"idle", "acquire", "extract"} => attempt.used = 0
  /\ attempt.pc = "contradict" => attempt.used <= 2 * MaxSources
  /\ attempt.pc = "plan" => attempt.used <= 2 * MaxSources + PairCount
  /\ attempt.pc = "verify" => attempt.used + attempt.calls <= 2 * MaxSources + PairCount + MaxCalls

Inv == TypeOK /\ SourcesInv /\ RowsInv /\ StageInv /\ WorkloadInv /\ VerdictIsEarned

LEMMA Constants ==
  /\ {MaxSources, MaxAttempts, MaxEligible, MaxCandidates, MaxCalls, MaxClaims, RetryCap} \subseteq Nat \ {0}
  /\ MaxMishap \in Nat /\ Workload \in Nat /\ PairCount \in Nat
  /\ Workload >= 2 * MaxSources + PairCount + MaxCalls
  /\ SourcesAreSound /\ IsFiniteSet(Page)
<1> DEFINE e == MaxEligible * (MaxEligible - 1)
<1>1. MaxEligible \in Nat /\ MaxEligible >= 1
  BY ResearchAssumption DEF ResearchAssumption
<1>2. e \in Nat
  BY <1>1
<1> HIDE DEF e
<1>3. e \div 2 \in Nat
  BY <1>2
<1>4. QED
  BY <1>3, ResearchAssumption DEF ResearchAssumption, PairCount, e, SourcesAreSound

-----------------------------------------------------------------------------
(* The attempt, field by field.                                            *)

Shape(a) == a = [pc |-> a.pc, plan |-> a.plan, turn |-> a.turn, facts |-> a.facts,
                 calls |-> a.calls, used |-> a.used, halted |-> a.halted]
Fields(a) ==
  /\ a.pc \in Pc /\ a.plan \in SUBSET (Claim \X Page) /\ a.turn \in Claim \cup {NoClaim}
  /\ a.facts \in SUBSET Claim /\ a.calls \in 0..MaxCalls /\ a.used \in Nat /\ a.halted \in BOOLEAN

LEMMA AttemptHasFields ==
  ASSUME NEW a \in Attempt
  PROVE  Shape(a) /\ Fields(a)
BY DEF Attempt, Shape, Fields

LEMMA FieldsMakeAttempt ==
  ASSUME NEW a, Shape(a), Fields(a)
  PROVE  a \in Attempt
<1>1. [pc |-> a.pc, plan |-> a.plan, turn |-> a.turn, facts |-> a.facts,
       calls |-> a.calls, used |-> a.used, halted |-> a.halted] \in Attempt
  BY DEF Fields, Attempt
<1>2. QED
  BY <1>1 DEF Shape

LEMMA AtIsAttempt ==
  ASSUME NEW pc \in Pc
  PROVE  /\ At(pc) \in Attempt
         /\ At(pc).pc = pc /\ At(pc).used = 0 /\ At(pc).calls = MaxCalls
<1>1. Shape(At(pc)) /\ At(pc).pc = pc /\ At(pc).used = 0 /\ At(pc).calls = MaxCalls
  BY DEF Shape, At
<1>2. Fields(At(pc))
  BY Constants DEF Fields, At, Claim
<1>3. QED
  BY <1>1, <1>2, FieldsMakeAttempt

LEMMA GoneTo ==
  ASSUME attempt \in Attempt, NEW pc \in Pc, Goto(pc)
  PROVE  /\ attempt' \in Attempt
         /\ attempt'.pc = pc /\ attempt'.used = attempt.used /\ attempt'.calls = attempt.calls
<1>1. /\ attempt'.pc = pc /\ attempt'.used = attempt.used /\ attempt'.calls = attempt.calls
      /\ attempt'.plan = attempt.plan /\ attempt'.turn = attempt.turn
      /\ attempt'.facts = attempt.facts /\ attempt'.halted = attempt.halted
      /\ Shape(attempt')
  BY DEF Goto, Attempt, Shape
<1>2. Fields(attempt')
  BY <1>1, AttemptHasFields DEF Fields
<1>3. QED
  BY <1>1, <1>2, FieldsMakeAttempt

LEMMA HasCalled ==
  ASSUME attempt \in Attempt, NEW pc \in Pc, NEW calls \in Nat,
         attempt' = [attempt EXCEPT !.pc = pc, !.used = @ + calls]
  PROVE  /\ attempt' \in Attempt
         /\ attempt'.pc = pc /\ attempt'.used = attempt.used + calls /\ attempt'.calls = attempt.calls
<1>1. /\ attempt'.pc = pc /\ attempt'.used = attempt.used + calls /\ attempt'.calls = attempt.calls
      /\ attempt'.plan = attempt.plan /\ attempt'.turn = attempt.turn
      /\ attempt'.facts = attempt.facts /\ attempt'.halted = attempt.halted
      /\ Shape(attempt')
  BY DEF Attempt, Shape
<1>2. Fields(attempt')
  BY <1>1, AttemptHasFields DEF Fields
<1>3. QED
  BY <1>1, <1>2, FieldsMakeAttempt

-----------------------------------------------------------------------------
(* What no action but its own changes.                                     *)

LEMMA Unaltered ==
  ASSUME UNCHANGED <<sources, evidence>>
  PROVE  /\ Known' = Known /\ claims' = claims /\ LoadBearingFacts' = LoadBearingFacts
         /\ \A c : ComputeEvidenceStatus(c)' = ComputeEvidenceStatus(c)
BY DEF sources, evidence, Known, claims, LoadBearingFacts, Kind, ComputeEvidenceStatus, IsContradicted,
       Independent, Linked, Eligible

\* An action that commits nothing.
LEMMA NothingCommitted ==
  ASSUME Inv, UNCHANGED <<checkpoint, sources, evidence, expansion>>,
         status' \in {"RESEARCHING", "FAILED"}, retry' \in 0..RetryCap, mishaps' \in 0..MaxMishap,
         attempt' \in Attempt,
         attempt'.pc # "idle" => status' = "RESEARCHING" /\ retry' < RetryCap,
         attempt'.pc = "acquire" => "SOURCES" \notin checkpoint,
         attempt'.pc \notin {"idle", "acquire"} => "SOURCES" \in checkpoint,
         attempt'.pc \in Compared \cup {"contradict"} => "EXTRACTION" \in checkpoint,
         attempt'.pc \in Compared => (Cardinality(LoadBearingFacts) >= 2 => "CONTRADICTION" \in checkpoint),
         attempt'.pc # "complete",
         WorkloadInv'
  PROVE  Inv'
<1>1. TypeOK'
  BY DEF Inv, TypeOK, sources, evidence, Status
<1>2. SourcesInv'
  BY Unaltered DEF Inv, SourcesInv, sources
<1>3. RowsInv'
  BY Unaltered DEF Inv, RowsInv, evidence
<1>4. StageInv'
  BY Unaltered DEF Inv, StageInv, evidence
<1>5. VerdictIsEarned'
  BY DEF VerdictIsEarned, Verdict
<1>6. QED
  BY <1>1, <1>2, <1>3, <1>4, <1>5 DEF Inv

\* An attempt that ends before it has a verdict.
LEMMA AbandonedKeeps ==
  ASSUME Inv, UNCHANGED <<checkpoint, sources, evidence, expansion>>, Return,
         status' \in {"RESEARCHING", "FAILED"}, retry' \in 0..RetryCap, mishaps' \in 0..MaxMishap
  PROVE  Inv'
<1>1. attempt' \in Attempt /\ attempt'.pc = "idle" /\ attempt'.used = 0
  BY AtIsAttempt DEF Return, Pc
<1>2. WorkloadInv'
  BY <1>1 DEF WorkloadInv
<1>3. QED
  BY <1>1, <1>2, NothingCommitted DEF Compared

\* The attempt in progress, and what is known of the project.
LEMMA Running ==
  ASSUME Inv
  PROVE  /\ attempt \in Attempt /\ attempt.pc \in Pc /\ attempt.used \in Nat /\ attempt.calls \in 0..MaxCalls
         /\ attempt.plan \in SUBSET (Claim \X Page) /\ attempt.facts \in SUBSET Claim
         /\ retry \in 0..RetryCap /\ mishaps \in 0..MaxMishap
         /\ status \in Status
         /\ attempt.pc # "idle" => status = "RESEARCHING" /\ retry < RetryCap
BY AttemptHasFields DEF Inv, TypeOK, StageInv, Fields

LEMMA BeginKeeps ==
  ASSUME Inv, Begin
  PROVE  Inv'
<1>1. ResumePoint \in {"acquire", "extract", "contradict", "plan"}
  BY DEF ResumePoint
<1>2. attempt' \in Attempt /\ attempt'.pc = ResumePoint /\ attempt'.used = 0
  BY <1>1, AtIsAttempt DEF Begin, Pc
<1>3. retry < RetryCap
  BY Running, Constants DEF Begin, IsQuarantined
<1>4. WorkloadInv'
  <2>1. 0 <= 2 * MaxSources /\ 0 <= 2 * MaxSources + PairCount
    BY Constants
  <2>2. QED
    BY <1>1, <1>2, <2>1 DEF WorkloadInv
<1>5. /\ ResumePoint = "acquire" => "SOURCES" \notin checkpoint
      /\ ResumePoint # "acquire" => "SOURCES" \in checkpoint
      /\ ResumePoint \in {"contradict", "plan"} => "EXTRACTION" \in checkpoint
      /\ ResumePoint = "plan" => "CONTRADICTION" \in checkpoint
  BY DEF ResumePoint
<1>6. UNCHANGED <<checkpoint, sources, evidence, expansion>> /\ status' = "RESEARCHING" /\ UNCHANGED <<retry, mishaps>>
  BY DEF Begin
<1>7. QED
  BY <1>1, <1>2, <1>3, <1>4, <1>5, <1>6, Running, NothingCommitted DEF Compared

LEMMA EndingKeeps ==
  ASSUME Inv, AbandonTransient \/ AbandonInfrastructure \/ Fail \/ Crash
  PROVE  Inv'
<1>1. attempt.pc # "idle"
  BY DEF AbandonTransient, AbandonInfrastructure, Fail, Crash, Calling
<1>2. UNCHANGED <<checkpoint, sources, evidence, expansion>> /\ Return
  BY DEF AbandonTransient, AbandonInfrastructure, Fail, Crash
<1>3. status' \in {"RESEARCHING", "FAILED"}
  BY <1>1, Running DEF AbandonTransient, AbandonInfrastructure, Fail, Crash
<1>4. retry' \in 0..RetryCap
  BY <1>1, Running, Constants DEF AbandonTransient, AbandonInfrastructure, Fail, Crash
<1>5. mishaps' \in 0..MaxMishap
  BY Running, Constants DEF AbandonTransient, AbandonInfrastructure, Fail, Crash
<1>6. QED
  BY <1>2, <1>3, <1>4, <1>5, AbandonedKeeps

-----------------------------------------------------------------------------
(* The actions that commit nothing but where the attempt is.               *)

LEMMA SkipKeeps ==
  ASSUME Inv, SkipContradiction
  PROVE  Inv'
<1>1. attempt.pc = "contradict" /\ "plan" \in Pc /\ Goto("plan")
  BY DEF SkipContradiction, Pc
<1>2. attempt' \in Attempt /\ attempt'.pc = "plan" /\ attempt'.used = attempt.used
  BY <1>1, Running, GoneTo
<1>3. attempt.used <= 2 * MaxSources /\ attempt.used \in Nat
  BY <1>1, Running DEF Inv, WorkloadInv
<1>4. WorkloadInv'
  <2>1. attempt.used <= 2 * MaxSources + PairCount
    BY <1>3, Constants
  <2>2. QED
    BY <1>2, <2>1 DEF WorkloadInv
<1>5. "SOURCES" \in checkpoint /\ "EXTRACTION" \in checkpoint
  BY <1>1 DEF Inv, StageInv
<1>6. ~(Cardinality(LoadBearingFacts) >= 2)
  <2>1. loadBearing \in SUBSET Claim
    BY DEF Inv, TypeOK
  <2>2. Cardinality(LoadBearingFacts) \in Nat
    BY <2>1, ClaimsAreFinite DEF LoadBearingFacts
  <2>3. QED
    BY <2>2 DEF SkipContradiction
<1>7. UNCHANGED <<checkpoint, sources, evidence, expansion>> /\ UNCHANGED <<status, retry, mishaps>>
  BY DEF SkipContradiction
<1>8. QED
  BY <1>1, <1>2, <1>4, <1>5, <1>6, <1>7, Running, NothingCommitted

\* A plan asks about pages that may be eligible and the claims it is for.
LEMMA PlansAreOfClaims ==
  ASSUME NEW C \in SUBSET Claim, NEW P \in Plans(C)
  PROVE  P \in SUBSET (Claim \X Page)
BY DEF Plans

LEMMA PlanKeeps ==
  ASSUME Inv, PlanVerification \/ ResumeExpansion
  PROVE  Inv'
<1>1. attempt.pc = "plan" /\ attempt \in Attempt
  BY Running DEF PlanVerification, ResumeExpansion
<1>2. attempt' \in Attempt /\ attempt'.pc = "verify" /\ attempt'.used = attempt.used
  <2>1. CASE PlanVerification
    <3>1. Unsettled \in SUBSET Claim
      BY DEF Unsettled, Inv, TypeOK
    <3> DEFINE F == {c \in Unsettled : Kind(c) = "FACT"}
    <3>2. PICK P \in Plans(Unsettled) : attempt' = [attempt EXCEPT !.pc = "verify", !.plan = P, !.facts = F]
      BY <2>1 DEF PlanVerification
    <3>3. F \in SUBSET Claim
      BY <3>1
    <3> HIDE DEF F
    <3>4. /\ attempt'.pc = "verify" /\ attempt'.used = attempt.used /\ attempt'.calls = attempt.calls
          /\ attempt'.plan = P /\ attempt'.turn = attempt.turn
          /\ attempt'.facts = F /\ attempt'.halted = attempt.halted
          /\ Shape(attempt')
      BY <1>1, <3>2 DEF Attempt, Shape
    <3>5. P \in SUBSET (Claim \X Page)
      BY <3>1, <3>2, PlansAreOfClaims
    <3>6. Fields(attempt')
      BY <1>1, <3>3, <3>4, <3>5, AttemptHasFields DEF Fields, Pc
    <3>7. QED
      BY <3>4, <3>6, FieldsMakeAttempt
  <2>2. CASE ResumeExpansion
    <3>1. expansion.claim \in Claim /\ expansion.calls \in 0..MaxCalls
      BY <2>2 DEF ResumeExpansion, Inv, SourcesInv, TypeOK
    <3>2. PICK P \in Plans({expansion.claim}) :
            attempt' = [attempt EXCEPT !.pc = "verify", !.plan = P, !.calls = expansion.calls]
      BY <2>2 DEF ResumeExpansion
    <3>3. /\ attempt'.pc = "verify" /\ attempt'.used = attempt.used /\ attempt'.calls = expansion.calls
          /\ attempt'.plan = P /\ attempt'.turn = attempt.turn
          /\ attempt'.facts = attempt.facts /\ attempt'.halted = attempt.halted
          /\ Shape(attempt')
      BY <1>1, <3>2 DEF Attempt, Shape
    <3>4. P \in SUBSET (Claim \X Page)
      BY <3>1, <3>2, PlansAreOfClaims
    <3>5. Fields(attempt')
      BY <1>1, <3>1, <3>3, <3>4, AttemptHasFields DEF Fields, Pc
    <3>6. QED
      BY <3>3, <3>5, FieldsMakeAttempt
  <2>3. QED
    BY <2>1, <2>2
<1>3. attempt.used <= 2 * MaxSources + PairCount
  BY <1>1 DEF Inv, WorkloadInv
<1>4. WorkloadInv'
  <2>1. attempt'.calls \in 0..MaxCalls /\ attempt'.used \in Nat
    BY <1>2, AttemptHasFields DEF Fields
  <2>2. attempt'.used + attempt'.calls <= 2 * MaxSources + PairCount + MaxCalls
    BY <1>2, <1>3, <2>1, Constants
  <2>3. QED
    BY <1>2, <2>2 DEF WorkloadInv
<1>5. /\ "SOURCES" \in checkpoint /\ "EXTRACTION" \in checkpoint
      /\ Cardinality(LoadBearingFacts) >= 2 => "CONTRADICTION" \in checkpoint
  BY <1>1 DEF Inv, StageInv, Compared
<1>6. UNCHANGED <<checkpoint, sources, evidence, expansion>> /\ UNCHANGED <<status, retry, mishaps>>
  BY DEF PlanVerification, ResumeExpansion
<1>7. QED
  BY <1>1, <1>2, <1>4, <1>5, <1>6, Running, NothingCommitted

LEMMA HaltKeeps ==
  ASSUME Inv, Halt
  PROVE  Inv'
<1>1. attempt.pc = "verify" /\ attempt \in Attempt
  BY Running DEF Halt
<1>2. /\ attempt'.pc = "verify" /\ attempt'.used = attempt.used /\ attempt'.calls = attempt.calls
      /\ attempt'.plan = {} /\ attempt'.turn = attempt.turn
      /\ attempt'.facts = attempt.facts /\ attempt'.halted = TRUE
      /\ Shape(attempt')
  BY <1>1 DEF Halt, Attempt, Shape
<1>3. Fields(attempt')
  BY <1>1, <1>2, AttemptHasFields DEF Fields
<1>4. attempt' \in Attempt
  BY <1>2, <1>3, FieldsMakeAttempt
<1>5. WorkloadInv'
  BY <1>1, <1>2 DEF Inv, WorkloadInv
<1>6. /\ "SOURCES" \in checkpoint /\ "EXTRACTION" \in checkpoint
      /\ Cardinality(LoadBearingFacts) >= 2 => "CONTRADICTION" \in checkpoint
  BY <1>1 DEF Inv, StageInv, Compared
<1>7. UNCHANGED <<checkpoint, sources, evidence, expansion>> /\ UNCHANGED <<status, retry, mishaps>>
  BY DEF Halt
<1>8. QED
  BY <1>1, <1>2, <1>4, <1>5, <1>6, <1>7, Running, NothingCommitted

LEMMA EndEnrichmentKeeps ==
  ASSUME Inv, EndEnrichment
  PROVE  Inv'
<1>1. attempt.pc = "verify" /\ "grade" \in Pc /\ Goto("grade")
  BY DEF EndEnrichment, Pc
<1>2. attempt' \in Attempt /\ attempt'.pc = "grade"
  BY <1>1, Running, GoneTo
<1>3. WorkloadInv'
  BY <1>2 DEF WorkloadInv
<1>4. /\ "SOURCES" \in checkpoint /\ "EXTRACTION" \in checkpoint
      /\ Cardinality(LoadBearingFacts) >= 2 => "CONTRADICTION" \in checkpoint
  BY <1>1 DEF Inv, StageInv, Compared
<1>5. UNCHANGED <<checkpoint, sources, evidence, expansion>> /\ UNCHANGED <<status, retry, mishaps>>
  BY DEF EndEnrichment
<1>6. QED
  BY <1>1, <1>2, <1>3, <1>4, <1>5, Running, NothingCommitted

-----------------------------------------------------------------------------
(* The passes that store sources.                                          *)

StoredOnce ==
  /\ stored \in [Page -> Nat] /\ \A p \in Page : stored[p] <= 1
  /\ retrieved \subseteq Known /\ retrieved \subseteq Page
  /\ attemptsUsed \in Nat
AtMostMore(room, budget) ==
  /\ Cardinality(Known') <= Cardinality(Known) + room
  /\ attemptsUsed' <= attemptsUsed + budget

\* New pages are stored once, and count.
LEMMA NewPagesAreStoredOnce ==
  ASSUME StoredOnce, NEW room \in Nat, NEW budget \in Nat,
         NEW a \in Passes(Page \ Known, room, budget), InsertSources(a)
  PROVE  StoredOnce' /\ AtMostMore(room, budget) /\ Known' = Known \cup a.pages
<1> USE DEF StoredOnce
<1>1. /\ a.pages \subseteq Page \ Known /\ a.ok \subseteq a.pages
      /\ Cardinality(a.pages) <= room /\ a.tries \in Nat /\ a.tries <= budget
  BY DEF Passes
<1>2. \A p \in Page \ Known : stored[p] = 0
  BY DEF Known
<1>3. \A p \in Page : stored'[p] = IF p \in a.pages THEN stored[p] + 1 ELSE stored[p]
  BY DEF InsertSources
<1>4. stored' \in [Page -> Nat]
  BY DEF InsertSources
<1>5. \A p \in Page : stored'[p] <= 1
  BY <1>1, <1>2, <1>3
<1>6. Known' = Known \cup a.pages
  BY <1>1, <1>3, <1>4 DEF Known
<1>7. Cardinality(Known') <= Cardinality(Known) + room
  <2>1. IsFiniteSet(Known) /\ IsFiniteSet(a.pages) /\ IsFiniteSet(Known \cap a.pages)
    BY <1>1, Constants, FS_Subset DEF Known
  <2>2. Cardinality(Known) \in Nat /\ Cardinality(a.pages) \in Nat /\ Cardinality(Known \cap a.pages) \in Nat
    BY <2>1, FS_CardinalityType
  <2>3. Cardinality(Known \cup a.pages) = Cardinality(Known) + Cardinality(a.pages) - Cardinality(Known \cap a.pages)
    BY <2>1, FS_Union
  <2>4. QED
    BY <1>1, <1>6, <2>2, <2>3
<1>8. retrieved' = retrieved \cup a.ok /\ Known \subseteq Page
  BY DEF InsertSources, Known
<1>9. attemptsUsed' = attemptsUsed + a.tries
  BY DEF InsertSources
<1>10. QED
  BY <1>1, <1>4, <1>5, <1>6, <1>7, <1>8, <1>9 DEF AtMostMore

LEMMA PersistSourcesKeeps ==
  ASSUME Inv, PersistSources
  PROVE  Inv'
<1>1. /\ attempt.pc = "acquire" /\ attempt \in Attempt /\ attempt.used = 0
      /\ "SOURCES" \notin checkpoint /\ Known = {} /\ attemptsUsed = 0
      /\ status = "RESEARCHING" /\ retry < RetryCap
      /\ Goto("extract") /\ "extract" \in Pc
  BY Running DEF PersistSources, Inv, StageInv, WorkloadInv, SourcesInv, Pc
<1>2. MaxSources \in Nat /\ MaxAttempts \in Nat /\ SourcesAreSound
  BY Constants
<1>3. PICK found \in Discover({}, MaxSources) :
        \E a \in AcquireSources(found, MaxSources, MaxAttempts) :
          InsertSources(a) /\ initial' = a.pages /\ exhausted' = (a.visited = Len(found))
  BY DEF PersistSources
<1>4. PICK a \in AcquireSources(found, MaxSources, MaxAttempts) :
        InsertSources(a) /\ initial' = a.pages /\ exhausted' = (a.visited = Len(found))
  BY <1>3
<1>5. found \in Seq(Page \ Known)
  BY <1>1, <1>2, <1>3, DiscoverIsNew
<1>6. a \in Passes(Page \ Known, MaxSources, MaxAttempts)
  <2>1. IsFiniteSet(Page \ Known)
    BY Constants, FS_Subset
  <2>2. QED
    BY <1>2, <1>4, <1>5, <2>1, AcquiredWithin
<1>7. StoredOnce
  BY DEF Inv, TypeOK, SourcesInv, StoredOnce
<1>8a. StoredOnce' /\ AtMostMore(MaxSources, MaxAttempts) /\ Known' = Known \cup a.pages
  BY <1>2, <1>4, <1>6, <1>7, NewPagesAreStoredOnce
<1>8. /\ stored' \in [Page -> Nat] /\ \A p \in Page : stored'[p] <= 1
      /\ Known' = Known \cup a.pages
      /\ Cardinality(Known') <= Cardinality(Known) + MaxSources
      /\ retrieved' \subseteq Known' /\ retrieved' \subseteq Page
      /\ attemptsUsed' \in Nat /\ attemptsUsed' <= attemptsUsed + MaxAttempts
  BY <1>8a DEF StoredOnce, AtMostMore
<1>9. attempt' \in Attempt /\ attempt'.pc = "extract" /\ attempt'.used = 0
  BY <1>1, GoneTo
<1>10. /\ checkpoint' = checkpoint \cup {"SOURCES"}
       /\ UNCHANGED <<status, rows, loadBearing, links, contradicts, grade, expansion, retry, mishaps>>
  BY DEF PersistSources, evidence
<1>11. initial' = Known' /\ initial' \subseteq Page
  BY <1>1, <1>4, <1>6, <1>8 DEF Passes
<1>12. exhausted' \in BOOLEAN
  BY <1>4
<1>13. TypeOK'
  BY <1>8, <1>9, <1>10, <1>11, <1>12 DEF Inv, TypeOK, Checkpoint
<1>14. SourcesInv'
  <2>1. Cardinality(Known) = 0
    BY <1>1, FS_EmptySet
  <2>2. Cardinality(Known') <= MaxSources
    <3>1. Cardinality(Known') \in Nat
      BY <1>11, Constants, FS_Subset, FS_CardinalityType
    <3>2. QED
      BY <1>2, <1>8, <2>1, <3>1
  <2>3. attemptsUsed' <= MaxAttempts
    BY <1>1, <1>2, <1>8
  <2>4. QED
    BY <1>8, <1>10, <1>11, <2>2, <2>3 DEF Inv, SourcesInv
<1>15. RowsInv'
  BY <1>10 DEF Inv, RowsInv, claims
<1>16. StageInv'
  BY <1>1, <1>9, <1>10 DEF Inv, StageInv, Compared
<1>17. WorkloadInv'
  BY <1>9 DEF WorkloadInv
<1>18. VerdictIsEarned'
  BY <1>1, <1>10 DEF VerdictIsEarned, Verdict
<1>19. QED
  BY <1>13, <1>14, <1>15, <1>16, <1>17, <1>18 DEF Inv

LEMMA ExpandKeeps ==
  ASSUME Inv, NEW top \in Claim, Expand(top)
  PROVE  Inv'
<1>1. /\ attempt.pc = "verify" /\ attempt \in Attempt /\ status = "RESEARCHING" /\ retry < RetryCap
      /\ "EXPANSION" \notin checkpoint /\ Known = initial
      /\ "SOURCES" \in checkpoint /\ "EXTRACTION" \in checkpoint
      /\ Room > 0 /\ Budget > 0
  BY Running DEF Expand, MayExpand, Inv, StageInv, SourcesInv, Compared
<1>2. /\ stored \in [Page -> Nat] /\ \A p \in Page : stored[p] <= 1 /\ retrieved \subseteq Known
      /\ Known \in SUBSET Page /\ attemptsUsed \in Nat /\ Cardinality(Known) <= MaxSources
  BY DEF Inv, TypeOK, SourcesInv, Known
<1>3. /\ MaxSources \in Nat /\ MaxAttempts \in Nat /\ SourcesAreSound
      /\ Cardinality(Known) \in Nat
  BY <1>2, Constants, FS_Subset, FS_CardinalityType
<1>4. Room \in Nat /\ Budget \in Nat
  BY <1>1, <1>2, <1>3 DEF Room, Budget
<1>5. PICK found \in Cascade(Known, KnownDomains(top), Room, Budget) :
        \E a \in AcquireSources(found, Room, Budget) : InsertSources(a)
  BY DEF Expand
<1>6. PICK a \in AcquireSources(found, Room, Budget) : InsertSources(a)
  BY <1>5
<1>7. found \in Seq(Page \ Known)
  BY <1>2, <1>3, <1>4, <1>5, CascadeIsNew
<1>8. a \in Passes(Page \ Known, Room, Budget)
  <2>1. IsFiniteSet(Page \ Known)
    BY Constants, FS_Subset
  <2>2. QED
    BY <1>3, <1>4, <1>6, <1>7, <2>1, AcquiredWithin
<1>9a. StoredOnce' /\ AtMostMore(Room, Budget) /\ Known' = Known \cup a.pages
  <2>1. StoredOnce
    BY DEF Inv, TypeOK, SourcesInv, StoredOnce
  <2>2. QED
    BY <1>4, <1>6, <1>8, <2>1, NewPagesAreStoredOnce
<1>9. /\ stored' \in [Page -> Nat] /\ \A p \in Page : stored'[p] <= 1
      /\ Known' = Known \cup a.pages
      /\ Cardinality(Known') <= Cardinality(Known) + Room
      /\ retrieved' \subseteq Known' /\ retrieved' \subseteq Page
      /\ attemptsUsed' \in Nat /\ attemptsUsed' <= attemptsUsed + Budget
  BY <1>9a DEF StoredOnce, AtMostMore
<1>10. /\ checkpoint' = checkpoint \cup {"EXPANSION"}
       /\ expansion' = [claim |-> top, calls |-> attempt.calls]
       /\ UNCHANGED <<status, initial, exhausted, rows, loadBearing, links, contradicts, grade, retry, mishaps>>
  BY DEF Expand, evidence
<1>11. PICK P \in SUBSET (Claim \X Page) : attempt' = [attempt EXCEPT !.plan = P]
  <2>1. PICK P \in IF attempt.halted THEN {{}} ELSE Plans({top})' : attempt' = [attempt EXCEPT !.plan = P]
    BY DEF Expand
  <2>2. P = {} \/ P \in Plans({top})'
    BY <2>1
  <2>3. P \in SUBSET (Claim \X Page)
    BY <2>2 DEF Plans
  <2>4. QED
    BY <2>1, <2>3
<1>12. /\ attempt'.pc = "verify" /\ attempt'.used = attempt.used /\ attempt'.calls = attempt.calls
       /\ attempt'.plan = P /\ attempt'.turn = attempt.turn
       /\ attempt'.facts = attempt.facts /\ attempt'.halted = attempt.halted
       /\ Shape(attempt')
  BY <1>1, <1>11 DEF Attempt, Shape
<1>13. attempt' \in Attempt
  <2>1. Fields(attempt')
    BY <1>1, <1>11, <1>12, AttemptHasFields DEF Fields
  <2>2. QED
    BY <1>12, <2>1, FieldsMakeAttempt
<1>14. expansion' \in [claim : Claim \cup {NoClaim}, calls : 0..MaxCalls] /\ expansion'.claim \in Claim
  BY <1>10, Running
<1>15. TypeOK'
  BY <1>9, <1>10, <1>13, <1>14 DEF Inv, TypeOK, Checkpoint
<1>16. SourcesInv'
  <2>1. Cardinality(Known') <= MaxSources
    <3>1. Cardinality(Known') \in Nat
      <4>1. Known' \in SUBSET Page
        BY <1>2, <1>8, <1>9 DEF Passes
      <4>2. QED
        BY <4>1, Constants, FS_Subset, FS_CardinalityType
    <3>2. QED
      BY <1>1, <1>3, <1>9, <3>1 DEF Room
  <2>2. attemptsUsed' <= MaxAttempts
    BY <1>2, <1>3, <1>9 DEF Budget
  <2>3. QED
    BY <1>1, <1>9, <1>10, <1>14, <2>1, <2>2 DEF SourcesInv
<1>17. RowsInv'
  BY <1>10 DEF Inv, RowsInv, claims
<1>18. StageInv'
  <2>1. LoadBearingFacts' = LoadBearingFacts
    BY <1>10 DEF LoadBearingFacts, Kind
  <2>2. QED
    BY <1>1, <1>10, <1>12, <2>1 DEF Inv, StageInv, Compared
<1>19. WorkloadInv'
  BY <1>1, <1>12 DEF Inv, WorkloadInv
<1>20. VerdictIsEarned'
  BY <1>1, <1>10 DEF VerdictIsEarned, Verdict
<1>21. QED
  BY <1>15, <1>16, <1>17, <1>18, <1>19, <1>20 DEF Inv

-----------------------------------------------------------------------------
(* Claims, contradictions and verification.                                *)

LEMMA PersistExtractionKeeps ==
  ASSUME Inv, PersistExtraction
  PROVE  Inv'
<1>1. /\ attempt.pc = "extract" /\ attempt \in Attempt /\ attempt.used = 0
      /\ "SOURCES" \in checkpoint /\ status = "RESEARCHING" /\ retry < RetryCap
  BY Running DEF PersistExtraction, Inv, StageInv, WorkloadInv
<1>2. PICK isolated \in SUBSET retrieved :
        /\ \E found \in RowsOf(retrieved \ isolated) :
             /\ Len(found) <= MaxClaims
             /\ rows' = found
             /\ loadBearing' = {c \in DOMAIN found : found[c].loadBearing}
             /\ links' = UNION {{[claim |-> c, page |-> said[1], role |-> "supporting"] : said \in found[c].said} :
                                c \in DOMAIN found}
        /\ \E calls \in ExtractionCalls(isolated) :
             attempt' = [attempt EXCEPT !.pc = "contradict", !.used = @ + calls]
  BY DEF PersistExtraction
<1>3. PICK found \in RowsOf(retrieved \ isolated) :
        /\ Len(found) <= MaxClaims
        /\ rows' = found
        /\ loadBearing' = {c \in DOMAIN found : found[c].loadBearing}
        /\ links' = UNION {{[claim |-> c, page |-> said[1], role |-> "supporting"] : said \in found[c].said} :
                           c \in DOMAIN found}
  BY <1>2
<1>4. PICK calls \in ExtractionCalls(isolated) : attempt' = [attempt EXCEPT !.pc = "contradict", !.used = @ + calls]
  BY <1>2
<1>5. retrieved \in SUBSET Page /\ IsFiniteSet(retrieved) /\ retrieved \ isolated \in SUBSET Page
      /\ IsFiniteSet(retrieved \ isolated) /\ IsFiniteSet(isolated)
  <2>1. retrieved \in SUBSET Page
    BY DEF Inv, TypeOK
  <2>2. retrieved \ isolated \in SUBSET Page /\ isolated \in SUBSET Page
    BY <1>2, <2>1
  <2>3. QED
    BY <2>1, <2>2, Constants, FS_Subset
<1>6. found \in Seq(RowSet) /\ \A k \in DOMAIN found : IsSound(found[k])
  BY <1>3, <1>5, RowsOfAreSound
<1>7. DOMAIN found \in SUBSET Claim
  BY <1>3, <1>6, Constants DEF Claim
<1>8. links' \subseteq Link
  <2>1. ASSUME NEW c \in DOMAIN found, NEW said \in found[c].said
        PROVE  [claim |-> c, page |-> said[1], role |-> "supporting"] \in Link
    <3>1. found[c] \in RowSet
      BY <1>6
    <3>2. said[1] \in Page
      BY <3>1 DEF RowSet
    <3>3. QED
      BY <1>7, <3>2 DEF Link
  <2>2. QED
    BY <1>3, <2>1
<1>9. calls \in Nat /\ calls <= 2 * MaxSources
  <2>1. Cardinality(retrieved) \in Nat /\ Cardinality(isolated) \in Nat
    BY <1>5, FS_CardinalityType
  <2>2. IsFiniteSet(Known) /\ Known \in SUBSET Page
    BY Constants, FS_Subset DEF Known
  <2>3. Cardinality(retrieved) <= Cardinality(Known) /\ Cardinality(Known) \in Nat
    BY <2>2, FS_Subset, FS_CardinalityType DEF Inv, SourcesInv
  <2>4. Cardinality(Known) <= MaxSources
    BY DEF Inv, SourcesInv
  <2>5. calls \in Cardinality(retrieved) + Cardinality(isolated)..2 * Cardinality(retrieved)
    BY <1>4 DEF ExtractionCalls
  <2>6. QED
    BY <2>1, <2>3, <2>4, <2>5, Constants
<1>10. attempt' \in Attempt /\ attempt'.pc = "contradict" /\ attempt'.used = calls
  <2>1. "contradict" \in Pc
    BY DEF Pc
  <2>2. attempt' \in Attempt /\ attempt'.pc = "contradict" /\ attempt'.used = attempt.used + calls
    BY <1>1, <1>4, <1>9, <2>1, HasCalled
  <2>3. QED
    BY <1>1, <1>9, <2>2
<1>11. /\ checkpoint' = checkpoint \cup {"EXTRACTION"}
       /\ UNCHANGED <<status, sources, contradicts, grade, expansion, retry, mishaps>>
  BY DEF PersistExtraction
<1>12. loadBearing' \subseteq Claim
  BY <1>3, <1>7
<1>13. TypeOK'
  BY <1>3, <1>8, <1>10, <1>11, <1>12 DEF Inv, TypeOK, Checkpoint, sources
<1>14. SourcesInv'
  BY <1>1, <1>11 DEF Inv, SourcesInv, Known, sources
<1>15. RowsInv'
  BY <1>1, <1>3, <1>6, <1>11 DEF RowsInv, claims
<1>16. StageInv'
  BY <1>1, <1>10, <1>11 DEF Inv, StageInv, Compared
<1>17. WorkloadInv'
  BY <1>9, <1>10 DEF WorkloadInv
<1>18. VerdictIsEarned'
  BY <1>1, <1>11 DEF VerdictIsEarned, Verdict
<1>19. QED
  BY <1>13, <1>14, <1>15, <1>16, <1>17, <1>18 DEF Inv

LEMMA ComparedAreClaims ==
  ASSUME Inv
  PROVE  PairsOf(Checked) \in SUBSET SUBSET Claim /\ loadBearing \in SUBSET Claim
BY DEF PairsOf, Checked, LoadBearingFacts, Inv, TypeOK

LEMMA PersistContradictionsKeeps ==
  ASSUME Inv, PersistContradictions
  PROVE  Inv'
<1> DEFINE calls == Cardinality(PairsOf(Checked))
<1>1. /\ attempt.pc = "contradict" /\ attempt \in Attempt /\ attempt.used \in Nat /\ attempt.used <= 2 * MaxSources
      /\ "SOURCES" \in checkpoint /\ "EXTRACTION" \in checkpoint /\ status = "RESEARCHING" /\ retry < RetryCap
  BY Running DEF PersistContradictions, Inv, StageInv, WorkloadInv
<1>2. calls \in Nat /\ calls <= PairCount /\ PairCount \in Nat
  BY ComparedAreClaims, ComparisonWithin
<1>3. /\ contradicts' \in SUBSET PairsOf(Checked)
      /\ attempt' = [attempt EXCEPT !.pc = "plan", !.used = @ + calls]
      /\ checkpoint' = checkpoint \cup {"CONTRADICTION"}
      /\ UNCHANGED <<status, sources, rows, loadBearing, links, grade, expansion, retry, mishaps>>
  BY DEF PersistContradictions
<1> HIDE DEF calls
<1>4. attempt' \in Attempt /\ attempt'.pc = "plan" /\ attempt'.used = attempt.used + calls
  <2>1. "plan" \in Pc
    BY DEF Pc
  <2>2. QED
    BY <1>1, <1>2, <1>3, <2>1, HasCalled
<1>5. contradicts' \subseteq SUBSET Claim
  BY <1>3, ComparedAreClaims
<1>6. TypeOK'
  BY <1>3, <1>4, <1>5 DEF Inv, TypeOK, Checkpoint, sources
<1>7. SourcesInv'
  BY <1>3 DEF Inv, SourcesInv, Known, sources
<1>8. RowsInv'
  BY <1>3 DEF Inv, RowsInv, claims
<1>9. StageInv'
  BY <1>1, <1>3, <1>4 DEF Inv, StageInv, Compared
<1>10. WorkloadInv'
  <2>1. attempt'.used <= 2 * MaxSources + PairCount
    BY <1>1, <1>2, <1>4, Constants
  <2>2. QED
    BY <1>4, <2>1 DEF WorkloadInv
<1>11. VerdictIsEarned'
  BY <1>1, <1>3 DEF VerdictIsEarned, Verdict
<1>12. QED
  BY <1>6, <1>7, <1>8, <1>9, <1>10, <1>11 DEF Inv

LEMMA FailContradictionKeeps ==
  ASSUME Inv, FailContradiction
  PROVE  Inv'
<1>1. contradicts' \subseteq SUBSET Claim
  BY ComparedAreClaims DEF FailContradiction
<1>2. /\ status' = "FAILED" /\ Return
      /\ UNCHANGED <<checkpoint, sources, rows, loadBearing, links, grade, expansion, retry, mishaps>>
  BY DEF FailContradiction
<1>3. attempt' \in Attempt /\ attempt'.pc = "idle" /\ attempt'.used = 0
  BY <1>2, AtIsAttempt DEF Return, Pc
<1>4. TypeOK'
  BY <1>1, <1>2, <1>3 DEF Inv, TypeOK, sources, Status
<1>5. SourcesInv'
  BY <1>2 DEF Inv, SourcesInv, Known, sources
<1>6. RowsInv'
  BY <1>2 DEF Inv, RowsInv, claims
<1>7. StageInv'
  BY <1>2, <1>3 DEF Inv, StageInv, Compared
<1>8. WorkloadInv'
  BY <1>3 DEF WorkloadInv
<1>9. VerdictIsEarned'
  BY <1>2 DEF VerdictIsEarned, Verdict
<1>10. QED
  BY <1>4, <1>5, <1>6, <1>7, <1>8, <1>9 DEF Inv

LEMMA VerifyKeeps ==
  ASSUME Inv, Verify
  PROVE  Inv'
<1>1. /\ attempt.pc = "verify" /\ attempt \in Attempt /\ attempt.used \in Nat
      /\ attempt.calls \in 0..MaxCalls /\ attempt.calls > 0 /\ MaxCalls \in Nat
      /\ attempt.plan \in SUBSET (Claim \X Page)
      /\ "SOURCES" \in checkpoint /\ "EXTRACTION" \in checkpoint /\ status = "RESEARCHING" /\ retry < RetryCap
  BY Running, Constants DEF Verify, Inv, StageInv, Compared
<1>2. UNCHANGED <<status, checkpoint, sources, rows, loadBearing, contradicts, grade, expansion, retry, mishaps>>
  BY DEF Verify
<1>3. PICK pair \in attempt.plan :
        /\ \E answer \in Answers(pair[1], pair[2]) : links' = links \cup answer
        /\ attempt' = [attempt EXCEPT !.calls = @ - 1, !.used = @ + 1, !.turn = pair[1],
                                      !.plan = IF ComputeEvidenceStatus(pair[1])' \in {"VERIFIED", "CONTESTED"}
                                               THEN {q \in @ : q[1] # pair[1]} ELSE @ \ {pair}]
  BY DEF Verify
<1> DEFINE left == IF ComputeEvidenceStatus(pair[1])' \in {"VERIFIED", "CONTESTED"}
                   THEN {q \in attempt.plan : q[1] # pair[1]} ELSE attempt.plan \ {pair}
<1>4. attempt' = [attempt EXCEPT !.calls = @ - 1, !.used = @ + 1, !.turn = pair[1], !.plan = left]
  BY <1>3
<1>5. left \in SUBSET (Claim \X Page) /\ pair[1] \in Claim /\ pair[2] \in Page
  BY <1>1
<1> HIDE DEF left
<1>6. /\ attempt'.pc = "verify" /\ attempt'.used = attempt.used + 1 /\ attempt'.calls = attempt.calls - 1
      /\ attempt'.plan = left /\ attempt'.turn = pair[1]
      /\ attempt'.facts = attempt.facts /\ attempt'.halted = attempt.halted
      /\ Shape(attempt')
  BY <1>1, <1>4 DEF Attempt, Shape
<1>7. Fields(attempt')
  BY <1>1, <1>5, <1>6, AttemptHasFields DEF Fields
<1>8. attempt' \in Attempt
  BY <1>6, <1>7, FieldsMakeAttempt
<1>9. links' \subseteq Link
  <2>1. PICK answer \in Answers(pair[1], pair[2]) : links' = links \cup answer
    BY <1>3
  <2>2. answer \subseteq Link
    BY <1>5, <2>1 DEF Answers, Link
  <2>3. QED
    BY <2>1, <2>2 DEF Inv, TypeOK
<1>10. TypeOK'
  BY <1>2, <1>8, <1>9 DEF Inv, TypeOK, sources
<1>11. SourcesInv'
  BY <1>2 DEF Inv, SourcesInv, Known, sources
<1>12. RowsInv'
  BY <1>2 DEF Inv, RowsInv, claims
<1>13. StageInv'
  <2>1. LoadBearingFacts' = LoadBearingFacts
    BY <1>2 DEF LoadBearingFacts, Kind
  <2>2. QED
    BY <1>1, <1>2, <1>6, <2>1 DEF Inv, StageInv, Compared
<1>14. WorkloadInv'
  <2>1. attempt.used + attempt.calls <= 2 * MaxSources + PairCount + MaxCalls
    BY <1>1 DEF Inv, WorkloadInv
  <2>2. attempt'.used + attempt'.calls = attempt.used + attempt.calls
    BY <1>1, <1>6
  <2>3. QED
    BY <1>6, <2>1, <2>2 DEF WorkloadInv
<1>15. VerdictIsEarned'
  BY <1>1, <1>2 DEF VerdictIsEarned, Verdict
<1>16. QED
  BY <1>10, <1>11, <1>12, <1>13, <1>14, <1>15 DEF Inv

-----------------------------------------------------------------------------
(* Grades and the verdict.                                                 *)

LEMMA GradeKeeps ==
  ASSUME Inv, Grade
  PROVE  Inv'
<1>1. /\ attempt.pc = "grade" /\ attempt \in Attempt
      /\ "SOURCES" \in checkpoint /\ "EXTRACTION" \in checkpoint /\ status = "RESEARCHING" /\ retry < RetryCap
      /\ Cardinality(LoadBearingFacts) >= 2 => "CONTRADICTION" \in checkpoint
  BY Running DEF Grade, Inv, StageInv, Compared
<1>2. /\ loadBearing' = {c \in loadBearing : ~IsSocialOnly(c)}
      /\ grade' = [c \in Claim |-> IF c \in claims THEN ComputeEvidenceStatus(c) ELSE grade[c]]
      /\ Goto("complete") /\ "complete" \in Pc
      /\ UNCHANGED <<status, checkpoint, sources, rows, links, contradicts, expansion, retry, mishaps>>
  BY DEF Grade, Pc
<1>3. attempt' \in Attempt /\ attempt'.pc = "complete"
  BY <1>1, <1>2, GoneTo
<1>4. claims' = claims /\ claims \subseteq Claim
  <2>1. rows \in Seq(RowSet) /\ Len(rows) <= MaxClaims
    BY DEF Inv, TypeOK, RowsInv
  <2>2. QED
    BY <1>2, <2>1, Constants DEF claims, Claim
<1>5. \A c : ComputeEvidenceStatus(c)' = ComputeEvidenceStatus(c)
  BY <1>2 DEF ComputeEvidenceStatus, IsContradicted, Independent, Linked, Eligible, sources
<1>6. \A c : ComputeEvidenceStatus(c) \in EvidenceStatus
  BY DEF ComputeEvidenceStatus, EvidenceStatus
<1>7. grade' \in [Claim -> EvidenceStatus]
  <2>1. grade \in [Claim -> EvidenceStatus]
    BY DEF Inv, TypeOK
  <2>2. QED
    BY <1>2, <1>6, <2>1
<1>8. TypeOK'
  BY <1>2, <1>3, <1>7 DEF Inv, TypeOK, sources
<1>9. SourcesInv'
  BY <1>2 DEF Inv, SourcesInv, Known, sources
<1>10. RowsInv'
  BY <1>2 DEF Inv, RowsInv, claims
<1>11. Cardinality(LoadBearingFacts') >= 2 => Cardinality(LoadBearingFacts) >= 2
  <2>1. LoadBearingFacts \in SUBSET Claim
    BY DEF LoadBearingFacts, Inv, TypeOK
  <2>2. LoadBearingFacts' \in SUBSET LoadBearingFacts
    BY <1>2 DEF LoadBearingFacts, Kind
  <2>3. IsFiniteSet(LoadBearingFacts) /\ Cardinality(LoadBearingFacts) \in Nat
    BY <2>1, ClaimsAreFinite
  <2>4. Cardinality(LoadBearingFacts') <= Cardinality(LoadBearingFacts) /\ Cardinality(LoadBearingFacts') \in Nat
    BY <2>2, <2>3, FS_Subset, FS_CardinalityType
  <2>5. QED
    BY <2>3, <2>4
<1>12. \A c \in claims' : grade'[c] = ComputeEvidenceStatus(c)'
  BY <1>2, <1>4, <1>5
<1>13. StageInv'
  BY <1>1, <1>2, <1>3, <1>11, <1>12 DEF StageInv
<1>14. WorkloadInv'
  BY <1>3 DEF WorkloadInv
<1>15. VerdictIsEarned'
  BY <1>1, <1>2 DEF VerdictIsEarned, Verdict
<1>16. QED
  BY <1>8, <1>9, <1>10, <1>13, <1>14, <1>15 DEF Inv

\* What is VERIFIED is carried by an authoritative page or by two publishers.
LEMMA VerifiedIsTrusted ==
  ASSUME NEW c, ComputeEvidenceStatus(c) = "VERIFIED"
  PROVE  Trusted(c) /\ ~IsContradicted(c)
<1> DEFINE support == {p \in Linked(c, "supporting") : Eligible(p)}
<1>1. /\ ~IsContradicted(c)
      /\ \/ \E p \in support : Role[p] = "primary_authoritative"
         \/ Cardinality(Independent(c)) >= 2
  BY DEF ComputeEvidenceStatus
<1>2. CASE \E p \in support : Role[p] = "primary_authoritative"
  BY <1>1, <1>2 DEF Trusted, Eligible
<1>3. CASE Cardinality(Independent(c)) >= 2
  <2>1. PICK x \in Independent(c), y \in Independent(c) : x # y
    BY <1>3, TwoApart
  <2>2. \A z \in Independent(c) : \E p \in Linked(c, "supporting") \cap retrieved :
          z = Domain[p] /\ Role[p] = "independent_reporting"
    BY DEF Independent, Eligible
  <2>3. QED
    BY <1>1, <2>1, <2>2 DEF Trusted
<1>4. QED
  BY <1>1, <1>2, <1>3

LEMMA SupportedOrContradicted ==
  ASSUME NEW c, ComputeEvidenceStatus(c) # "UNSUPPORTED"
  PROVE  IsContradicted(c) \/ \E p \in Linked(c, "supporting") : Eligible(p)
<1> DEFINE support == {p \in Linked(c, "supporting") : Eligible(p)}
<1>1. \/ IsContradicted(c)
      \/ \E p \in support : Role[p] = "primary_authoritative"
      \/ Cardinality(Independent(c)) >= 2
      \/ support # {}
  BY DEF ComputeEvidenceStatus
<1>2. ASSUME Cardinality(Independent(c)) >= 2 PROVE support # {}
  <2>1. PICK x \in Independent(c) : TRUE
    BY <1>2, TwoApart
  <2>2. QED
    BY <2>1 DEF Independent
<1>3. QED
  BY <1>1, <1>2

LEMMA CompleteKeeps ==
  ASSUME Inv, Complete
  PROVE  Inv'
<1>1. /\ attempt.pc = "complete" /\ "SOURCES" \in checkpoint /\ "EXTRACTION" \in checkpoint
      /\ Cardinality(LoadBearingFacts) >= 2 => "CONTRADICTION" \in checkpoint
      /\ \A c \in claims : grade[c] = ComputeEvidenceStatus(c)
  BY DEF Complete, Inv, StageInv, Compared
<1>2. /\ status' = Completeness /\ Return
      /\ UNCHANGED <<checkpoint, sources, evidence, expansion, retry, mishaps>>
  BY DEF Complete
<1>3. attempt' \in Attempt /\ attempt'.pc = "idle" /\ attempt'.used = 0
  BY <1>2, AtIsAttempt DEF Return, Pc
<1>4. Completeness \in Verdict
  BY DEF Completeness, Verdict
<1>5. TypeOK'
  BY <1>2, <1>3, <1>4 DEF Inv, TypeOK, sources, evidence, Status
<1>6. SourcesInv'
  BY <1>2, Unaltered DEF Inv, SourcesInv, sources
<1>7. RowsInv'
  BY <1>2, Unaltered DEF Inv, RowsInv, evidence
<1>8. StageInv'
  BY <1>1, <1>2, <1>3 DEF StageInv, Compared
<1>9. WorkloadInv'
  BY <1>3 DEF WorkloadInv
<1>10. VerdictIsEarned'
  <2>1. /\ UNCHANGED <<rows, loadBearing, links, contradicts, grade, retrieved, checkpoint>>
        /\ LoadBearingFacts' = LoadBearingFacts /\ claims' = claims
    BY <1>2, Unaltered DEF sources, evidence
  <2>2. ASSUME Completeness = "RESEARCH_COMPLETE"
        PROVE  /\ loadBearing # {}
               /\ \A c \in loadBearing : IsContradicted(c) \/ \E p \in Linked(c, "supporting") : Eligible(p)
               /\ \E c \in claims : grade[c] = "VERIFIED" /\ Kind(c) # "OPINION"
               /\ \A c \in claims : grade[c] = "VERIFIED" => Trusted(c) /\ ~IsContradicted(c)
    <3>1. /\ loadBearing # {} /\ loadBearing \subseteq Resolved
          /\ \E c \in claims : grade[c] = "VERIFIED" /\ Kind(c) # "OPINION"
      BY <2>2 DEF Completeness
    <3>2. \A c \in loadBearing : c \in claims /\ ComputeEvidenceStatus(c) # "UNSUPPORTED"
      BY <1>1, <3>1 DEF Resolved
    <3>3. \A c \in claims : grade[c] = "VERIFIED" => Trusted(c) /\ ~IsContradicted(c)
      BY <1>1, VerifiedIsTrusted
    <3>4. QED
      BY <3>1, <3>2, <3>3, SupportedOrContradicted
  <2>3. /\ \A c : IsContradicted(c)' <=> IsContradicted(c)
        /\ \A c : Trusted(c)' <=> Trusted(c)
        /\ \A c : Linked(c, "supporting")' = Linked(c, "supporting")
        /\ \A p : Eligible(p)' <=> Eligible(p)
        /\ \A c : Kind(c)' = Kind(c)
    BY <2>1 DEF IsContradicted, Linked, Eligible, Kind, Trusted
  <2>4. status' \in Verdict =>
          "EXTRACTION" \in checkpoint' /\ (Cardinality(LoadBearingFacts') >= 2 => "CONTRADICTION" \in checkpoint')
    BY <1>1, <2>1
  <2>5. status' = "RESEARCH_COMPLETE" =>
          /\ loadBearing' # {}
          /\ \A c \in loadBearing' : IsContradicted(c)' \/ \E p \in Linked(c, "supporting")' : Eligible(p)'
          /\ \E c \in claims' : grade'[c] = "VERIFIED" /\ Kind(c)' # "OPINION"
          /\ \A c \in claims' : grade'[c] = "VERIFIED" => Trusted(c)' /\ ~IsContradicted(c)'
    BY <1>2, <2>1, <2>2, <2>3
  <2>6. QED
    BY <2>4, <2>5 DEF VerdictIsEarned
<1>11. QED
  BY <1>5, <1>6, <1>7, <1>8, <1>9, <1>10 DEF Inv

-----------------------------------------------------------------------------
(* What holds of every project.                                            *)

LEMMA InitEstablishesInv == Init => Inv
<1> SUFFICES ASSUME Init PROVE Inv
  OBVIOUS
<1>1. attempt \in Attempt /\ attempt.pc = "idle" /\ attempt.used = 0
  BY AtIsAttempt DEF Init, Pc
<1>2. Known = {} /\ claims = {} /\ LoadBearingFacts = {}
  BY DEF Init, Known, claims, LoadBearingFacts
<1>3. Cardinality(Known) = 0
  BY <1>2, FS_EmptySet
<1>4. expansion \in [claim : Claim \cup {NoClaim}, calls : 0..MaxCalls]
  BY Constants DEF Init, NoExpansion
<1>5. Len(rows) = 0 /\ rows \in Seq(RowSet) /\ DOMAIN rows = {}
  BY DEF Init
<1>6. TypeOK
  <2>1. Len(rows) <= MaxClaims /\ retry \in 0..RetryCap /\ mishaps \in 0..MaxMishap
    BY <1>5, Constants DEF Init
  <2>2. stored \in [Page -> Nat] /\ grade \in [Claim -> EvidenceStatus]
    BY DEF Init, EvidenceStatus
  <2>3. status \in Status /\ attemptsUsed \in Nat /\ exhausted \in BOOLEAN
    BY DEF Init, Status
  <2>4. QED
    BY <1>1, <1>4, <2>1, <2>2, <2>3 DEF Init, TypeOK
<1>7. SourcesInv
  BY <1>2, <1>3, Constants DEF Init, SourcesInv
<1>8. RowsInv
  BY <1>5 DEF RowsInv, claims
<1>9. StageInv
  BY <1>1 DEF Init, StageInv, Compared
<1>10. WorkloadInv
  BY <1>1 DEF WorkloadInv
<1>11. VerdictIsEarned
  BY DEF Init, VerdictIsEarned, Verdict
<1>12. QED
  BY <1>6, <1>7, <1>8, <1>9, <1>10, <1>11 DEF Inv

LEMMA StutterKeeps ==
  ASSUME Inv, UNCHANGED vars
  PROVE  Inv'
<1>1. UNCHANGED <<status, checkpoint, sources, evidence, expansion, retry, mishaps, attempt>>
  BY DEF vars
<1>2. TypeOK'
  BY <1>1 DEF Inv, TypeOK, sources, evidence
<1>3. SourcesInv'
  BY <1>1, Unaltered DEF Inv, SourcesInv, sources
<1>4. RowsInv'
  BY <1>1, Unaltered DEF Inv, RowsInv, evidence
<1>5. StageInv'
  BY <1>1, Unaltered DEF Inv, StageInv, evidence
<1>6. WorkloadInv'
  BY <1>1 DEF Inv, WorkloadInv
<1>7. VerdictIsEarned'
  BY <1>1 DEF Inv, VerdictIsEarned, sources, evidence, LoadBearingFacts, claims, IsContradicted, Linked,
              Eligible, Kind, Trusted
<1>8. QED
  BY <1>2, <1>3, <1>4, <1>5, <1>6, <1>7 DEF Inv

LEMMA NextKeepsInv == Inv /\ [Next]_vars => Inv'
<1> SUFFICES ASSUME Inv, [Next]_vars PROVE Inv'
  OBVIOUS
<1>1. ASSUME Begin PROVE Inv'
  BY <1>1, BeginKeeps
<1>2. ASSUME PersistSources PROVE Inv'
  BY <1>2, PersistSourcesKeeps
<1>3. ASSUME PersistExtraction PROVE Inv'
  BY <1>3, PersistExtractionKeeps
<1>4. ASSUME SkipContradiction PROVE Inv'
  BY <1>4, SkipKeeps
<1>5. ASSUME PersistContradictions PROVE Inv'
  BY <1>5, PersistContradictionsKeeps
<1>6. ASSUME PlanVerification \/ ResumeExpansion PROVE Inv'
  BY <1>6, PlanKeeps
<1>7. ASSUME Verify PROVE Inv'
  BY <1>7, VerifyKeeps
<1>8. ASSUME NEW top \in Claim, Expand(top) PROVE Inv'
  BY <1>8, ExpandKeeps
<1>9. ASSUME EndEnrichment PROVE Inv'
  BY <1>9, EndEnrichmentKeeps
<1>10. ASSUME Grade PROVE Inv'
  BY <1>10, GradeKeeps
<1>11. ASSUME Complete PROVE Inv'
  BY <1>11, CompleteKeeps
<1>12. ASSUME AbandonTransient \/ AbandonInfrastructure \/ Fail \/ Crash PROVE Inv'
  BY <1>12, EndingKeeps
<1>13. ASSUME FailContradiction PROVE Inv'
  BY <1>13, FailContradictionKeeps
<1>14. ASSUME Halt PROVE Inv'
  BY <1>14, HaltKeeps
<1>15. ASSUME UNCHANGED vars PROVE Inv'
  BY <1>15, StutterKeeps
<1>16. QED
  BY <1>1, <1>2, <1>3, <1>4, <1>5, <1>6, <1>7, <1>8, <1>9, <1>10, <1>11, <1>12, <1>13, <1>14, <1>15 DEF Next, Step

LEMMA InvHolds == Spec => []Inv
BY InitEstablishesInv, NextKeepsInv, PTL DEF Spec

\* Every variable of a project keeps its type, and an attempt its shape
\* (runResearchProject).
THEOREM ResearchTypeCorrect == Spec => []TypeOK
<1>1. Inv => TypeOK
  BY DEF Inv
<1>2. QED
  BY <1>1, InvHolds, PTL

\* No page is stored twice, and the initial pass and the expansion stay together
\* within max_sources and max_acquisition_attempts, whatever died or was resumed
\* in between, whatever the searches list and however the pages answer
\* (acquireSources, enrichEvidence).
THEOREM CeilingsHold == Spec => []StoredWithinCeilings
<1>1. Inv => StoredWithinCeilings
  BY DEF Inv, SourcesInv, RowsInv, StoredWithinCeilings
<1>2. QED
  BY <1>1, InvHolds, PTL

\* The workload budget, with the default its comment derives, covers every call
\* an attempt may make: none is refused within the verifier's own budget
\* (llmWorkload.js).
THEOREM WorkloadIsEnough == Spec => []WorkloadSuffices
<1>1. ASSUME Inv PROVE WorkloadSuffices
  <2>1. SUFFICES ASSUME attempt.pc = "verify", attempt.calls > 0 PROVE attempt.used < Workload
    BY DEF WorkloadSuffices
  <2>2. attempt.used + attempt.calls <= 2 * MaxSources + PairCount + MaxCalls
    BY <1>1, <2>1 DEF Inv, WorkloadInv
  <2>3. attempt.used \in Nat /\ attempt.calls \in Nat
    BY <1>1, Running, Constants
  <2>4. QED
    BY <2>1, <2>2, <2>3, Constants
<1>2. QED
  BY <1>1, InvHolds, PTL

\* A RESEARCH_COMPLETE project has the evidence a brief can be built from, and no
\* verdict is reached over an extraction or a comparison that was not committed
\* (runResearchBody, evaluateCompleteness, computeEvidenceStatus).
THEOREM VerdictsAreEarned == Spec => []VerdictIsEarned
<1>1. Inv => VerdictIsEarned
  BY DEF Inv
<1>2. QED
  BY <1>1, InvHolds, PTL

\* Whatever the model proposes, for any pages in any order, two pages share a row
\* only if their wordings can state the same fact (claimIdentity.js).
THEOREM RowsNeverMix == Spec => []RowsStateOneFact
<1>1. ASSUME Inv PROVE RowsStateOneFact
  <2>1. ASSUME NEW c \in claims PROVE StatesOneFact(rows[c])
    <3>1. rows[c] \in RowSet /\ IsSound(rows[c])
      BY <1>1, <2>1 DEF Inv, RowsInv, claims
    <3>2. QED
      BY <3>1, SoundRowsStateOneFact
  <2>2. QED
    BY <2>1 DEF RowsStateOneFact, StatesOneFact
<1>2. QED
  BY <1>1, InvHolds, PTL
=============================================================================
