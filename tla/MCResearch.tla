----------------------------- MODULE MCResearch -----------------------------
(* Research over one publisher with two pages, another one, and a social page, *)
(* about one name and two years.                                               *)
EXTENDS Research, TLC
CONSTANTS a1, a2, b, s, acme, release

MCDomain == a1 :> "a" @@ a2 :> "a" @@ b :> "b" @@ s :> "s"

\* Every page may fail or be read; one may refuse, one may be boilerplate that
\* the reader sees through.
Article == [words |-> 400, sentences |-> 20, gate |-> FALSE, chrome |-> FALSE]
LoginPage == [words |-> 60, sentences |-> 3, gate |-> TRUE, chrome |-> FALSE]
Shell == [words |-> 2, sentences |-> 0, gate |-> FALSE, chrome |-> TRUE]
Read(text) == [answer |-> "page", text |-> text]
Failed(answer) == [answer |-> answer, text |-> NoText]
MCReplies == a1 :> {Read(Article), Failed("interrupted")}
          @@ a2 :> {Read(LoginPage), Failed("denied")}
          @@ b  :> {Read(Article), Read(Shell), Failed("HTTP error")}
          @@ s  :> {Read(Article), Failed("unreachable")}
MCReadings == a2 :> {NoText, Article} @@ [p \in {a1, b, s} |-> {NoText}]

\* "Acme released it in 2024", that it did not, "in March", "They released it in 2024".
Affirms == [names |-> {acme}, events |-> {release}, polarities |-> {"AFFIRMED"}, cues |-> {},
            hedged |-> FALSE, numbers |-> {2024}, month |-> 0, plain |-> FALSE, about |-> "question"]
Denies  == [Affirms EXCEPT !.polarities = {"NEGATED"}]
InMarch == [Affirms EXCEPT !.numbers = {}, !.month = 3, !.plain = TRUE]
Pronoun == [Affirms EXCEPT !.names = {They}]

MCSays == [p \in Page |-> IF p = b THEN {Affirms, Denies, InMarch} ELSE {Affirms, InMarch, Pronoun}]
MCAntecedent == [p \in Page |-> IF p = a1 THEN acme ELSE They]
MCPublished == [p \in Page |-> [year |-> IF p = b THEN 2023 ELSE 2024, month |-> IF p = s THEN 0 ELSE 5]]

Released(year, month) ==
  [names |-> {acme}, predicate |-> release, year |-> year, month |-> month, quantity |-> 0,
   polarity |-> "AFFIRMED", modality |-> "OCCURRED", relation |-> "DESCRIPTIVE"]
Quote(text, identity, needed) ==
  [text |-> text, original |-> None, identity |-> identity, kind |-> "FACT", loadBearing |-> needed]
Rewrite == [Quote(Affirms, Released(2024, 0), TRUE) EXCEPT !.original = Pronoun]

MCExtracts == {
  <<Quote(Affirms, Released(2024, 0), TRUE)>>,
  <<Quote(Denies, Released(2024, 0), TRUE), [Quote(InMarch, None, TRUE) EXCEPT !.kind = "INFERENCE"]>>,
  <<Quote(InMarch, Released(2024, 3), FALSE), Rewrite>> }
=============================================================================
