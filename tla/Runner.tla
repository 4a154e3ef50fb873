------------------------------- MODULE Runner -------------------------------
(***************************************************************************)
(* runAutonomousOperation: one run after another sweeps over the stages,   *)
(* selects the items of every stage at the start of a sweep, and calls the *)
(* stage for each of them in turn, until a sweep finds nothing, or finds   *)
(* what the sweep before it found.                                         *)
(*                                                                         *)
(* A stage is what it may leave of an item: what it does inside is in the  *)
(* other modules.  The stages from research to production, one state and   *)
(* one way on each, are the sequence Line; an item's state is the stage    *)
(* that takes it next, or a state of content_versions from PRODUCED on.    *)
(* A publication stage is named by its provider.                           *)
(***************************************************************************)
EXTENDS Integers, Sequences, SequencesExt

CONSTANTS
  Item,        \* opportunities, and what becomes of them
  Start,       \* the rows of each item when the first run begins
  Line,        \* the text stages, in order
  Recording,   \* text stages that record a failed attempt
  Excludable,  \* text stages whose refusal is logged and excludes the item
  Providers,   \* config.publicationProviderPriority
  ShortForm,   \* providers that publish the short form
  RetryCap,    \* STAGE_RETRY_CAP
  MaxMishap    \* bound: thrown errors and deaths

Text == ToSet(Line)
Provider == ToSet(Providers)
\* buildStages
Finishing == <<"asset-provisioning", "rights-verification", "media-production",
               "short-form-production", "final-compliance">>
Stages == Line \o Finishing \o Providers
Stage == ToSet(Stages)
Counter == Text \cup Provider \cup {"asset-provisioning"}
State == Text \cup {"PRODUCED", "FINAL_COMPLIANCE", "PUBLISHED", "OUT"}
Format == {"NONE", "LONG_FORM_ONLY", "SHORT_FORM_ONLY", "BOTH"}
RowStatus == {"NONE", "PENDING", "FAILED", "AMBIGUOUS", "PUBLISHED", "VISIBILITY_MISMATCH"}

\* OUT stands for every end a stage gives an item; logged are the stages whose
\* refusal is in decision_log; retry counts the attempts of stage_retry_state.
Record == [state : State, logged : SUBSET Stage, assets : BOOLEAN, media : BOOLEAN,
           short : BOOLEAN, format : Format, retry : [Counter -> 0..RetryCap],
           row : [Provider -> RowStatus]]

\* No two stages have one name, and none that of a state.
ASSUME RunnerAssumption ==
  /\ Line \in Seq(Text) /\ Providers \in Seq(Provider)
  /\ Text \cap ({"PRODUCED", "FINAL_COMPLIANCE", "PUBLISHED", "OUT"} \cup ToSet(Finishing) \cup Provider) = {}
  /\ Provider \cap ToSet(Finishing) = {}
  /\ Recording \cup Excludable \subseteq Text
  /\ ShortForm \subseteq Provider
  /\ RetryCap \in Nat \ {0} /\ MaxMishap \in Nat
  /\ Start \in [Item -> Record]

VARIABLES
  item,     \* the rows of each item
  pc,       \* "off", "sweep" or "call"
  eligible, \* what the latest sweep selected: stages with items
  todo,     \* the part of it that is still to be called
  consumed, \* retryConsumed: keys paced until the run ends
  failed,   \* history: the calls of this run that failed on account of the item
  mishaps

Fresh == [state |-> Head(Line), logged |-> {}, assets |-> FALSE, media |-> FALSE, short |-> FALSE,
          format |-> "NONE", retry |-> [c \in Counter |-> 0], row |-> [p \in Provider |-> "NONE"]]

runner == <<pc, eligible, todo, consumed, failed>>
vars == <<item, runner, mishaps>>

TypeOK ==
  /\ item \in [Item -> Record]
  /\ pc \in {"off", "sweep", "call"}
  /\ {eligible, todo, consumed, failed} \subseteq SUBSET (Stage \X Item)
  /\ mishaps \in 0..MaxMishap

Init ==
  /\ item = Start
  /\ pc = "off"
  /\ eligible = {} /\ todo = {} /\ consumed = {} /\ failed = {}
  /\ mishaps = 0

-----------------------------------------------------------------------------
(* workSelection.js                                                        *)

Quarantined(it, c) == it.retry[c] = RetryCap

\* Mutant: the retry identity of a publication has no provider.
QuarantinedForAny(it, p) == \E q \in Provider : Quarantined(it, q)
QuarantinedFor(it, p) == Quarantined(it, p)

\* The format decision leaves out providers of the other target.
Excludes(format, p) ==
  \/ format = "LONG_FORM_ONLY" /\ p \in ShortForm
  \/ format = "SHORT_FORM_ONLY" /\ p \notin ShortForm

SelectsPublication(it, p) ==
  /\ \/ it.state = "FINAL_COMPLIANCE"
     \/ it.state = "PUBLISHED" /\ it.row[p] # "PUBLISHED"
     \/ it.state = "PRODUCED" /\ \E q \in Provider : it.row[q] # "NONE"
  /\ it.media
  /\ ~QuarantinedFor(it, p)
  /\ \A q \in Provider : it.row[q] # "VISIBILITY_MISMATCH"
  /\ ~(Excludes(it.format, p) /\ it.row[p] = "NONE")

\* isDeterministicallyAssetless
Assetless(it, s) == s \in it.logged /\ ~it.assets /\ (s = "media-production" => ~it.media)

Selects(s, it) ==
  CASE s \in Text -> it.state = s /\ ~Quarantined(it, s) /\ s \notin it.logged
    [] s = "asset-provisioning" -> it.state = "PRODUCED" /\ ~Quarantined(it, s)
    [] s \in {"rights-verification", "media-production"} -> it.state = "PRODUCED" /\ ~Assetless(it, s)
    [] s = "short-form-production" -> /\ it.state \in {"PRODUCED", "FINAL_COMPLIANCE"}
                                      /\ it.media /\ ~it.short /\ it.format # "LONG_FORM_ONLY"
    [] s = "final-compliance" -> it.state \in {"PRODUCED", "FINAL_COMPLIANCE"} /\ it.media
    [] OTHER -> SelectsPublication(it, s)

Selection == {k \in Stage \X Item : Selects(k[1], item[k[2]])}

-----------------------------------------------------------------------------
(* What a stage may leave of an item, whether it failed by it, and whether  *)
(* it refused it: a refusal is returned and not thrown, and leaves nothing  *)
(* that a selector reads, so that the next run finds the item as it was.    *)

Clean(it) == [to |-> it, failed |-> FALSE, paces |-> FALSE, refused |-> FALSE]
Refused(it) == [Clean(it) EXCEPT !.refused = TRUE]
Pacing(it) == [to |-> it, failed |-> TRUE, paces |-> TRUE, refused |-> FALSE]
\* Mutant: the stage records the attempt, and its result does not carry it.
RecordedSilently(it, c) == [Pacing([it EXCEPT !.retry[c] = @ + 1]) EXCEPT !.paces = FALSE]
\* recordFailedAttempt; consumedRetryAttempt sees the attempt in the result.
Recorded(it, c) == Pacing([it EXCEPT !.retry[c] = @ + 1])

After(s) == LET n == CHOOSE n \in DOMAIN Line : Line[n] = s IN
            IF n = Len(Line) THEN "PRODUCED" ELSE Line[n + 1]

\* A failure that says nothing of the item, or of no known kind, is refused only.
TextResults(s, it) ==
  {Clean([it EXCEPT !.state = After(s)]), Clean([it EXCEPT !.state = "OUT"]), Refused(it)}
    \cup (IF s \in Excludable THEN {Clean([it EXCEPT !.logged = @ \cup {s}])} ELSE {})
    \cup (IF s \in Recording THEN {Recorded(it, s)} ELSE {})

\* Without a visual context, a provider, or an answer of it, nothing is counted.
AssetResults(it) ==
  IF it.assets THEN {Clean(it)}
  ELSE {Clean([it EXCEPT !.assets = TRUE]), Recorded(it, "asset-provisioning"), Refused(it)}

\* Without assets the refusal is logged; with them rights may or may not be granted.
RightsResults(it) ==
  {Clean(IF it.assets THEN it ELSE [it EXCEPT !.logged = @ \cup {"rights-verification"}])}

\* A picture without rights, changed or missing, and a failed narration, render
\* or validation count no attempt (failWith).
MediaResults(it) ==
  IF it.media THEN {Clean(it)}
  ELSE IF it.assets THEN {Clean([it EXCEPT !.media = TRUE]), Refused(it)}
  ELSE {Clean([it EXCEPT !.logged = @ \cup {"media-production"}])}

\* runFormatAwareShortForm: the format is decided once, then perhaps produced.
Decided(it) ==
  IF it.format # "NONE" THEN {it} ELSE {[it EXCEPT !.format = f] : f \in Format \ {"NONE"}}
\* Without a segment of the right length it is refused; a failed render or
\* validation is refused and paces the item, and is not recorded.
ShortResults(it) ==
  UNION {IF d.format = "LONG_FORM_ONLY" THEN {Clean(d)}
         ELSE {Clean([d EXCEPT !.short = TRUE]), Refused(d), [Pacing(d) EXCEPT !.refused = TRUE]}
         : d \in Decided(it)}

\* Refused without a policy pack.
ComplianceResults(it) ==
  {Clean([it EXCEPT !.state = "FINAL_COMPLIANCE"]), Clean([it EXCEPT !.state = "OUT"]), Refused(it)}

\* The rows let runPublication go on to the file, the rights of the pictures,
\* Gate 2, the grant and the metadata.
RowsAllow(it, p) ==
  /\ it.state \in {"FINAL_COMPLIANCE", "PUBLISHED"}
  /\ p \in ShortForm => it.short
  /\ it.row[p] \in {"NONE", "FAILED"}
  /\ ~Quarantined(it, p)

\* Any of these may refuse it, before an attempt is claimed.  An item is also
\* refused that has been moved since it was selected, is settled at p, or has no
\* short form for it.
PublicationResults(p, it) ==
  IF RowsAllow(it, p)
  THEN {Clean([it EXCEPT !.row[p] = "PUBLISHED", !.state = "PUBLISHED"]),
        Clean([it EXCEPT !.row[p] = "AMBIGUOUS"]),
        Clean([it EXCEPT !.row[p] = "VISIBILITY_MISMATCH"]),
        Recorded([it EXCEPT !.row[p] = "FAILED"], p),
        Refused(it)}
  ELSE IF it.state # "OUT" /\ it.row[p] = "PENDING" /\ (p \in ShortForm => it.short)
  THEN {Clean([it EXCEPT !.row[p] = "AMBIGUOUS"])}
  ELSE {Refused(it)}

Results(s, it) ==
  CASE s \in Text -> TextResults(s, it)
    [] s = "asset-provisioning" -> AssetResults(it)
    [] s = "rights-verification" -> RightsResults(it)
    [] s = "media-production" -> MediaResults(it)
    [] s = "short-form-production" -> ShortResults(it)
    [] s = "final-compliance" -> ComplianceResults(it)
    [] OTHER -> PublicationResults(s, it)

-----------------------------------------------------------------------------
(* runner.js                                                               *)

Mishap == mishaps < MaxMishap /\ mishaps' = mishaps + 1

StartRun ==
  /\ pc = "off"
  /\ pc' = "sweep"
  /\ UNCHANGED <<item, eligible, todo, consumed, failed, mishaps>>

\* The variables of a run are its own.
EndRun ==
  /\ pc' = "off"
  /\ eligible' = {} /\ todo' = {} /\ consumed' = {} /\ failed' = {}

\* Mutant: the key is the item's alone.
RetryKeyOfItem(s, i) == <<"research", i>>
RetryKey(s, i) == <<s, i>>
\* Rights verification and final compliance have no consumedRetryAttempt.
Paced(s, i) ==
  s \notin {"rights-verification", "final-compliance"} /\ RetryKey(s, i) \in consumed

\* Mutant: the signature is not compared.
NoProgressNever == FALSE
NoProgress == Selection = eligible

\* no_work, or no_progress.
Stop ==
  /\ pc = "sweep"
  /\ Selection = {} \/ NoProgress
  /\ EndRun
  /\ UNCHANGED <<item, mishaps>>

\* A key cannot be consumed during a sweep but by its own call.
Sweep ==
  /\ pc = "sweep"
  /\ Selection # {} /\ ~NoProgress
  /\ eligible' = Selection
  /\ todo' = {k \in Selection : ~Paced(k[1], k[2])}
  /\ pc' = IF todo' = {} THEN "sweep" ELSE "call"
  /\ UNCHANGED <<item, consumed, failed, mishaps>>

\* Stage by stage; the items of a stage in any order.
IsNext(s, i) ==
  /\ <<s, i>> \in todo
  /\ \A t \in Stage, j \in Item : <<t, j>> \in todo =>
       (CHOOSE n \in DOMAIN Stages : Stages[n] = s) <= (CHOOSE n \in DOMAIN Stages : Stages[n] = t)

Take(s, i, r) ==
  /\ pc = "call"
  /\ IsNext(s, i)
  /\ item' = [item EXCEPT ![i] = r.to]
  /\ todo' = todo \ {<<s, i>>}
  /\ pc' = IF todo' = {} THEN "sweep" ELSE "call"
  /\ consumed' = consumed \cup (IF r.paces THEN {RetryKey(s, i)} ELSE {})
  /\ failed' = failed \cup (IF r.failed THEN {<<s, i>>} ELSE {})
  /\ UNCHANGED eligible

Call(s, i) ==
  /\ \E r \in Results(s, item[i]) : Take(s, i, r)
  /\ UNCHANGED mishaps

\* The calls that are refused.
Refuse(s, i) == \E r \in Results(s, item[i]) : r.refused /\ Take(s, i, r)

\* A stage throws, which ends the run, or the process dies in it; a publication
\* may be left PENDING.
Abort(s, i) ==
  /\ pc = "call"
  /\ IsNext(s, i)
  /\ item' \in {item} \cup
       (IF s \in Provider /\ RowsAllow(item[i], s)
        THEN {[item EXCEPT ![i].row[s] = "PENDING"]} ELSE {})
  /\ EndRun
  /\ Mishap

Run == StartRun \/ Stop \/ Sweep \/ \E s \in Stage, i \in Item : Call(s, i)
Next == Run \/ \E s \in Stage, i \in Item : Abort(s, i)

\* Runs are scheduled for ever, and a run goes on until it ends.
Spec == Init /\ [][Next]_vars /\ WF_vars(Run)

-----------------------------------------------------------------------------
(* Properties.                                                             *)

\* A sweep leaves out only items that have failed in this very run at this very
\* stage: pacing never costs an item the turn of another (retryKey and
\* retryIdentity, runner.js).
EveryItemGetsItsTurn == [][pc = "sweep" => eligible' \ todo' \subseteq failed]_vars

\* ADR-0023: a run that has recorded a failed attempt of an item does not record
\* another one of the same stage and item, in whatever sweep.
OneFailurePerRun ==
  [][\A i \in Item, c \in Counter :
       item'[i].retry[c] > item[i].retry[c] => <<c, i>> \notin failed]_vars

\* A run ends, whatever the stages answer and however often they refuse the same
\* item (the no_progress stop).
RunEnds == (pc # "off") ~> (pc = "off")

\* Nothing more is to be done for an item at a provider without the Owner.
Settled(it, p) ==
  \/ it.state = "OUT" \/ it.state \in it.logged
  \/ it.state \in Text /\ Quarantined(it, it.state)
  \/ it.state = "PRODUCED" /\ ~it.assets /\ Quarantined(it, "asset-provisioning")
  \/ it.row[p] \in {"PUBLISHED", "AMBIGUOUS"} \/ Quarantined(it, p)
  \/ \E q \in Provider : it.row[q] = "VISIBILITY_MISMATCH"
  \/ Excludes(it.format, p)

\* The stage that has to let an item pass before p, or p itself.
Awaited(it, p) ==
  CASE it.state \in Text -> it.state
    [] it.state = "PRODUCED" -> IF it.media THEN "final-compliance"
                                ELSE IF it.assets THEN "media-production" ELSE "asset-provisioning"
    [] it.state = "FINAL_COMPLIANCE" /\ p \in ShortForm /\ ~it.short -> "short-form-production"
    [] OTHER -> p

\* While errors are thrown only finitely often, no selector forgets an item: it is
\* settled at every provider in the end, or the very stage it waits for is called
\* for it, run after run, and refuses it.
SettlesOrIsRefused ==
  \A i \in Item, p \in Provider :
    <>[]Settled(item[i], p) \/ []<><<Refuse(Awaited(item[i], p), i)>>_vars
=============================================================================
