-------------------------- MODULE PublicationOnce --------------------------
(***************************************************************************)
(* What publication promises, with nothing of how: each provider receives  *)
(* a content version at most once, and what the engine says of the         *)
(* delivery is said once, never taken back, and never ahead of it.         *)
(***************************************************************************)
CONSTANTS Provider, Item

VARIABLES
  outcome,  \* what the engine says of the delivery to each provider
  items     \* the items each provider holds for the content version

Outcome == {"open", "unknown", "published", "mismatch"}

Init ==
  /\ outcome = [p \in Provider |-> "open"]
  /\ items = [p \in Provider |-> {}]

\* The item may appear after the engine has given up on knowing.
Deliver(p, t) ==
  /\ items[p] = {}
  /\ outcome[p] \in {"open", "unknown"}
  /\ items' = [items EXCEPT ![p] = {t}]
  /\ UNCHANGED outcome

GiveUp(p) ==
  /\ outcome[p] = "open"
  /\ outcome' = [outcome EXCEPT ![p] = "unknown"]
  /\ UNCHANGED items

\* The item exists, as asked for or with a visibility that was not asked for.
Confirm(p, verdict) ==
  /\ outcome[p] = "open"
  /\ items[p] # {}
  /\ outcome' = [outcome EXCEPT ![p] = verdict]
  /\ UNCHANGED items

Next ==
  \E p \in Provider :
    \/ \E t \in Item : Deliver(p, t)
    \/ GiveUp(p)
    \/ \E verdict \in {"published", "mismatch"} : Confirm(p, verdict)

Spec == Init /\ [][Next]_<<outcome, items>>

=============================================================================
