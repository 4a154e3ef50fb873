----------------------------- MODULE MCDiscovery -----------------------------
(* Three observations that stay in the feeds, the first two about one event. *)
EXTENDS Discovery
MCEvent == [o \in Observation |-> IF o = 2 THEN 1 ELSE o]
=============================================================================
