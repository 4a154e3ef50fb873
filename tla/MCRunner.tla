------------------------------ MODULE MCRunner ------------------------------
(* An opportunity whose research has failed once, and an item that the provider of
   the long form has and the one of the short form has refused once. *)
EXTENDS Runner, TLC

CONSTANTS a, b
MCLine == <<"research", "brief">>
MCProviders == <<"youtube", "tiktok">>
MCPublished ==
  [Fresh EXCEPT !.state = "PUBLISHED", !.assets = TRUE, !.media = TRUE, !.short = TRUE, !.format = "BOTH",
                !.row = ("youtube" :> "PUBLISHED") @@ ("tiktok" :> "FAILED"),
                !.retry["tiktok"] = 1]
MCStart == (a :> [Fresh EXCEPT !.retry["research"] = 1]) @@ (b :> MCPublished)
=============================================================================
