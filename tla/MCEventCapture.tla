--------------------------- MODULE MCEventCapture ---------------------------
(* EventCapture on three sorts of games: with many players; with calls     *)
(* whose properties contend for the same keys; and with everything that    *)
(* can go wrong.                                                           *)
EXTENDS EventCapture

ManyPlayers ==
  [reuse: BOOLEAN, profiles: {"identifiedOnly"}, keys: {{}}, players: {3},
   troubles: {{"refusals", "crashes"}}]

ManyProperties ==
  [reuse: BOOLEAN, profiles: Profiles, keys: {CallKeys}, players: {2},
   troubles: {{}}]

ManyTroubles ==
  [reuse: {FALSE}, profiles: {"identifiedOnly"}, keys: {{}}, players: {2},
   troubles: {Trouble}]

AllBuilds == ManyPlayers \cup ManyProperties \cup ManyTroubles

=============================================================================
