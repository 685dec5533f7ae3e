---------------------------- MODULE QuitContract ----------------------------
(***************************************************************************)
(* What FlushAndQuit promises the game: a quit that has begun ends in one  *)
(* request to the engine to exit, never in two, unless the subsystem goes  *)
(* or the process dies first.  How the flush and the timeout race for it   *)
(* is the implementation's business.                                       *)
(***************************************************************************)

VARIABLE stage

Stages == {"absent", "open", "quitting", "leaving", "exited", "abandoned"}

Moves(from, to) == stage \in from /\ stage' = to

Init == stage = "absent"

Open == Moves({"absent"}, "open")
Begin == Moves({"open"}, "quitting")
Finalize == Moves({"quitting"}, "leaving")
RequestExit == Moves({"leaving"}, "exited")
Abandon == Moves({"open", "quitting"}, "abandoned")
Restart == Moves(Stages \ {"absent"}, "absent")

Next == Open \/ Begin \/ Finalize \/ RequestExit \/ Abandon \/ Restart

SafeSpec == Init /\ [][Next]_stage

Spec == SafeSpec /\ WF_stage(Finalize) /\ WF_stage(RequestExit)

=============================================================================
