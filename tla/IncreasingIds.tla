--------------------------- MODULE IncreasingIds ----------------------------
(***************************************************************************)
(* What the rest of the plugin takes from the identifier generator: in one *)
(* process every identifier is greater than the ones before it.            *)
(***************************************************************************)
EXTENDS Integers

VARIABLE last  (* the last identifier issued by this process, -1 for none  *)

Init == last = -1

Issue == last' \in Nat /\ last' > last

(* A new process, which knows nothing of the old one.                      *)
Restart == last' = -1

Next == Issue \/ Restart

Spec == Init /\ [][Next]_last

=============================================================================
