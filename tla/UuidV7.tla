------------------------------- MODULE UuidV7 -------------------------------
(***************************************************************************)
(* PostHogUuidV7: the process-wide generator of identifiers.  A call       *)
(* chooses a timestamp and a counter under the lock and packs them outside *)
(* it, so threads overtake each other between the two.  The wall clock may *)
(* step back, and a new process knows nothing of the identifiers before it.*)
(*                                                                         *)
(* An identifier is the number that its first 64 bits spell, which decides *)
(* its place in the lexical order; the 62 random bits behind them are left *)
(* out, since the properties below must not depend on luck.                *)
(***************************************************************************)
EXTENDS Integers, Sequences

CONSTANTS
  Threads,       (* threads that create events and identifiers              *)
  None,          (* no timestamp and counter chosen                         *)
  CounterSize,   (* 0xFFF + 1                                               *)
  MaxTimestamp,  (* 0xFFFFFFFFFFFF                                          *)
  MaxClock,      (* bound on the wall clock                                 *)
  MaxLast,       (* bound on the generator's own time                       *)
  MaxIds         (* bound on the identifiers of a process                   *)

ASSUME CounterAssumption == CounterSize \in Nat \ {0}
ASSUME TimestampAssumption == 
  /\ MaxTimestamp \in Nat /\ MaxClock \in Nat /\ MaxLast \in Nat
ASSUME NoneAssumption == None \notin [timestamp: Nat, counter: Nat]
ASSUME BoundAssumption == MaxIds \in Nat

VARIABLES
  clock,      (* the wall clock in milliseconds                             *)
  generator,  (* the fields of FGenerator                                   *)
  chosen,     (* TimestampMs and RandA of the calls past the lock           *)
  returned    (* history: the identifiers this process returned, in order   *)

idVars == <<clock, generator, chosen, returned>>

Chosen == [timestamp: Nat, counter: Nat]

Generator == [hasGenerated: BOOLEAN, last: Nat, counter: Nat]

NewGenerator == [hasGenerated |-> FALSE, last |-> 0, counter |-> 0]

(* Pack: 48 bits of time, the version, 12 bits of counter.                 *)
Pack(timestamp, counter) ==
  timestamp * (16 * CounterSize) + 7 * CounterSize + counter

TypeOK ==
  /\ clock \in Nat
  /\ generator \in Generator
  /\ generator.counter < CounterSize
  /\ chosen \in [Threads -> Chosen \cup {None}]
  /\ returned \in Seq([thread: Threads, id: Nat])

Init ==
  /\ clock \in 0 .. MaxClock
  /\ generator = NewGenerator
  /\ chosen = [t \in Threads |-> None]
  /\ returned = <<>>

(* What the locked section makes of the fields.                            *)
(* Mutant of it: the counter wraps around.                                 *)
AdvanceWrapping ==
  IF ~generator.hasGenerated \/ clock > generator.last
  THEN [hasGenerated |-> TRUE, last |-> clock, counter |-> 0]
  ELSE [generator EXCEPT !.counter = (@ + 1) % CounterSize]

Advance ==
  IF ~generator.hasGenerated \/ clock > generator.last
  THEN [hasGenerated |-> TRUE, last |-> clock, counter |-> 0]
  ELSE IF generator.counter + 1 < CounterSize
       THEN [hasGenerated |-> TRUE, last |-> generator.last,
             counter |-> generator.counter + 1]
       ELSE [hasGenerated |-> TRUE, last |-> generator.last + 1, counter |-> 0]

(* The locked section of Generate.  Beyond 48 bits the call returns the    *)
(* empty string, and so does every later one, whatever the clock says.     *)
Choose(t) ==
  /\ chosen[t] = None /\ generator.last <= MaxLast
  /\ generator' = Advance
  /\ chosen' = [chosen EXCEPT ![t] =
                  IF generator'.last > MaxTimestamp THEN None
                  ELSE [timestamp |-> generator'.last,
                        counter |-> generator'.counter]]
  /\ UNCHANGED <<clock, returned>>

(* The rest of Generate.                                                   *)
(* Mutant of it: it packs the generator's fields, not those it chose.      *)
ReturnLatest(t) ==
  /\ chosen[t] # None /\ Len(returned) < MaxIds
  /\ returned' = Append(returned,
                        [thread |-> t,
                         id |-> Pack(generator.last, generator.counter)])
  /\ chosen' = [chosen EXCEPT ![t] = None]
  /\ UNCHANGED <<clock, generator>>

Return(t) ==
  /\ chosen[t] # None /\ Len(returned) < MaxIds
  /\ returned' = Append(returned,
                        [thread |-> t,
                         id |-> Pack(chosen[t].timestamp, chosen[t].counter)])
  /\ chosen' = [chosen EXCEPT ![t] = None]
  /\ UNCHANGED <<clock, generator>>

(* The wall clock, which the user or the network may set.                  *)
ClockMoves ==
  /\ clock' \in 0 .. MaxClock
  /\ UNCHANGED <<generator, chosen, returned>>

Restart ==
  /\ generator' = NewGenerator
  /\ chosen' = [t \in Threads |-> None]
  /\ returned' = <<>>
  /\ UNCHANGED clock

Next ==
  \/ \E t \in Threads : Choose(t) \/ Return(t)
  \/ ClockMoves \/ Restart

Spec == Init /\ [][Next]_idVars

-----------------------------------------------------------------------------
(* Properties.                                                             *)

(* The generator hands out growing identifiers, over clocks set back and   *)
(* counters that overflow (Generate; the queue's order rests on it).       *)
Ids == INSTANCE IncreasingIds WITH
  last <- IF generator.hasGenerated
          THEN Pack(generator.last, generator.counter) ELSE -1

IdsIncrease == Ids!Spec

(* No two calls return the same 64 bits, so that two threads need no luck  *)
(* with the random ones (Generate, outside the lock).                      *)
NoTwoAlike ==
  \A i, j \in DOMAIN returned : i # j => returned[i].id # returned[j].id

(* A thread sees its own identifiers grow, though another one may hold the *)
(* lock between its calls (Generate).                                      *)
ThreadOrder ==
  \A i, j \in DOMAIN returned :
    i < j /\ returned[i].thread = returned[j].thread
      => returned[i].id < returned[j].id

(* What the queue and the server rely on: identifiers differ, and those of *)
(* a thread are in order (Generate).                                       *)
IdsInOrder == NoTwoAlike /\ ThreadOrder

=============================================================================
