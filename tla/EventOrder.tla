----------------------------- MODULE EventOrder -----------------------------
(***************************************************************************)
(* The storage orders its records by identifier and takes that order for   *)
(* their age.  Here the generator meets the capacity of the queue: one     *)
(* process follows the other, with a limit of its own, and the records     *)
(* stay.  Threads are the calls of Capture under way: on threads of their  *)
(* own, or nested in the before-send callback of another.                  *)
(***************************************************************************)
EXTENDS UuidV7, FiniteSets

CONSTANTS
  QueueSizes,    (* the values the setting MaxQueueSize takes               *)
  MaxBatchSize,  (* the setting of that name                                *)
  MaxEvents      (* bound on the events of all processes                    *)

ASSUME QueueAssumption ==
  /\ QueueSizes \subseteq Nat \ {0} /\ QueueSizes # {}
  /\ MaxBatchSize \in Nat \ {0} /\ MaxEvents \in Nat

VARIABLES
  capacity,  (* MaxQueueSize of the process that runs                       *)
  stored,    (* the records: their identifiers, and how many events were    *)
             (* created before them                                         *)
  inFlight,  (* the records of the batch that is out                        *)
  born,      (* the number of the event a call is creating                  *)
  events,    (* history: how many events there were                         *)
  newest,    (* history: the latest timestamp of an identifier              *)
  ahead      (* history: every process found the clock past the identifiers *)
             (* of the ones before it                                       *)

records == <<capacity, stored, inFlight>>
histories == <<born, events, newest, ahead>>
vars == <<clock, generator, chosen, returned, records, histories>>

OrderInit ==
  /\ Init
  /\ capacity \in QueueSizes /\ stored = {} /\ inFlight = {}
  /\ born = [t \in Threads |-> 0] /\ events = 0 /\ newest = -1
  /\ ahead = TRUE

(* The constructor of FPostHogEvent asks for an identifier.                *)
CreateEvent(t) ==
  /\ events < MaxEvents
  /\ Choose(t)
  /\ events' = events + 1
  /\ born' = [born EXCEPT ![t] = events + 1]
  /\ newest' = IF generator'.last > newest THEN generator'.last ELSE newest
  /\ ahead' = (ahead /\ (generator.hasGenerated \/ clock > newest))
  /\ UNCHANGED records

(* The game drops the event before it is sent.                             *)
DropEvent(t) == Return(t) /\ UNCHANGED <<records, histories>>

(* The first records of S, as GetEventIds lists them, any number of them.  *)
Firsts(S) == {F \in SUBSET S : \A r \in F : \A s \in S \ F : r.id <= s.id}

(* EnsureCapacityForSave gives up the oldest record that is not in flight  *)
(* until there is room, no such record is left, or a deletion fails.       *)
(* Mutant of it: it makes room with the latest records.                    *)
LatestEvictions ==
  {F \in SUBSET (stored \ inFlight) :
     /\ \A r \in F : \A s \in (stored \ inFlight) \ F : s.id <= r.id
     /\ F = {} \/ Cardinality(stored \ F) >= capacity - 1}

Evictions ==
  {F \in Firsts(stored \ inFlight) :
     F = {} \/ Cardinality(stored \ F) >= capacity - 1}

(* The event has its identifier, and the game let it pass: it is enqueued, *)
(* or rejected if there is no room.                                        *)
SaveEvent(t) ==
  /\ Return(t)
  /\ \E gone \in Evictions :
       LET left == stored \ gone
           new  == [id |-> returned'[Len(returned')].id, born |-> born[t]]
       IN  stored' = IF Cardinality(left) < capacity THEN left \cup {new}
                                                     ELSE left
  /\ UNCHANGED <<capacity, inFlight, histories>>

(* The records are read oldest first and the unreadable ones deleted, until*)
(* the batch is full.  A deletion that fails ends the flush without one.   *)
TryBuildNextBatch ==
  /\ inFlight = {} /\ stored # {}
  /\ \E visited \in Firsts(stored) :
     \E unreadable \in SUBSET visited :
       LET batch == visited \ unreadable
       IN  /\ Cardinality(batch) <= MaxBatchSize
           /\ stored' = stored \ unreadable
           /\ \/ inFlight' = {}
              \/ /\ visited = stored \/ Cardinality(batch) = MaxBatchSize
                 /\ inFlight' = batch
  /\ UNCHANGED <<idVars, capacity, histories>>

(* The records of an answered batch are deleted in their order, up to the  *)
(* first that cannot be; after a failure that may pass, none of them is.   *)
HandleBatchComplete ==
  /\ inFlight # {} /\ inFlight' = {}
  /\ \E deleted \in Firsts(inFlight) : stored' = stored \ deleted
  /\ UNCHANGED <<idVars, capacity, histories>>

ClockSet == ClockMoves /\ UNCHANGED <<records, histories>>

NextProcess ==
  /\ generator.hasGenerated
  /\ Restart
  /\ capacity' \in QueueSizes /\ inFlight' = {}
  /\ UNCHANGED <<stored, histories>>

OrderNext ==
  \/ \E t \in Threads : CreateEvent(t) \/ DropEvent(t) \/ SaveEvent(t)
  \/ TryBuildNextBatch \/ HandleBatchComplete
  \/ ClockSet \/ NextProcess

OrderSpec == OrderInit /\ [][OrderNext]_vars

(* What the queue evicts to save an event, and what it sends, was created  *)
(* before all that it keeps waiting: EnsureCapacityForSave and             *)
(* TryBuildNextBatch take the order of the identifiers for it.  Within a   *)
(* process they may, even if the clock steps back and calls overtake each  *)
(* other; across processes only if each found the clock past the           *)
(* identifiers of the last, since the generator does not persist its time. *)
(* Records in flight are spared, and unreadable ones deleted as they come. *)
Evicted == IF returned' # returned THEN stored \ stored' ELSE {}
Taken   == inFlight' \ inFlight
Waiting == (stored \cap stored') \ (inFlight \cup inFlight')

OldestFirst ==
  [][ahead => \A r \in Evicted \cup Taken : \A s \in Waiting : r.born <= s.born]_vars

=============================================================================
