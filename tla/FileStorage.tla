---------------------------- MODULE FileStorage ----------------------------
(***************************************************************************)
(* FPostHogFileStorageProvider: the persisted event queue.                 *)
(*                                                                         *)
(* The provider keeps an in-memory index of event ids and one JSON file    *)
(* per event.  SaveEvent indexes the id at once and launches the file      *)
(* write on an FPipe that runs on a background thread; LoadEvent,          *)
(* DeleteEvent and ClearEvents first wait until that pipe is empty.        *)
(*                                                                         *)
(* Event ids are UUIDv7 strings, of which only the lexical order counts:   *)
(* here they are natural numbers.  The index is kept sorted, so it is a    *)
(* set; the pipe is FIFO in the order of the calls of SaveEvent, which     *)
(* need not be the order of the ids, so it is a sequence.                  *)
(*                                                                         *)
(* The operators work on a record, so that a caller that makes several     *)
(* storage calls in one handler can chain them.                            *)
(***************************************************************************)
EXTENDS Naturals, FiniteSets, Sequences, Functions

CONSTANTS
  Events,  (* the event ids; a bound on the events of a behaviour          *)
  Faults   (* the calls that may fail: "save", "load", "delete", "send"    *)

ASSUME EventsAssumption == Events \subseteq Nat
ASSUME FaultsAssumption == Faults \subseteq {"save", "load", "delete", "send"}

VARIABLE store

FileState == {"absent", "whole", "corrupt"}

(* lost is a history: the events the provider failed to save and those     *)
(* whose record was given up on purpose.                                   *)
Store ==
  [index: SUBSET Events, file: [Events -> FileState],
   pipe: Seq(Events), lost: SUBSET Events]

(* The events whose write has not been done yet.                           *)
Pending(s) == Range(s.pipe)

-----------------------------------------------------------------------------
(* What may fail.  A failed write leaves no file, or a torn one.           *)

SaveFailures(s) == IF "save" \in Faults THEN SUBSET Pending(s) ELSE {{}}
LoadFailures(s) == IF "load" \in Faults THEN SUBSET s.index ELSE {{}}
DeleteFailures(s) == IF "delete" \in Faults THEN SUBSET s.index ELSE {{}}

-----------------------------------------------------------------------------
(* The provider's calls on a store s.                                      *)

SaveEvent(s, e) ==
  [s EXCEPT !.index = @ \cup {e}, !.pipe = Append(@, e)]

(* The pipe is drained; the writes in failed failed and took their ids out *)
(* of the index, those in torn also left a partial file behind.            *)
WaitUntilEmpty(s, failed, torn) ==
  [index |-> s.index \ failed,
   file  |-> [e \in Events |-> CASE e \in torn -> "corrupt"
                                 [] e \in Pending(s) \ failed -> "whole"
                                 [] OTHER -> s.file[e]],
   pipe  |-> <<>>,
   lost  |-> s.lost \cup failed]

Loadable(s, e, unreadable) == s.file[e] = "whole" /\ e \notin unreadable

(* DeleteEvent on each id of D: a missing file counts as deleted.          *)
DeleteEvents(s, D) ==
  [s EXCEPT !.index = @ \ D,
            !.file  = [e \in Events |-> IF e \in D THEN "absent" ELSE @[e]]]

Discard(s, D) == [DeleteEvents(s, D) EXCEPT !.lost = @ \cup D]

ClearEvents(s, stuck) == Discard(s, s.index \ stuck)

(* A new process builds the index from the files.  Writes still on the     *)
(* pipe are gone; the one being written may have left a torn file.         *)
(* Mutant of it: a file that does not parse is not indexed.                *)
LoadReadableIndexFromDisk(s, torn) ==
  LET file == [e \in Events |-> IF e \in torn THEN "corrupt" ELSE s.file[e]]
  IN  [index |-> {e \in Events : file[e] = "whole"},
       file  |-> file,
       pipe  |-> <<>>,
       lost  |-> s.lost \cup Pending(s)]

LoadEventIndexFromDisk(s, torn) ==
  LET file == [e \in Events |-> IF e \in torn THEN "corrupt" ELSE s.file[e]]
  IN  [index |-> {e \in Events : file[e] # "absent"},
       file  |-> file,
       pipe  |-> <<>>,
       lost  |-> s.lost \cup Pending(s)]

-----------------------------------------------------------------------------
(* The background write task at the head of the pipe.                      *)

WriteTask ==
  /\ store.pipe # <<>>
  /\ LET e    == Head(store.pipe)
         rest == [store EXCEPT !.pipe = Tail(@)]
     IN  \/ store' = [rest EXCEPT !.file[e] = "whole"]
         \/ /\ "save" \in Faults
            /\ \E left \in {store.file[e], "corrupt"} :
                 store' = [rest EXCEPT !.index = @ \ {e}, !.file[e] = left,
                                       !.lost = @ \cup {e}]

(* What a death of the process may tear: the file being written.           *)
BeingWritten(s) == IF s.pipe = <<>> THEN {} ELSE {Head(s.pipe)}

=============================================================================
