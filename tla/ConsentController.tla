-------------------------- MODULE ConsentController --------------------------
(***************************************************************************)
(* FPostHogConsentController: the consent, its file, and the collaborators *)
(* that exist only under it.  The operators are the calls on the           *)
(* controller; the module that composes them has the actions.              *)
(*                                                                         *)
(* A flush that ends calls its callbacks, a capture the before-send        *)
(* callback, and either may call the plugin again before the interrupted   *)
(* call returns.  The variable stack holds what the game thread still has  *)
(* to do, innermost first; an operator's argument "below" is what remains  *)
(* once the call is done.  Only the captures within EnableCollection are   *)
(* taken as one step: a before-send callback that changes the consent      *)
(* there destroys the lifecycle handler that is running.                   *)
(*                                                                         *)
(* The event queue and its storage are as coarse as the controller sees    *)
(* them: how many records there are, how many of them still wait on the    *)
(* write pipe, whether a request is out.  EventQueue has the details.      *)
(***************************************************************************)
EXTENDS Integers, Sequences

CONSTANTS
  Callbacks,        (* completion callbacks the game may pass to Flush      *)
  Quit,             (* the completion callback of the quit coordinator      *)
  MaxRecords,       (* bound on the records on disk                         *)
  FlushEventCount   (* the setting of that name                             *)

ASSUME CallbackAssumption == Quit \notin Callbacks
ASSUME RecordAssumption == MaxRecords \in Nat /\ FlushEventCount \in Nat

VARIABLES
  settings,    (* the developer settings of the running build               *)
  saved,       (* the state file opt_in_status                              *)
  disk,        (* the records of the event storage                          *)
  controller,  (* the fields of FPostHogConsentController                   *)
  queue,       (* those of its EventQueue that matter here                  *)
  stack,       (* the frames of the game thread                             *)
  owed,        (* history: callbacks passed in and not called yet           *)
  troubles     (* what happens beyond the ordinary; it never changes        *)

consentVars == <<settings, saved, disk, controller, queue, stack, owed>>

Callback == Callbacks \cup {Quit}

(* disk: the saved consent may fail to load or save, and clearing the      *)
(* records may leave some.  optIn: the game opts in from its callbacks.    *)
(* settings: a later process may have other settings.  world: there is at  *)
(* times no World whose timers could be set or cleared.                    *)
Trouble == {"disk", "optIn", "settings", "world"}

(* Whether EnableCollection accepts the settings, bDefaultUserOptIn and    *)
(* bCaptureExceptions.                                                     *)
Settings == [valid: BOOLEAN, byDefault: BOOLEAN, exceptions: BOOLEAN]

Choice == {"none", "in", "out", "torn"}

Records == [saved: 0 .. MaxRecords, pending: 0 .. MaxRecords]

(* storage stands for StorageProvider and the managers created with it,    *)
(* bound for the two delegate handles.                                     *)
Controller ==
  [optedIn: BOOLEAN, shuttingDown: BOOLEAN, storage: BOOLEAN, bound: BOOLEAN]

(* While a flush is in progress its request is out.                        *)
Queue == [live: BOOLEAN, flushing: BOOLEAN, callbacks: Seq(Callback)]

(* callbacks: those of a completed flush, rest still to be called; game if *)
(* the game's code is running.  The others are the rest of a call: Clear   *)
(* and DisableCollection after it, DisableCollection after the queue is    *)
(* gone, Shutdown, FinalizeQuit from a callback, FinalizeQuit after the    *)
(* shutdown, SetAnalyticsOptIn, the destructor, a capture whose before-    *)
(* send callback runs.  stale if the queue the frame belongs to has been   *)
(* destroyed.                                                              *)
Frame == [at: {"callbacks", "clear", "members", "drain", "quit", "exit",
               "optIn", "optOut", "destroy", "capture"},
          rest: Seq(Callback), game: BOOLEAN, stale: BOOLEAN]

ConsentTypeOK ==
  /\ settings \in Settings
  /\ saved \in Choice
  /\ disk \in Records /\ disk.saved + disk.pending <= MaxRecords
  /\ controller \in Controller
  /\ queue \in Queue
  /\ stack \in Seq(Frame)
  /\ owed \subseteq Callback
  /\ troubles \subseteq Trouble

OptedOutController(shuttingDown) ==
  [optedIn |-> FALSE, shuttingDown |-> shuttingDown,
   storage |-> FALSE, bound |-> FALSE]

NoQueue == [live |-> FALSE, flushing |-> FALSE, callbacks |-> <<>>]
IdleQueue == [live |-> TRUE, flushing |-> FALSE, callbacks |-> <<>>]
Flushing(callbacks) ==
  [live |-> TRUE, flushing |-> TRUE, callbacks |-> callbacks]

Rest(at) == [at |-> at, rest |-> <<>>, game |-> FALSE, stale |-> FALSE]

Count == disk.saved + disk.pending

(* A flush, Clear, the background handler and Shutdown wait for the pipe.  *)
Written(n) == [saved |-> n, pending |-> 0]

-----------------------------------------------------------------------------
(* The end of a flush, by whatever cause.                                  *)

Answering(callbacks, below) ==
  IF callbacks = <<>> THEN below
  ELSE <<[at |-> "callbacks", rest |-> callbacks,
          game |-> FALSE, stale |-> FALSE]>> \o below

(* CancelInFlightRequest, and the destructor of the queue, which calls it. *)
CancelInFlightRequest(below) ==
  /\ queue' = [live |-> queue.live, flushing |-> FALSE, callbacks |-> <<>>]
  /\ stack' = Answering(queue.callbacks, below)

DestroyQueue(below) ==
  /\ queue' = NoQueue
  /\ stack' = Answering(queue.callbacks, below)

(* RequestFlush of the controller, with RequestFlushInternal before it.    *)
(* callbacks is empty when the caller passed none.  A flush that cannot    *)
(* start (offline, paused, no request, only corrupt records) is answered   *)
(* at once.                                                                *)
(* Mutants of it: teardown is no reason to skip; nobody hears of a skip.   *)
RequestFlushUnguarded(callbacks, below) ==
  /\ owed' = owed \cup {callbacks[i] : i \in DOMAIN callbacks}
  /\ UNCHANGED <<settings, saved, controller>>
  /\ IF ~controller.optedIn \/ ~queue.live \/ (~queue.flushing /\ Count = 0)
     THEN /\ stack' = Answering(callbacks, below)
          /\ UNCHANGED <<disk, queue>>
     ELSE /\ stack' = below
          /\ disk' = Written(Count)
          /\ queue' = Flushing(queue.callbacks \o callbacks)

RequestFlushSilent(callbacks, below) ==
  /\ owed' = owed \cup {callbacks[i] : i \in DOMAIN callbacks}
  /\ UNCHANGED <<settings, saved, controller>>
  /\ stack' = below
  /\ IF controller.shuttingDown \/ ~controller.optedIn \/ ~queue.live
        \/ (~queue.flushing /\ Count = 0)
     THEN UNCHANGED <<disk, queue>>
     ELSE /\ disk' = Written(Count)
          /\ queue' = Flushing(queue.callbacks \o callbacks)

RequestFlush(callbacks, below) ==
  /\ owed' = owed \cup {callbacks[i] : i \in DOMAIN callbacks}
  /\ UNCHANGED <<settings, saved, controller>>
  /\ IF controller.shuttingDown \/ ~controller.optedIn \/ ~queue.live
        \/ (~queue.flushing /\ Count = 0)
     THEN /\ stack' = Answering(callbacks, below)
          /\ UNCHANGED <<disk, queue>>
     ELSE IF queue.flushing
          THEN /\ queue' = Flushing(queue.callbacks \o callbacks)
               /\ stack' = below
               /\ UNCHANGED disk
          ELSE \/ /\ \/ UNCHANGED disk
                     \/ \E n \in 0 .. Count : disk' = Written(n)
                  /\ stack' = Answering(callbacks, below)
                  /\ UNCHANGED queue
               \/ /\ queue' = Flushing(callbacks)
                  /\ disk' = Written(Count)
                  /\ stack' = below

(* The answer to a request: the next batch, or the end of the flush.       *)
RequestComplete ==
  /\ queue.flushing
  /\ UNCHANGED <<settings, saved, controller, owed>>
  /\ \/ \E n \in 1 .. Count - 1 :
          disk' = Written(n) /\ UNCHANGED <<queue, stack>>
     \/ /\ \/ UNCHANGED disk
           \/ \E n \in 0 .. Count : disk' = Written(n)
        /\ CancelInFlightRequest(stack)

-----------------------------------------------------------------------------
(* CaptureEvent, up to the game's before-send callback.  The consent is    *)
(* looked at before it and after it.                                       *)
(* Mutant of it: the consent is not looked at.                             *)
MayCaptureUnasked == queue.live

MayCapture == controller.optedIn /\ queue.live

Capture(below) ==
  /\ \/ stack' = below
     \/ MayCapture /\ stack' = <<Rest("capture")>> \o below
  /\ UNCHANGED <<settings, saved, disk, controller, queue, owed>>

(* The rest of it: the record is saved on the pipe, and starts a flush at  *)
(* the threshold.  It need not be accepted: the callback, the capacity or  *)
(* the disk may speak against it.                                          *)
ReturnToCapture ==
  /\ Head(stack).at = "capture"
  /\ stack' = Tail(stack)
  /\ UNCHANGED <<settings, saved, controller, owed>>
  /\ \/ UNCHANGED <<disk, queue>>
     \/ /\ MayCapture /\ Count < MaxRecords
        /\ \/ /\ disk' = [saved |-> disk.saved, pending |-> disk.pending + 1]
              /\ UNCHANGED queue
           \/ /\ Count + 1 >= FlushEventCount /\ ~queue.flushing
              /\ disk' = Written(Count + 1)
              /\ queue' = Flushing(<<>>)

(* The write pipe's task for the oldest record.                            *)
WriteTask ==
  /\ disk.pending > 0
  /\ disk' = [saved |-> disk.saved + 1, pending |-> disk.pending - 1]
  /\ UNCHANGED <<settings, saved, controller, queue, stack, owed>>

-----------------------------------------------------------------------------
(* PersistOptIn and TryLoadPersistedOptIn; the result of the former is     *)
(* ignored.  A failed write leaves the old file or a torn one.             *)

(* Mutant of it: only a withdrawal is written.                             *)
PersistOptInOut(choice) == saved' = IF choice = "out" THEN choice ELSE saved

PersistOptIn(choice) ==
  \/ saved' = choice
  \/ "disk" \in troubles /\ saved' \in {saved, "torn"}

ShouldOptIn ==
  LET read == IF "disk" \in troubles THEN {saved, "none"} ELSE {saved}
  IN  {IF r \in {"in", "out"} THEN r = "in" ELSE settings.byDefault : r \in read}

(* EnableCollection.  Starting the lifecycle handler may capture events.   *)
(* The new queue takes the place of an old one, which only exists while    *)
(* its Clear is running.                                                   *)
Stale(frames) ==
  [i \in DOMAIN frames |->
     [frames[i] EXCEPT !.stale = @ \/ frames[i].at = "clear"]]

EnableCollection(shuttingDown, below) ==
  /\ UNCHANGED <<settings, owed>>
  /\ controller' = [optedIn |-> TRUE, shuttingDown |-> shuttingDown,
                    storage |-> TRUE, bound |-> TRUE]
  /\ PersistOptIn("in")
  /\ stack' = Stale(below)
  /\ \/ disk' = disk /\ queue' = IdleQueue
     \/ \E n \in 1 .. 2 :
          /\ Count + n <= MaxRecords
          /\ \/ /\ disk' = [saved |-> disk.saved, pending |-> disk.pending + n]
                /\ queue' = IdleQueue
             \/ /\ Count + n >= FlushEventCount
                /\ disk' = Written(Count + n)
                /\ queue' = Flushing(<<>>)

(* DisableCollection up to the call of Clear, and Clear up to the return   *)
(* of the cancelled flush's callbacks.  Without a queue there is nothing   *)
(* to clear.                                                               *)
Withdrawn(optedIn) ==
  [optedIn |-> optedIn, shuttingDown |-> controller.shuttingDown,
   storage |-> controller.storage, bound |-> FALSE]

PersistIfStored(choice) ==
  IF controller.storage THEN PersistOptIn(choice) ELSE UNCHANGED saved

DisableCollection(below) ==
  /\ controller' = Withdrawn(FALSE)
  /\ UNCHANGED <<settings, disk, owed>>
  /\ IF queue.live
     THEN /\ CancelInFlightRequest(<<Rest("clear")>> \o below)
          /\ UNCHANGED saved
     ELSE /\ stack' = <<Rest("members")>> \o below
          /\ PersistIfStored("out")
          /\ UNCHANGED queue

(* The rest of Clear deletes the records and DisableCollection goes on to  *)
(* drop the queue.  When the queue was replaced meanwhile, Clear works on  *)
(* freed memory: it still deletes, or it does not.                         *)
(* Mutant of it: the storage goes before the choice is persisted.          *)
ReturnToClearForgetful ==
  /\ Head(stack).at = "clear"
  /\ disk' = Written(0)
  /\ UNCHANGED <<settings, saved, controller, owed>>
  /\ DestroyQueue(<<Rest("members")>> \o Tail(stack))

ReturnToClear ==
  /\ Head(stack).at = "clear"
  /\ \/ disk' = Written(0)
     \/ "disk" \in troubles /\ \E n \in 0 .. Count : disk' = Written(n)
     \/ Head(stack).stale /\ UNCHANGED disk
  /\ PersistIfStored("out")
  /\ UNCHANGED <<settings, controller, owed>>
  /\ DestroyQueue(<<Rest("members")>> \o Tail(stack))

(* The destructor of the storage waits for its pipe.                       *)
ReturnToMembers ==
  /\ Head(stack).at = "members"
  /\ controller' = [optedIn |-> controller.optedIn, storage |-> FALSE,
                    shuttingDown |-> controller.shuttingDown,
                    bound |-> controller.bound]
  /\ disk' = Written(Count)
  /\ stack' = Tail(stack)
  /\ UNCHANGED <<settings, saved, queue, owed>>

(* SetOptIn.                                                               *)
SetOptIn(optIn, below) ==
  IF optIn /\ ~controller.optedIn /\ settings.valid
  THEN EnableCollection(controller.shuttingDown, below)
  ELSE IF ~optIn /\ controller.optedIn
       THEN DisableCollection(below)
       ELSE /\ stack' = below
            /\ UNCHANGED <<settings, saved, disk, controller, queue, owed>>

-----------------------------------------------------------------------------
(* Shutdown: the request is cancelled, its callbacks run, and what is left *)
(* on the pipe is waited for.                                              *)
(* Mutants of it: the pipe is drained before the request is cancelled; the *)
(* delegates stay bound.                                                   *)
ShutdownDrainingFirst(below) ==
  /\ controller' = [optedIn |-> controller.optedIn, shuttingDown |-> TRUE,
                    storage |-> controller.storage, bound |-> FALSE]
  /\ disk' = Written(Count)
  /\ CancelInFlightRequest(below)
  /\ UNCHANGED <<settings, saved, owed>>

ShutdownBound(below) ==
  /\ controller' = [optedIn |-> controller.optedIn, shuttingDown |-> TRUE,
                    storage |-> controller.storage, bound |-> controller.bound]
  /\ CancelInFlightRequest(<<Rest("drain")>> \o below)
  /\ UNCHANGED <<settings, saved, disk, owed>>

Shutdown(below) ==
  /\ controller' = [optedIn |-> controller.optedIn, shuttingDown |-> TRUE,
                    storage |-> controller.storage, bound |-> FALSE]
  /\ CancelInFlightRequest(<<Rest("drain")>> \o below)
  /\ UNCHANGED <<settings, saved, disk, owed>>

ReturnToDrain ==
  /\ Head(stack).at = "drain"
  /\ disk' = Written(Count)
  /\ stack' = Tail(stack)
  /\ UNCHANGED <<settings, saved, controller, queue, owed>>

(* The background handler: a flush nobody hears of, then the wait.         *)
HandleApplicationEnteringBackground ==
  /\ controller.bound
  /\ RequestFlush(<<>>, <<Rest("drain")>> \o stack)

=============================================================================
