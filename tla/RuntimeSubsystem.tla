-------------------------- MODULE RuntimeSubsystem --------------------------
(***************************************************************************)
(* UPostHogRuntimeSubsystem with the consent controller and the quit       *)
(* coordinator it owns: the calls of the game, the callbacks of the        *)
(* engine, and the game's own callbacks, which may call back in.           *)
(*                                                                         *)
(* One process after the other runs on the same disk.  A process may die   *)
(* at any moment; the next one may be a build with other settings.         *)
(***************************************************************************)
EXTENDS ConsentController, FiniteSets

CONSTANTS
  AnalyticsEnabled,   (* BOOLEAN values the settings may take: valid        *)
  DefaultUserOptIn,   (* byDefault                                          *)
  CaptureExceptions,  (* exceptions                                         *)
  Troubles,           (* what may happen beyond the ordinary: sets of it    *)
  CallbackCalls,      (* what the game calls from inside a callback, beside *)
                      (* opting in, which is a trouble                      *)
  MaxNested           (* bound on the calls from callbacks within one call  *)

Calls == {"capture", "flush", "quit", "optIn", "optOut"}

ASSUME SettingsAssumption ==
  /\ AnalyticsEnabled \subseteq BOOLEAN
  /\ DefaultUserOptIn \subseteq BOOLEAN
  /\ CaptureExceptions \subseteq BOOLEAN
  /\ Troubles \subseteq SUBSET Trouble
ASSUME CallAssumption ==
  CallbackCalls \subseteq Calls \ {"optIn"} /\ MaxNested \in Nat

VARIABLES
  runtime,  (* the subsystem object                                         *)
  quit,     (* FPostHogQuitFlushCoordinator                                 *)
  exits,    (* history: engine exits requested by this process              *)
  wish,     (* history: the last choice of the player that came to its end  *)
  nested    (* how many calls the game has made from callbacks since Idle    *)

vars == <<settings, saved, disk, controller, queue, stack, owed,
          runtime, quit, exits, wish, nested, troubles>>

(* down: no subsystem in the process yet.  timer: the flush timer is set.  *)
(* ensure: the exception handlers are registered.                          *)
Runtime ==
  [phase: {"down", "running", "deinitialized", "destroying", "destroyed"},
   timer: BOOLEAN, ensure: BOOLEAN]

(* live: the coordinator exists; begun for bInProgress; armed: the timeout *)
(* is scheduled.                                                           *)
Coordinator ==
  [live: BOOLEAN, begun: BOOLEAN, finalized: BOOLEAN, armed: BOOLEAN]

NewCoordinator(live) ==
  [live |-> live, begun |-> FALSE, finalized |-> FALSE, armed |-> FALSE]

Builds ==
  [valid: AnalyticsEnabled, byDefault: DefaultUserOptIn,
   exceptions: CaptureExceptions]

Subsystem(phase, timer, ensure) ==
  [phase |-> phase, timer |-> timer, ensure |-> ensure]

TypeOK ==
  /\ ConsentTypeOK
  /\ runtime \in Runtime
  /\ quit \in Coordinator
  /\ exits \in Nat
  /\ wish \in {"none", "in", "out"}
  /\ nested \in 0 .. MaxNested

(* A first launch, or one after a choice made earlier.                     *)
Init ==
  /\ settings \in Builds /\ troubles \in Troubles
  /\ wish = "none" /\ saved = "none"
  /\ disk = Written(0)
  /\ controller = OptedOutController(FALSE)
  /\ queue = NoQueue
  /\ stack = <<>>
  /\ owed = {}
  /\ runtime = Subsystem("down", FALSE, FALSE)
  /\ quit = NewCoordinator(FALSE)
  /\ exits = 0
  /\ nested = 0

Idle == stack = <<>>
Running == runtime.phase = "running"
Exists == runtime.phase \in {"running", "deinitialized"}

(* The game calls from its own code: from its loop, or from a callback.    *)
GameCalls(call) ==
  /\ Exists
  /\ \/ Idle /\ UNCHANGED nested
     \/ /\ ~Idle /\ nested < MaxNested
        /\ call \in CallbackCalls \cup (troubles \cap {"optIn"})
        /\ \/ Head(stack).at = "callbacks" /\ Head(stack).game
           \/ Head(stack).at = "capture"
        /\ nested' = nested + 1

-----------------------------------------------------------------------------
(* StartFlushTimer and StopFlushTimer: what they leave of the timer.       *)

WithoutWorld == IF "world" \in troubles THEN {runtime.timer} ELSE {}

StartFlushTimer == {TRUE} \cup WithoutWorld
StopFlushTimer == {FALSE} \cup WithoutWorld

(* Initialize: the consent is restored, then the rest is set up by it.     *)

Initialize ==
  /\ runtime.phase = "down"
  /\ \/ /\ TRUE \in ShouldOptIn /\ settings.valid
        /\ EnableCollection(FALSE, stack)
        /\ \E timer \in StartFlushTimer :
             runtime' = Subsystem("running", timer, settings.exceptions)
     \/ /\ ~settings.valid \/ FALSE \in ShouldOptIn
        /\ runtime' = Subsystem("running", FALSE, FALSE)
        /\ UNCHANGED consentVars
  /\ quit' = NewCoordinator(TRUE)
  /\ UNCHANGED <<exits, wish, nested, troubles>>

(* The process ends, by a crash or after its exit; some of the writes      *)
(* still on the pipe are lost.                                             *)
ProcessEnds ==
  /\ runtime.phase # "down"
  /\ settings' \in IF "settings" \in troubles THEN Builds ELSE {settings}
  /\ \E n \in disk.saved .. Count : disk' = Written(n)
  /\ controller' = OptedOutController(FALSE)
  /\ queue' = NoQueue
  /\ stack' = <<>>
  /\ owed' = {}
  /\ runtime' = Subsystem("down", FALSE, FALSE)
  /\ quit' = NewCoordinator(FALSE)
  /\ exits' = 0
  /\ nested' = 0
  /\ UNCHANGED <<saved, wish, troubles>>

-----------------------------------------------------------------------------
(* The quit coordinator.                                                   *)

FinalizeQuit(below) ==
  IF quit.finalized
  THEN /\ stack' = below
       /\ UNCHANGED <<quit, settings, saved, disk, controller, queue, owed>>
  ELSE /\ quit' = [live |-> quit.live, begun |-> quit.begun,
                   finalized |-> TRUE, armed |-> FALSE]
       /\ Shutdown(<<Rest("exit")>> \o below)

(* The rest of FinalizeQuit: the engine is asked to exit.                  *)
ReturnToFinalizeQuit ==
  /\ Head(stack).at = "exit"
  /\ exits' = exits + 1
  /\ stack' = Tail(stack)
  /\ UNCHANGED <<settings, saved, disk, controller, queue, owed,
                 runtime, quit, wish, troubles>>

(* Mutant of it: no timeout is scheduled.                                  *)
BeginFlushAndQuitUnbounded(below) ==
  /\ quit.live /\ ~quit.begun /\ ~quit.finalized
  /\ quit' = [live |-> TRUE, begun |-> TRUE, finalized |-> FALSE,
              armed |-> FALSE]
  /\ RequestFlush(<<Quit>>, below)

BeginFlushAndQuit(below) ==
  /\ quit.live /\ ~quit.begun /\ ~quit.finalized
  /\ quit' = [live |-> TRUE, begun |-> TRUE, finalized |-> FALSE,
              armed |-> TRUE]
  /\ RequestFlush(<<Quit>>, below)

(* FlushAndQuit, and the window-close handler.                             *)
FlushAndQuit ==
  /\ GameCalls("quit")
  /\ BeginFlushAndQuit(stack)
  /\ UNCHANGED <<runtime, exits, wish, troubles>>

(* The ticker of ScheduleTimeoutWithTicker.                                *)
QuitTimeout ==
  /\ Idle /\ quit.armed
  /\ FinalizeQuit(stack)
  /\ UNCHANGED <<runtime, exits, wish, nested, troubles>>

-----------------------------------------------------------------------------
(* The calls of the game.                                                  *)

CaptureEvent ==
  /\ GameCalls("capture")
  /\ Capture(stack)
  /\ UNCHANGED <<runtime, quit, exits, wish, troubles>>

(* The subsystem looks at the consent before the controller does.          *)
RequestFlushInternal(callbacks, below) ==
  IF controller.shuttingDown \/ ~controller.optedIn
  THEN /\ owed' = owed \cup {callbacks[i] : i \in DOMAIN callbacks}
       /\ stack' = Answering(callbacks, below)
       /\ UNCHANGED <<settings, saved, disk, controller, queue>>
  ELSE RequestFlush(callbacks, below)

Flush(callback) ==
  /\ GameCalls("flush") /\ callback \notin owed
  /\ RequestFlushInternal(<<callback>>, stack)
  /\ UNCHANGED <<runtime, quit, exits, wish, troubles>>

(* FlushQueuedEvents, run by the timer.                                    *)
FlushQueuedEvents ==
  /\ Idle /\ Exists /\ runtime.timer
  /\ RequestFlushInternal(<<>>, stack)
  /\ UNCHANGED <<runtime, quit, exits, wish, nested, troubles>>

SetAnalyticsOptIn(optIn) ==
  /\ GameCalls(IF optIn THEN "optIn" ELSE "optOut")
  /\ SetOptIn(optIn, <<Rest(IF optIn THEN "optIn" ELSE "optOut")>> \o stack)
  /\ wish' = IF optIn THEN "none" ELSE wish
  /\ UNCHANGED <<runtime, quit, exits, troubles>>

(* UpdateExceptionCaptureRegistration does nothing once Deinitialize has   *)
(* reset the exception capture.                                            *)
UpdateExceptionCaptureRegistration ==
  Running /\ settings.exceptions /\ controller.optedIn

(* A choice made inside another one ends with it.                          *)
Fulfilled ==
  IF \E i \in 2 .. Len(stack) : stack[i].at \in {"optIn", "optOut"} THEN wish
  ELSE IF Head(stack).at = "optOut" THEN "out"
  ELSE IF controller.optedIn THEN "in" ELSE wish

(* Mutant of it: opting out stops the timer and forgets the handlers.      *)
ReturnToSetAnalyticsOptInForgetful ==
  /\ Head(stack).at \in {"optIn", "optOut"}
  /\ \E timer \in IF controller.optedIn THEN StartFlushTimer ELSE StopFlushTimer :
       runtime' = Subsystem(runtime.phase, timer, runtime.ensure)
  /\ wish' = Fulfilled
  /\ stack' = Tail(stack)
  /\ UNCHANGED <<settings, saved, disk, controller, queue, owed, quit, exits,
                 troubles>>

(* The rest of SetAnalyticsOptIn.  The timer runs, or not, also after      *)
(* Deinitialize.                                                           *)
ReturnToSetAnalyticsOptIn ==
  /\ Head(stack).at \in {"optIn", "optOut"}
  /\ \E timer \in IF controller.optedIn THEN StartFlushTimer ELSE StopFlushTimer :
       runtime' = Subsystem(runtime.phase, timer,
                            UpdateExceptionCaptureRegistration)
  /\ wish' = Fulfilled
  /\ stack' = Tail(stack)
  /\ UNCHANGED <<settings, saved, disk, controller, queue, owed, quit, exits,
                 troubles>>

(* One more of a flush's callbacks, or their end.  The coordinator's looks *)
(* at its liveness flag.                                                   *)
CallNext ==
  LET frame == Head(stack)
      called == Head(frame.rest)
      next == [at |-> "callbacks", rest |-> Tail(frame.rest),
               game |-> called # Quit, stale |-> frame.stale]
  IN  /\ frame.at = "callbacks"
      /\ UNCHANGED <<settings, saved, disk, controller, queue,
                     runtime, quit, exits, wish, troubles>>
      /\ IF frame.rest = <<>>
         THEN stack' = Tail(stack) /\ UNCHANGED owed
         ELSE /\ owed' = owed \ {called}
              /\ stack' = (IF called = Quit /\ quit.live
                           THEN <<Rest("quit"), next>> ELSE <<next>>)
                          \o Tail(stack)

QuitFlushCompleted ==
  /\ Head(stack).at = "quit"
  /\ FinalizeQuit(Tail(stack))
  /\ UNCHANGED <<runtime, exits, wish, troubles>>

-----------------------------------------------------------------------------
(* The engine.                                                             *)

(* HandleEnginePreExit, and the terminate delegate while it is bound.      *)
HandleEnginePreExit ==
  /\ Idle /\ Running
  /\ Shutdown(stack)
  /\ UNCHANGED <<runtime, quit, exits, wish, nested, troubles>>

ApplicationWillTerminate ==
  /\ Idle /\ Exists /\ controller.bound
  /\ Shutdown(stack)
  /\ UNCHANGED <<runtime, quit, exits, wish, nested, troubles>>

ApplicationWillEnterBackground ==
  /\ Idle /\ Exists
  /\ HandleApplicationEnteringBackground
  /\ UNCHANGED <<runtime, quit, exits, wish, nested, troubles>>

(* The handler of a failed ensure.                                         *)
EnsureFailed ==
  /\ Idle /\ Exists /\ runtime.ensure
  /\ Capture(stack)
  /\ UNCHANGED <<runtime, quit, exits, wish, nested, troubles>>

(* Deinitialize.  A quit that has begun is abandoned.                      *)
Deinitialize ==
  /\ Idle /\ Running
  /\ \E timer \in StopFlushTimer :
       runtime' = Subsystem("deinitialized", timer, FALSE)
  /\ quit' = [live |-> FALSE, begun |-> quit.begun,
              finalized |-> quit.finalized, armed |-> FALSE]
  /\ Shutdown(stack)
  /\ UNCHANGED <<exits, wish, nested, troubles>>

(* The destructors: that of the controller calls Shutdown, then the        *)
(* members go.  Timers of a destroyed object no longer run.                *)
Destroy ==
  /\ Idle /\ runtime.phase = "deinitialized"
  /\ runtime' = Subsystem("destroying", FALSE, FALSE)
  /\ Shutdown(<<Rest("destroy")>>)
  /\ UNCHANGED <<quit, exits, wish, nested, troubles>>

ReturnToDestroy ==
  /\ Head(stack).at = "destroy"
  /\ controller' = OptedOutController(TRUE)
  /\ disk' = Written(Count)
  /\ DestroyQueue(Tail(stack))
  /\ runtime' = Subsystem("destroyed", FALSE, FALSE)
  /\ UNCHANGED <<settings, saved, owed, quit, exits, wish, troubles>>

(* The HTTP client answers on the game thread, the pipe runs on another.   *)
AnswerArrives ==
  /\ Idle
  /\ RequestComplete
  /\ UNCHANGED <<runtime, quit, exits, wish, nested, troubles>>

PipeRuns ==
  /\ WriteTask
  /\ UNCHANGED <<runtime, quit, exits, wish, nested, troubles>>

-----------------------------------------------------------------------------

(* What the game thread does next while a call is not finished.            *)
ControllerReturns ==
  /\ ReturnToClear \/ ReturnToMembers \/ ReturnToDrain \/ ReturnToCapture
  /\ UNCHANGED <<runtime, quit, exits, wish, troubles>>

Continue ==
  /\ ~Idle
  /\ \/ CallNext \/ QuitFlushCompleted \/ ControllerReturns
     \/ ReturnToFinalizeQuit \/ ReturnToSetAnalyticsOptIn \/ ReturnToDestroy
  /\ nested' = IF stack' = <<>> THEN 0 ELSE nested

Next ==
  \/ Initialize \/ ProcessEnds \/ Continue
  \/ FlushAndQuit \/ QuitTimeout
  \/ CaptureEvent
  \/ \E callback \in Callbacks : Flush(callback)
  \/ FlushQueuedEvents
  \/ \E optIn \in BOOLEAN : SetAnalyticsOptIn(optIn)
  \/ HandleEnginePreExit \/ ApplicationWillTerminate
  \/ ApplicationWillEnterBackground \/ EnsureFailed
  \/ Deinitialize \/ Destroy
  \/ AnswerArrives \/ PipeRuns

Spec == Init /\ [][Next]_vars

(* The game thread goes on, and its loop comes back to a due ticker.       *)
LiveSpec == Spec /\ WF_vars(Continue) /\ SF_vars(QuitTimeout)

-----------------------------------------------------------------------------
(* Properties.                                                             *)

FramesAt(place) == {i \in DOMAIN stack : stack[i].at = place}

(* A callback handed to a flush is called once, whether the flush is       *)
(* skipped, joined, completed, cancelled or cut off by an opt-out in the   *)
(* middle of it: the callbacks still due are those held by the queue or by *)
(* an unfinished call, each in one place (RequestFlush).                   *)
Waiting == UNION {{i} \X DOMAIN stack[i].rest : i \in DOMAIN stack}

Held(callback) ==
  Cardinality({i \in DOMAIN queue.callbacks : queue.callbacks[i] = callback})
  + Cardinality({f \in Waiting : stack[f[1]].rest[f[2]] = callback})

AnsweredOnce ==
  \A callback \in Callback :
    Held(callback) = IF callback \in owed THEN 1 ELSE 0

(* No request is out without consent, not even while an opt-out is still   *)
(* clearing the queue and running the game's callbacks                     *)
(* (DisableCollection, CaptureEvent, RequestFlush).                        *)
NoRequestWithoutConsent == queue.flushing => controller.optedIn

(* After an opt-out nothing is collected, nothing collected is left on     *)
(* disk, and neither a crash nor a restart brings the collection back      *)
(* (DisableCollection, SetAnalyticsOptIn, Initialize).                     *)
NothingKeptAfterOptOut ==
  troubles = {} /\ Idle /\ Running /\ wish = "out" =>
    /\ ~controller.optedIn /\ saved # "in"
    /\ Count = 0
    /\ ~runtime.timer /\ ~runtime.ensure

(* Collection never runs on a consent that a restart would not find        *)
(* (EnableCollection).                                                     *)
ConsentIsOnDisk ==
  troubles \subseteq {"settings"} /\ Idle /\ controller.optedIn => saved = "in"

(* When the coordinator asks the engine to exit, every captured event has  *)
(* reached the disk, those included that the game captured in the          *)
(* callbacks of the cancelled flush (Shutdown).                            *)
NothingUnsavedAtExit ==
  ~Idle /\ Head(stack).at = "exit" => disk.pending = 0

(* The destructors never call the game: whoever waits for a flush has been *)
(* answered before, and no delegate is left bound to a dead object         *)
(* (Deinitialize, ~FPostHogConsentController).                             *)
DestructionIsQuiet ==
  runtime.phase \in {"destroying", "destroyed"} =>
    owed = {} /\ ~controller.bound /\ FramesAt("callbacks") = {}

(* Once Shutdown has begun, a request starts only from a capture that      *)
(* reaches the threshold, never from a call of Flush, the timer, the       *)
(* background handler or a quit (RequestFlush).                            *)
OnlyCapturesSendAfterShutdown ==
  [][(controller.shuttingDown /\ ~queue.flushing /\ queue'.flushing)
       => Count' > Count]_vars

(* The exception handlers follow the consent, whatever the game did inside *)
(* the calls that changed it, and so does the timer, provided that there   *)
(* always was a World to set and to clear it (SetAnalyticsOptIn,           *)
(* StartFlushTimer, StopFlushTimer).                                       *)
HandlersFollowConsent ==
  Idle /\ Running =>
    /\ runtime.ensure = (controller.optedIn /\ settings.exceptions)
    /\ "world" \notin troubles => runtime.timer = controller.optedIn

(* What a comment in Shutdown promises of it: no network once the teardown *)
(* may be under way, so no request is out while Shutdown is still running  *)
(* the callbacks of the flush it has cancelled.                            *)
NoRequestDuringTeardown ==
  controller.shuttingDown /\ (\E i \in FramesAt("drain") : i > 1)
    => ~queue.flushing

(* What SetOptIn's comment promises: as long as there is a controller to   *)
(* ask, opted in is having the collaborators.                              *)
ConsentHasCollaborators ==
  Idle /\ Exists /\ controller.optedIn => queue.live /\ controller.storage

(* The subsystem keeps the promise of FlushAndQuit: the engine is asked to *)
(* exit, and once, though the timeout, the end of the flush and the        *)
(* cancellation inside Shutdown all finalize a quit (FinalizeQuit; "engine *)
(* exit is still requested exactly once").                                 *)
stage ==
  IF runtime.phase = "down" THEN "absent"
  ELSE IF exits > 1 THEN "exited twice"
  ELSE IF exits = 1 THEN "exited"
  ELSE IF quit.finalized THEN "leaving"
  ELSE IF ~quit.live THEN "abandoned"
  ELSE IF quit.begun THEN "quitting" ELSE "open"

Contract == INSTANCE QuitContract

QuitContractKept == Contract!Spec

=============================================================================
