-------------------------- MODULE ExceptionCapture --------------------------
(***************************************************************************)
(* FPostHogExceptionCapture: the adapter that turns the engine's failed    *)
(* ensures into reports, with the part of the runtime subsystem that       *)
(* registers and unregisters it.                                           *)
(*                                                                         *)
(* The calls of the game thread nest.  A report runs the whole capture     *)
(* pipeline, the game's before-send callback included, and an opt-out runs *)
(* the flush callbacks of the queue: in both an ensure may fail again, or  *)
(* consent change again, before the call returns.  Ensures that fail on    *)
(* other threads are not modelled: whether the engine runs its delegate    *)
(* there, and under which lock, is not in this repository.                 *)
(***************************************************************************)
EXTENDS Integers, Sequences

CONSTANTS
  Intervals,    \* values of ExceptionDebounceIntervalMs, in ticks of the clock
  MaxInterval,  \* the longest of them
  MaxTime,      \* bound on the clock
  MaxDepth      \* bound on the nesting of calls

ASSUME IntervalAssumption == MaxInterval \in Nat /\ Intervals \subseteq 0..MaxInterval
ASSUME BoundAssumption == MaxTime \in Nat /\ MaxDepth \in Nat

VARIABLES
  settings,    \* UPostHogDeveloperSettings
  optedIn,     \* IsOptedIn() of the consent controller
  handlers,    \* the fields of FPostHogExceptionCapture
  now,         \* FPlatformTime::Seconds
  stack,       \* the calls of the game thread, the innermost first
  handedOn     \* history: when an ensure was last given to CaptureException

vars == <<settings, optedIn, handlers, now, stack, handedOn>>

(* capture: bCaptureExceptions.  here: bCaptureExceptionsInEditor, or the  *)
(* process is not the editor.                                              *)
Settings == [capture: BOOLEAN, here: BOOLEAN, interval: Intervals]

(* LastCaptureSeconds starts with the lowest double: no interval reaches   *)
(* back to it.                                                             *)
Never == -MaxInterval

(* live: the object exists.  bound: EnsureFailedHandle.IsValid().          *)
(* capturing: bIsCapturingException.                                       *)
Handlers ==
  [live: BOOLEAN, bound: BOOLEAN, capturing: BOOLEAN,
   debounce: 0..MaxInterval, last: Never..MaxTime]

NewHandlers(isLive) ==
  [live |-> isLive, bound |-> FALSE, capturing |-> FALSE,
   debounce |-> 0, last |-> Never]

Frames == {"report", "choice"}

Idle == stack = <<>>

(* TypeOK: and a delegate is never left bound to an object that is gone    *)
(* (the order of Deinitialize).                                            *)
TypeOK ==
  /\ settings \in Settings
  /\ optedIn \in BOOLEAN
  /\ handlers \in Handlers
  /\ now \in 0..MaxTime
  /\ stack \in Seq(Frames)
  /\ handedOn \in Never..MaxTime
  /\ handlers.bound => handlers.live

Init ==
  /\ settings \in Settings
  /\ optedIn \in BOOLEAN
  /\ handlers = NewHandlers(FALSE)
  /\ now = 0
  /\ stack = <<>>
  /\ handedOn = Never

-----------------------------------------------------------------------------

RegisterHandlers(h) ==
  IF h.bound \/ ~settings.here THEN h
  ELSE [h EXCEPT !.bound = TRUE, !.debounce = settings.interval]

UnregisterHandlers(h) == [h EXCEPT !.bound = FALSE]

UpdateExceptionCaptureRegistration(h, consent) ==
  IF ~h.live THEN h
  ELSE IF settings.capture /\ consent THEN RegisterHandlers(h)
  ELSE UnregisterHandlers(h)

(* Every Initialize makes a new object.                                    *)
Initialize ==
  /\ Idle /\ ~handlers.live
  /\ handlers' = UpdateExceptionCaptureRegistration(NewHandlers(TRUE), optedIn)
  /\ handedOn' = Never
  /\ UNCHANGED <<settings, optedIn, now, stack>>

Deinitialize ==
  /\ Idle /\ handlers.live
  /\ handlers' = NewHandlers(FALSE)
  /\ UNCHANGED <<settings, optedIn, now, stack, handedOn>>

(* SetAnalyticsOptIn, up to the calls of the game that the controller      *)
(* makes.  Opting in may fail: the settings may not allow it.              *)
SetAnalyticsOptIn ==
  /\ handlers.live
  /\ Len(stack) < MaxDepth
  /\ optedIn' \in BOOLEAN
  /\ stack' = <<"choice">> \o stack
  /\ UNCHANGED <<settings, handlers, now, handedOn>>

(* The rest of it, with the consent there is by then.                      *)
ReturnToSetAnalyticsOptIn ==
  /\ ~Idle /\ Head(stack) = "choice"
  /\ handlers' = UpdateExceptionCaptureRegistration(handlers, optedIn)
  /\ stack' = Tail(stack)
  /\ UNCHANGED <<settings, optedIn, now, handedOn>>

-----------------------------------------------------------------------------

(* The early returns of CaptureAdapted.                                    *)
Suppressed ==
  \/ handlers.capturing
  \/ now - handlers.last < handlers.debounce

(* Mutant of the next: an ensure that is left out extends the interval.    *)
HandleEnsureSliding ==
  /\ handlers.bound
  /\ Len(stack) < MaxDepth
  /\ handlers' = [handlers EXCEPT !.capturing = @ \/ ~Suppressed, !.last = now]
  /\ IF Suppressed THEN UNCHANGED <<stack, handedOn>>
     ELSE stack' = <<"report">> \o stack /\ handedOn' = now
  /\ UNCHANGED <<settings, optedIn, now>>

(* HandleEnsureFailed and CaptureAdapted up to CaptureException, which     *)
(* runs with the flag set, whether or not it takes the exception.          *)
HandleEnsureFailed ==
  /\ handlers.bound
  /\ Len(stack) < MaxDepth
  /\ ~Suppressed
  /\ handlers' = [handlers EXCEPT !.capturing = TRUE, !.last = now]
  /\ handedOn' = now
  /\ stack' = <<"report">> \o stack
  /\ UNCHANGED <<settings, optedIn, now>>

ReturnFromCaptureException ==
  /\ ~Idle /\ Head(stack) = "report"
  /\ handlers' = [handlers EXCEPT !.capturing = FALSE]
  /\ stack' = Tail(stack)
  /\ UNCHANGED <<settings, optedIn, now, handedOn>>

(* Time passes inside the calls as well as between them.                   *)
Tick ==
  /\ now < MaxTime
  /\ now' = now + 1
  /\ UNCHANGED <<settings, optedIn, handlers, stack, handedOn>>

Next ==
  \/ Initialize
  \/ Deinitialize
  \/ SetAnalyticsOptIn
  \/ ReturnToSetAnalyticsOptIn
  \/ HandleEnsureFailed
  \/ ReturnFromCaptureException
  \/ Tick

Spec == Init /\ [][Next]_vars

-----------------------------------------------------------------------------

Reports == {i \in 1..Len(stack) : stack[i] = "report"}

(* NoReportWithinReport: however ensures, callbacks and choices of consent *)
(* nest, and however long a capture takes, no report runs inside another   *)
(* (bIsCapturingException in CaptureAdapted).                              *)
NoReportWithinReport == \A i, j \in Reports : i = j

(* OnlyRepeatsSuppressed: a registered handler leaves an ensure out only   *)
(* while a report runs, or when one began less than the debounce interval  *)
(* ago: no nesting of calls leaves the flag set, and ensures that are left *)
(* out do not extend the interval (CaptureAdapted).                        *)
OnlyRepeatsSuppressed ==
  handlers.bound /\ Suppressed =>
    \/ Reports # {}
    \/ now - handedOn < settings.interval

(* RepeatsSuppressed: and it does leave out the ensures within the         *)
(* interval, through every opting out and in between, so that reports      *)
(* begin at least the interval apart (CaptureAdapted).                     *)
RepeatsSuppressed ==
  handlers.bound /\ now - handedOn < settings.interval => Suppressed

(* ReportsDebounced: exactly the ensures inside a report and within the    *)
(* interval after its start are left out (CaptureAdapted).                 *)
ReportsDebounced ==
  NoReportWithinReport /\ OnlyRepeatsSuppressed /\ RepeatsSuppressed

(* BoundWithConsent: once the calls have returned, the handlers are bound  *)
(* exactly when the settings and the consent ask for it, whatever choices  *)
(* were made inside a report or inside another choice                      *)
(* (UpdateExceptionCaptureRegistration).                                   *)
BoundWithConsent ==
  Idle /\ handlers.live =>
    handlers.bound = (settings.capture /\ settings.here /\ optedIn)

=============================================================================
