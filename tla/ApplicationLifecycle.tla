------------------------ MODULE ApplicationLifecycle ------------------------
(***************************************************************************)
(* The application's life as the plugin sees it: the delegates of the      *)
(* engine, FPostHogApplicationLifecycleHandler, FPostHogSessionManager,    *)
(* and the consent controller that creates and destroys the one and keeps  *)
(* the other.  Every action is one call or one delegate on the game        *)
(* thread; the clock is the system's, which may be set back.               *)
(***************************************************************************)
EXTENDS SessionManager

CONSTANTS
  Versions,        (* the application's versions, ordered by release        *)
  LifecycleEvents, (* values of the setting bCaptureApplicationLifecycleEvents *)
  MaxTime          (* bound on the clock                                    *)

AppStates == {"active", "inactive", "background", "terminating"}

ASSUME LifecycleAssumption ==
  /\ Versions \subseteq Nat \ {0}
  /\ LifecycleEvents \subseteq BOOLEAN
  /\ MaxTime \in Nat

VARIABLES
  session,    (* the fields of FPostHogSessionManager                       *)
  handler,    (* those of the lifecycle handler                             *)
  collecting, (* the controller's bIsOptedIn                                *)
  app,        (* what the operating system has the application do           *)
  version,    (* the running version                                        *)
  seen,       (* the version in the saved lifecycle state, 0 if none        *)
  now,        (* the wall clock                                             *)
  stamp,      (* history: the last event captured, as it was stamped        *)
  said,       (* history: the lifecycle events captured                     *)
  heard,      (* history: consent changed only in an active application,    *)
              (* since the process started                                  *)
  reliable    (* history: the saved version was always read and written     *)

vars == <<session, handler, collecting, app, version, seen, now, stamp, said,
          heard, reliable>>

Handler == [started: BOOLEAN, captures: BOOLEAN, foreground: BOOLEAN]

Stopped == [started |-> FALSE, captures |-> FALSE, foreground |-> TRUE]

(* The session an event carries, its age, and whether the application was  *)
(* active when it was captured.                                            *)
Stamp == [id: 0..2, age: Int, active: BOOLEAN]

NoStamp == [id |-> 0, age |-> 0, active |-> FALSE]

(* How often Installed was captured (2 stands for more), and which of      *)
(* Opened and Backgrounded was last, since the handler started.            *)
Said == [installed: 0..2, last: {"nothing", "opened", "backgrounded"},
         repeated: BOOLEAN]

TypeOK ==
  /\ session \in Session /\ TimesOnlyInSession(session)
  /\ handler \in Handler
  /\ collecting \in BOOLEAN
  /\ app \in AppStates
  /\ version \in Versions
  /\ seen \in Versions \cup {0}
  /\ now \in Nat
  /\ stamp \in Stamp
  /\ said \in Said
  /\ heard \in BOOLEAN /\ reliable \in BOOLEAN

Init ==
  /\ session = NewSession
  /\ handler = Stopped
  /\ collecting = FALSE
  /\ app = "active"
  /\ version \in Versions
  /\ seen = 0
  /\ now = 0
  /\ stamp = NoStamp
  /\ heard = TRUE /\ reliable = TRUE
  /\ said = [installed |-> 0, last |-> "nothing", repeated |-> FALSE]

-----------------------------------------------------------------------------
(* Capturing an event: it is stamped with the current session, which is    *)
(* touched only if the queue accepts the event.                            *)

Captured(s, accepted) ==
  LET read == GetSessionId(s, now)
  IN  IF accepted THEN Touch(read, now) ELSE read

Stamped(s) ==
  LET read == GetSessionId(s, now)
  IN  [id |-> read.id, age |-> now - read.start, active |-> app' = "active"]

CaptureFrom(s) ==
  /\ \E accepted \in BOOLEAN : session' = Captured(s, accepted)
  /\ stamp' = Stamped(s)

Capture ==
  /\ collecting
  /\ UNCHANGED <<handler, collecting, app, version, seen, now, said, heard, reliable>>
  /\ CaptureFrom(session)

(* FPostHogConsentController::Reset, as far as the session goes.           *)
Reset ==
  /\ collecting
  /\ session' = StartNewSession(session, now)
  /\ UNCHANGED <<handler, collecting, app, version, seen, now, stamp, said, heard,
                 reliable>>

(* GetSessionId may be called at any time, with or without consent.        *)
ReadSession ==
  /\ session' = GetSessionId(session, now)
  /\ UNCHANGED <<handler, collecting, app, version, seen, now, stamp, said, heard,
                 reliable>>

-----------------------------------------------------------------------------
(* The handler starts and stops with collection.                           *)

(* LoadState: a state that cannot be read or parsed counts as none.        *)
LastSeenVersion == {seen, 0}

(* SaveState: a failure leaves the old file, or a torn one.                *)
SaveVersion ==
  \/ seen' = version
  \/ seen' \in {seen, 0}

(* Mutant of the next: an updated application counts as a new one.         *)
FirstLaunchOfVersion(found) == found # version

(* No version was saved: Installed, and not Updated, is captured.          *)
FirstLaunch(found) == found = 0

(* CheckVersionChanges: Installed or Updated, if either, then Opened.      *)
CheckVersionChanges(s) ==
  \E found \in LastSeenVersion :
    /\ SaveVersion
    /\ reliable' = (reliable /\ found = seen /\ seen' = version)
    /\ said' = [installed |-> IF FirstLaunch(found) /\ said.installed < 2
                              THEN said.installed + 1 ELSE said.installed,
                last |-> "opened", repeated |-> FALSE]
    /\ stamp' = Stamped(s)
    /\ \E first, second \in BOOLEAN :
         session' = Captured(IF found = version THEN s ELSE Captured(s, first),
                             second)

OptIn ==
  /\ ~collecting
  /\ collecting' = TRUE
  /\ heard' = (heard /\ app = "active")
  /\ UNCHANGED <<app, version, now>>
  /\ \E captures \in LifecycleEvents :
       /\ handler' = [started |-> TRUE, captures |-> captures, foreground |-> TRUE]
       /\ IF captures THEN CheckVersionChanges(SetCollectionPermitted(session, TRUE))
          ELSE /\ session' = SetCollectionPermitted(session, TRUE)
               /\ UNCHANGED <<seen, stamp, said, reliable>>

OptOut ==
  /\ collecting
  /\ collecting' = FALSE
  /\ heard' = (heard /\ app = "active")
  /\ handler' = Stopped
  /\ session' = EndSession(SetCollectionPermitted(session, FALSE))
  /\ said' = [installed |-> said.installed, last |-> "nothing", repeated |-> FALSE]
  /\ UNCHANGED <<app, version, seen, now, stamp, reliable>>

-----------------------------------------------------------------------------
(* The delegates.  Two of them report the way to the background, and two   *)
(* the way back; the handler passes on the first of each.                  *)

Saying(what) ==
  [installed |-> said.installed, last |-> what,
   repeated |-> said.repeated \/ said.last = what]

(* The callback to the controller and, by the setting, the event.          *)
PassOn(s, what) ==
  IF handler.captures THEN CaptureFrom(s) /\ said' = Saying(what)
  ELSE session' = s /\ UNCHANGED <<stamp, said>>

(* Mutant: every delegate is passed on.                                    *)
BackgroundedAgain ==
  IF handler.started THEN PassOn(OnBackground(session, now), "backgrounded")
  ELSE UNCHANGED <<session, stamp, said>>

Backgrounded ==
  IF handler.started /\ handler.foreground
  THEN PassOn(OnBackground(session, now), "backgrounded")
  ELSE UNCHANGED <<session, stamp, said>>

NotifyBackgrounded ==
  /\ Backgrounded
  /\ handler' = IF handler.started THEN [handler EXCEPT !.foreground = FALSE]
                ELSE handler

NotifyForegrounded ==
  /\ IF handler.started /\ ~handler.foreground
     THEN PassOn(OnForeground(session, now), "opened")
     ELSE UNCHANGED <<session, stamp, said>>
  /\ handler' = [handler EXCEPT !.foreground = TRUE]

WillDeactivate ==
  /\ app = "active" /\ app' = "inactive"
  /\ NotifyBackgrounded
  /\ UNCHANGED <<collecting, version, seen, now, heard, reliable>>

WillEnterBackground ==
  /\ app \in {"active", "inactive"} /\ app' = "background"
  /\ NotifyBackgrounded
  /\ UNCHANGED <<collecting, version, seen, now, heard, reliable>>

HasEnteredForeground ==
  /\ app = "background" /\ app' = "inactive"
  /\ NotifyForegrounded
  /\ UNCHANGED <<collecting, version, seen, now, heard, reliable>>

(* Mutant: nothing is bound to the delegate of the reactivation.           *)
HasReactivatedUnheard ==
  /\ app \in {"inactive", "background"} /\ app' = "active"
  /\ UNCHANGED <<session, handler, collecting, version, seen, now, stamp, said, heard,
                 reliable>>

HasReactivated ==
  /\ app \in {"inactive", "background"} /\ app' = "active"
  /\ NotifyForegrounded
  /\ UNCHANGED <<collecting, version, seen, now, heard, reliable>>

(* The announced end.  It reaches the handler and the controller's         *)
(* Shutdown, which stops the handler, in an order the engine leaves open.  *)
WillTerminate ==
  /\ app # "terminating" /\ app' = "terminating"
  /\ Backgrounded \/ UNCHANGED <<session, stamp, said>>
  /\ handler' = Stopped
  /\ UNCHANGED <<collecting, version, seen, now, heard, reliable>>

-----------------------------------------------------------------------------
(* The process ends, announced or not, and a later one starts, perhaps of  *)
(* a newer version.                                                        *)
Restart ==
  /\ session' = NewSession
  /\ handler' = Stopped
  /\ collecting' = FALSE
  /\ app' = "active"
  /\ version' \in {v \in Versions : v >= version}
  /\ said' = [installed |-> said.installed, last |-> "nothing", repeated |-> FALSE]
  /\ stamp' = NoStamp
  /\ heard' = TRUE
  /\ UNCHANGED <<seen, now, reliable>>

(* The clock is the system's, which may be set back.                       *)
Tick ==
  /\ now < MaxTime
  /\ now' = now + 1
  /\ UNCHANGED <<session, handler, collecting, app, version, seen, stamp, said, heard,
                 reliable>>

ClockSetBack ==
  /\ now > 0
  /\ now' = now - 1
  /\ UNCHANGED <<session, handler, collecting, app, version, seen, stamp, said, heard,
                 reliable>>

Delegate ==
  \/ WillDeactivate \/ WillEnterBackground
  \/ HasEnteredForeground \/ HasReactivated \/ WillTerminate

Next ==
  \/ Capture \/ Reset \/ ReadSession
  \/ OptIn \/ OptOut
  \/ Delegate
  \/ Restart \/ Tick \/ ClockSetBack

Spec == Init /\ [][Next]_vars

-----------------------------------------------------------------------------
(* No session exists without consent, though the manager outlives every    *)
(* opt-out and anyone may read the session or come to the foreground at    *)
(* any time (PostHogSessionManager.h:15-17).                               *)
NoSessionWithoutConsent == session.id # 0 => collecting

(* No event carries a session older than the maximum length, however the   *)
(* clock moves and whatever kept the session active                        *)
(* (PostHogSessionManager.cpp:136).                                        *)
EventsInLiveSession == stamp.id # 0 => stamp.age <= MaxSessionLength

(* Once expired, a session is replaced or ended by whatever touches it; it *)
(* goes on only if the application is just leaving the foreground, which   *)
(* OnBackground does not check, as long as consent changed only in an      *)
(* active application (PostHogSessionManager.cpp:36-65, 95-127).           *)
RevivedOnlyOnBackground ==
  [][ heard /\ HasExpired(session, now) /\ session'.id = session.id
        => \/ session' = session
           \/ session.foreground /\ ~session'.foreground ]_vars

(* Overlapping delegates that report the same transition do not repeat an  *)
(* event: Opened and Backgrounded alternate from the start of the handler  *)
(* (PostHogApplicationLifecycleHandler.cpp:80, 100).                       *)
NoRepeatedLifecycleEvents == ~said.repeated

(* Installed is captured at most once, through opt-outs, restarts and      *)
(* updates, as long as the saved state can be written and read back        *)
(* (PostHogApplicationLifecycleHandler.cpp:189-198).                       *)
InstalledOnce == reliable => said.installed <= 1

(* The manager's view of the foreground is fed by a handler that exists    *)
(* only with consent.  As long as consent changed only in an active        *)
(* application the two agree: an event captured while it is active carries *)
(* a session (PostHogSessionManager.h:27-28).                              *)
ActiveEventsHaveSession == heard /\ stamp.active => stamp.id # 0

(* An event captured while the application is active carries a session     *)
(* (PostHogSessionManager.h:27-28: "Empty when backgrounded with no active *)
(* session, or when collection is not permitted").                         *)
SessionWheneverActive == stamp.active => stamp.id # 0

=============================================================================
