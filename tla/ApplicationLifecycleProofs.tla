--------------------- MODULE ApplicationLifecycleProofs ---------------------
(***************************************************************************)
(* Proofs about ApplicationLifecycle, for any limits of a session, any     *)
(* versions and, in the last part, any timing of the delegates.            *)
(***************************************************************************)
EXTENDS ApplicationLifecycle, TLAPS

USE SessionLimitsAssumption, LifecycleAssumption DEF TimesOnlyInSession

-----------------------------------------------------------------------------
(* Facts about the session manager.  A usable session is one that exists   *)
(* only with permission.                                                   *)

Usable(s) ==
  s \in Session /\ TimesOnlyInSession(s) /\ (s.id # 0 => s.permitted)

(* Two states of the manager with the same settings.                       *)
SameSettings(s, r) == r.foreground = s.foreground /\ r.permitted = s.permitted

(* Starting or ending a session leaves a usable manager with its settings. *)
LEMMA StartFacts ==
  ASSUME NEW s \in Session, NEW t \in Nat
  PROVE  /\ Usable(StartNewSession(s, t)) /\ Usable(EndSession(s))
         /\ SameSettings(s, StartNewSession(s, t))
         /\ SameSettings(s, EndSession(s))
         /\ EndSession(s).id = 0
         /\ StartNewSession(s, t).id # 0 => StartNewSession(s, t).start = t
         /\ ~HasExpired(StartNewSession(s, t), t)
         /\ s.permitted => /\ StartNewSession(s, t).id # 0
                           /\ StartNewSession(s, t).id # s.id
<1>1. NextId(s) \in 1..2 /\ NextId(s) # s.id
  BY DEF NextId, Session
<1>2. QED
  BY <1>1 DEF Session, Usable, SameSettings, StartNewSession, EndSession, WithSession,
       HasExpired

(* HandleExpired is a start in the foreground and an end elsewhere.        *)
LEMMA ExpiredFacts ==
  ASSUME NEW s, Usable(s), NEW t \in Nat, HasExpired(s, t)
  PROVE  /\ Usable(HandleExpired(s, t))
         /\ SameSettings(s, HandleExpired(s, t))
         /\ HandleExpired(s, t).id # s.id
         /\ HandleExpired(s, t).id # 0 => HandleExpired(s, t).start = t
         /\ ~HasExpired(HandleExpired(s, t), t)
         /\ s.foreground => HandleExpired(s, t).id # 0
BY StartFacts DEF Usable, HandleExpired, HasExpired

(* Reading the session keeps the settings, and what it returns is not too  *)
(* old; with permission and in the foreground there always is one, and an  *)
(* expired one is never returned.                                          *)
LEMMA ReadFacts ==
  ASSUME NEW s, Usable(s), NEW t \in Nat
  PROVE  /\ Usable(GetSessionId(s, t))
         /\ SameSettings(s, GetSessionId(s, t))
         /\ GetSessionId(s, t).id # 0 =>
              t - GetSessionId(s, t).start <= MaxSessionLength
         /\ s.permitted /\ s.foreground => GetSessionId(s, t).id # 0
         /\ HasExpired(s, t) => GetSessionId(s, t).id # s.id
         /\ s.id # 0 /\ ~HasExpired(s, t) => GetSessionId(s, t) = s
         /\ ~HasExpired(GetSessionId(s, t), t)
<1> s \in Session
  BY DEF Usable
<1>1. CASE s.id = 0 /\ s.foreground
  <2>1. GetSessionId(s, t) = StartNewSession(s, t) /\ ~HasExpired(s, t)
    BY <1>1 DEF GetSessionId, HasExpired
  <2>2. QED
    BY <1>1, <2>1, StartFacts
<1>2. CASE ~(s.id = 0 /\ s.foreground) /\ HasExpired(s, t)
  BY <1>2, ExpiredFacts DEF GetSessionId
<1>3. CASE ~(s.id = 0 /\ s.foreground) /\ ~HasExpired(s, t)
  BY <1>3 DEF GetSessionId, HasExpired, Session, SameSettings, Usable
<1> QED
  BY <1>1, <1>2, <1>3, Zenon

(* Touching it after that keeps all of this.                               *)
LEMMA TouchFacts ==
  ASSUME NEW s, Usable(s), NEW t \in Nat
  PROVE  /\ Usable(Touch(s, t))
         /\ SameSettings(s, Touch(s, t))
         /\ ~HasExpired(s, t) => Touch(s, t).id = s.id
<1>1. CASE s.id = 0
  BY <1>1 DEF Touch, SameSettings
<1>2. CASE s.id # 0 /\ HasExpired(s, t)
  BY <1>2, ExpiredFacts DEF Touch
<1>3. CASE s.id # 0 /\ ~HasExpired(s, t)
  BY <1>3 DEF Touch, Usable, Session, SameSettings
<1> QED
  BY <1>1, <1>2, <1>3, Zenon

(* The callbacks of the lifecycle handler set the foreground.              *)
LEMMA ForegroundFacts ==
  ASSUME NEW s, Usable(s), NEW t \in Nat
  PROVE  /\ Usable(OnForeground(s, t)) /\ Usable(OnBackground(s, t))
         /\ OnForeground(s, t).foreground = TRUE
         /\ OnBackground(s, t).foreground = FALSE
         /\ OnForeground(s, t).permitted = s.permitted
         /\ OnBackground(s, t).permitted = s.permitted
         /\ HasExpired(s, t) => /\ OnForeground(s, t).id \notin {0, s.id}
                               /\ ~HasExpired(OnForeground(s, t), t)
<1> DEFINE f == [s EXCEPT !.foreground = TRUE]
<1>1. /\ Usable(f) /\ f.foreground = TRUE /\ f.permitted = s.permitted
      /\ f.id = s.id /\ f.start = s.start /\ f.last = s.last
  BY DEF Usable, Session
<1>2. HasExpired(s, t) => HasExpired(f, t)
  BY <1>1 DEF HasExpired
<1>3. /\ Usable(OnForeground(s, t)) /\ OnForeground(s, t).foreground = TRUE
      /\ OnForeground(s, t).permitted = s.permitted
      /\ HasExpired(s, t) => /\ OnForeground(s, t).id \notin {0, s.id}
                            /\ ~HasExpired(OnForeground(s, t), t)
  <2>1. CASE s.id = 0
    <3>1. OnForeground(s, t) = StartNewSession(f, t) /\ ~HasExpired(s, t)
      BY <2>1 DEF OnForeground, HasExpired
    <3> HIDE DEF f
    <3>2. f \in Session
      BY <1>1 DEF Usable
    <3>3. Usable(StartNewSession(f, t)) /\ SameSettings(f, StartNewSession(f, t))
      BY <3>2, StartFacts
    <3>4. QED
      BY <1>1, <3>1, <3>3 DEF SameSettings
  <2>2. CASE s.id # 0 /\ HasExpired(s, t)
    <3>1. OnForeground(s, t) = HandleExpired(f, t)
      BY <2>2 DEF OnForeground, HasExpired
    <3> HIDE DEF f
    <3>2. /\ Usable(HandleExpired(f, t)) /\ SameSettings(f, HandleExpired(f, t))
          /\ HandleExpired(f, t).id \notin {0, f.id}
          /\ ~HasExpired(HandleExpired(f, t), t)
      BY <1>1, <1>2, <2>2, ExpiredFacts
    <3>3. QED
      BY <1>1, <3>1, <3>2 DEF SameSettings
  <2>3. CASE s.id # 0 /\ ~HasExpired(s, t)
    <3>1. OnForeground(s, t) = [f EXCEPT !.last = t]
      BY <2>3 DEF OnForeground
    <3> HIDE DEF f
    <3>2. QED
      BY <1>1, <2>3, <3>1 DEF Usable, Session
  <2>4. QED
    BY <2>1, <2>2, <2>3
<1>4. /\ Usable(OnBackground(s, t)) /\ OnBackground(s, t).foreground = FALSE
      /\ OnBackground(s, t).permitted = s.permitted
  <2> DEFINE b == [s EXCEPT !.foreground = FALSE]
  <2>1. Usable(b) /\ b.id = s.id /\ b.foreground = FALSE /\ b.permitted = s.permitted
    BY DEF Usable, Session
  <2>2. OnBackground(s, t) = IF s.id = 0 THEN b ELSE [b EXCEPT !.last = t]
    BY DEF OnBackground
  <2> HIDE DEF b
  <2>3. QED
    BY <2>1, <2>2 DEF Usable, Session
<1>5. QED
  BY <1>3, <1>4

-----------------------------------------------------------------------------
(* Facts about capturing an event.                                         *)

Live(st) == st.id # 0 => st.age <= MaxSessionLength

(* The session of a captured event is not too old; the event has one if    *)
(* the session manager is permitted and in the foreground.                 *)
LEMMA StampFacts ==
  ASSUME NEW s, Usable(s), now \in Nat
  PROVE  /\ Stamped(s) \in Stamp /\ Live(Stamped(s))
         /\ s.permitted /\ s.foreground => Stamped(s).id # 0
<1>1. GetSessionId(s, now) \in Session
  BY ReadFacts DEF Usable
<1>2. Stamped(s) = [id |-> GetSessionId(s, now).id,
                    age |-> now - GetSessionId(s, now).start,
                    active |-> app' = "active"]
  BY DEF Stamped
<1>3. Stamped(s) \in Stamp
  BY <1>1, <1>2 DEF Session, Stamp
<1>4. QED
  BY <1>2, <1>3, ReadFacts DEF Live

(* Capturing keeps the settings and leaves no expired session.             *)
LEMMA CapturedFacts ==
  ASSUME NEW s, Usable(s), now \in Nat, NEW accepted \in BOOLEAN
  PROVE  /\ Usable(Captured(s, accepted))
         /\ SameSettings(s, Captured(s, accepted))
         /\ HasExpired(s, now) => Captured(s, accepted).id # s.id
         /\ s.id # 0 /\ ~HasExpired(s, now) => Captured(s, accepted).id = s.id
<1> DEFINE read == GetSessionId(s, now)
<1>1. /\ Usable(read) /\ SameSettings(s, read) /\ ~HasExpired(read, now)
      /\ HasExpired(s, now) => read.id # s.id
      /\ s.id # 0 /\ ~HasExpired(s, now) => read = s
  BY ReadFacts
<1>2. /\ Usable(Touch(read, now)) /\ SameSettings(read, Touch(read, now))
      /\ Touch(read, now).id = read.id
  BY <1>1, TouchFacts
<1> HIDE DEF read
<1>3. Captured(s, accepted) = IF accepted THEN Touch(read, now) ELSE read
  BY DEF Captured, read
<1>4. QED
  BY <1>1, <1>2, <1>3 DEF SameSettings

(* What a capture changes.                                                 *)
LEMMA CaptureFromFacts ==
  ASSUME NEW s, Usable(s), now \in Nat, CaptureFrom(s)
  PROVE  /\ Usable(session') /\ SameSettings(s, session')
         /\ stamp' \in Stamp /\ Live(stamp')
         /\ s.permitted /\ s.foreground => stamp'.id # 0
         /\ HasExpired(s, now) => session'.id # s.id
         /\ s.id # 0 /\ ~HasExpired(s, now) => session'.id = s.id
         /\ stamp'.active => app' = "active"
<1>1. stamp' = Stamped(s)
  BY DEF CaptureFrom
<1>2. stamp'.active => app' = "active"
  BY <1>1 DEF Stamped
<1>3. QED
  BY <1>1, <1>2, StampFacts, CapturedFacts DEF CaptureFrom

(* What a delegate passed on by the handler changes.                       *)
LEMMA PassOnFacts ==
  ASSUME TypeOK, NEW s, Usable(s), NEW what \in {"opened", "backgrounded"},
         PassOn(s, what)
  PROVE  /\ Usable(session') /\ SameSettings(s, session')
         /\ stamp' # stamp => /\ stamp' \in Stamp /\ Live(stamp')
                              /\ s.permitted /\ s.foreground => stamp'.id # 0
                              /\ stamp'.active => app' = "active"
         /\ said' \in Said /\ said'.installed = said.installed
         /\ s.id # 0 /\ ~HasExpired(s, now) => session'.id = s.id
<1>1. CASE handler.captures
  <2>1. CaptureFrom(s) /\ said' = Saying(what)
    BY <1>1 DEF PassOn
  <2>2. said' \in Said /\ said'.installed = said.installed
    BY <2>1 DEF Saying, Said, TypeOK
  <2>3. QED
    BY <2>1, <2>2, CaptureFromFacts DEF TypeOK
<1>2. CASE ~handler.captures
  BY <1>2 DEF PassOn, TypeOK, SameSettings
<1>3. QED
  BY <1>1, <1>2

-----------------------------------------------------------------------------
(* The invariant of every schedule: the manager's permission is the        *)
(* controller's consent, and the handler runs only under it.               *)

Core ==
  /\ TypeOK
  /\ Usable(session)
  /\ session.permitted = collecting
  /\ handler.started => collecting
  /\ Live(stamp)

(* It holds initially.                                                     *)
LEMMA CoreInit == Init => Core
<1> SUFFICES ASSUME Init PROVE Core
  OBVIOUS
<1>1. /\ session \in Session /\ session.id = 0 /\ session.permitted = FALSE
      /\ session.start = 0 /\ session.last = 0
  BY DEF Init, NewSession, Session
<1>2. handler \in Handler /\ handler.started = FALSE
  BY DEF Init, Stopped, Handler
<1>3. stamp \in Stamp /\ stamp.id = 0 /\ said \in Said
  BY DEF Init, NoStamp, Stamp, Said
<1>4. QED
  BY <1>1, <1>2, <1>3 DEF Init, Core, TypeOK, Usable, AppStates, Live

(* A delegate to the background or the foreground, passed on or not.       *)
LEMMA DelegateFacts ==
  ASSUME Core,
         \/ Backgrounded
         \/ NotifyForegrounded
         \/ UNCHANGED <<session, stamp, said>>
  PROVE  /\ Usable(session') /\ session'.permitted = session.permitted
         /\ stamp' \in Stamp /\ Live(stamp')
         /\ said' \in Said /\ said'.installed = said.installed
<1> USE DEF Core
<1>1. CASE UNCHANGED <<session, stamp, said>>
  BY <1>1 DEF TypeOK
<1>2. ASSUME NEW s, Usable(s), s.permitted = session.permitted,
             NEW what \in {"opened", "backgrounded"}, PassOn(s, what)
      PROVE  /\ Usable(session') /\ session'.permitted = session.permitted
             /\ stamp' \in Stamp /\ Live(stamp')
             /\ said' \in Said /\ said'.installed = said.installed
  <2>1. /\ Usable(session') /\ SameSettings(s, session')
        /\ stamp' # stamp => stamp' \in Stamp /\ Live(stamp')
        /\ said' \in Said /\ said'.installed = said.installed
    BY <1>2, PassOnFacts
  <2>2. QED
    BY <1>2, <2>1 DEF TypeOK, SameSettings
<1>3. /\ Usable(OnBackground(session, now)) /\ Usable(OnForeground(session, now))
      /\ OnBackground(session, now).permitted = session.permitted
      /\ OnForeground(session, now).permitted = session.permitted
  BY ForegroundFacts DEF TypeOK
<1>4. QED
  BY <1>1, <1>2, <1>3 DEF Backgrounded, NotifyForegrounded

(* Each action keeps it.                                                   *)
LEMMA CoreStep == Core /\ [Next]_vars => Core'
<1> SUFFICES ASSUME Core, [Next]_vars PROVE Core'
  OBVIOUS
<1> USE DEF Core
<1>1. CASE Capture
  <2>1. /\ Usable(session') /\ session'.permitted = session.permitted
        /\ stamp' \in Stamp /\ Live(stamp')
    BY <1>1, CaptureFromFacts DEF Capture, TypeOK, SameSettings
  <2>2. QED
    BY <1>1, <2>1 DEF Capture, TypeOK, Usable
<1>2. CASE Reset
  <2>1. Usable(session') /\ session'.permitted = session.permitted
    BY <1>2, StartFacts DEF Reset, TypeOK, SameSettings
  <2>2. QED
    BY <1>2, <2>1 DEF Reset, TypeOK, Usable
<1>3. CASE ReadSession
  <2>1. Usable(session') /\ session'.permitted = session.permitted
    BY <1>3, ReadFacts DEF ReadSession, TypeOK, SameSettings
  <2>2. QED
    BY <1>3, <2>1 DEF ReadSession, TypeOK, Usable
<1>4. CASE OptIn
  <2> DEFINE s == SetCollectionPermitted(session, TRUE)
  <2>1. Usable(s) /\ s.permitted = TRUE
    BY DEF SetCollectionPermitted, Usable, Session
  <2> HIDE DEF s
  <2>2. /\ handler' \in Handler /\ collecting' = TRUE /\ UNCHANGED <<app, version, now>>
        /\ heard' \in BOOLEAN
    BY <1>4 DEF OptIn, Handler, TypeOK
  <2>3. CASE CheckVersionChanges(s)
    <3>1. PICK found \in LastSeenVersion :
            /\ SaveVersion
            /\ said' = [installed |-> IF found = 0 /\ said.installed < 2
                                      THEN said.installed + 1 ELSE said.installed,
                        last |-> "opened", repeated |-> FALSE]
            /\ stamp' = Stamped(s)
            /\ \E first, second \in BOOLEAN :
                 session' = Captured(IF found = version THEN s
                                     ELSE Captured(s, first), second)
      BY <2>3 DEF CheckVersionChanges, FirstLaunch
    <3>2. PICK first \in BOOLEAN, second \in BOOLEAN :
            session' = Captured(IF found = version THEN s
                                ELSE Captured(s, first), second)
      BY <3>1
    <3>3. Usable(Captured(s, first)) /\ SameSettings(s, Captured(s, first))
      BY <2>1, CapturedFacts DEF TypeOK
    <3>4. Usable(session') /\ session'.permitted = TRUE
      BY <2>1, <3>2, <3>3, CapturedFacts DEF TypeOK, SameSettings
    <3>5. stamp' \in Stamp /\ Live(stamp')
      BY <2>1, <3>1, StampFacts DEF TypeOK
    <3>6. said' \in Said
      BY <3>1 DEF Said, TypeOK
    <3>7. seen' \in Versions \cup {0} /\ reliable' \in BOOLEAN
      BY <2>3, <3>1 DEF CheckVersionChanges, SaveVersion, TypeOK
    <3>8. QED
      BY <2>2, <3>4, <3>5, <3>6, <3>7 DEF TypeOK, Usable
  <2>4. CASE session' = s /\ UNCHANGED <<seen, stamp, said, reliable>>
    BY <2>1, <2>2, <2>4 DEF TypeOK, Usable
  <2>5. QED
    BY <1>4, <2>3, <2>4 DEF OptIn, s
<1>5. CASE OptOut
  <2> DEFINE s == SetCollectionPermitted(session, FALSE)
  <2>1. s \in Session /\ s.permitted = FALSE
    BY DEF SetCollectionPermitted, Usable, Session
  <2> HIDE DEF s
  <2>2. session' = EndSession(s)
    BY <1>5 DEF OptOut, s
  <2>3. Usable(session') /\ session'.permitted = FALSE
    BY <2>1, <2>2, StartFacts DEF SameSettings
  <2>4. handler' \in Handler /\ handler'.started = FALSE /\ said' \in Said
    BY <1>5 DEF OptOut, Stopped, Handler, Said, TypeOK
  <2>5. QED
    BY <1>5, <2>3, <2>4 DEF OptOut, TypeOK, Usable
<1>6. CASE Delegate
  <2>1. /\ UNCHANGED <<collecting, version, seen, now, heard, reliable>> /\ app' \in AppStates
        /\ handler' \in Handler /\ (handler'.started => handler.started)
    <3>1. \/ handler' \in {handler, Stopped}
          \/ \E f \in BOOLEAN : handler' = [handler EXCEPT !.foreground = f]
      BY <1>6 DEF Delegate, WillDeactivate, WillEnterBackground, HasEnteredForeground,
           HasReactivated, WillTerminate, NotifyBackgrounded, NotifyForegrounded
    <3>2. ASSUME handler' \in {handler, Stopped}
          PROVE  handler' \in Handler /\ (handler'.started => handler.started)
      <4>1. Stopped \in Handler /\ Stopped.started = FALSE
        BY DEF Stopped, Handler
      <4>2. QED
        BY <3>2, <4>1 DEF TypeOK
    <3>3. ASSUME NEW f \in BOOLEAN, handler' = [handler EXCEPT !.foreground = f]
          PROVE  handler' \in Handler /\ (handler'.started => handler.started)
      BY <3>3 DEF Handler, TypeOK
    <3>4. UNCHANGED <<collecting, version, seen, now, heard, reliable>> /\ app' \in AppStates
      BY <1>6 DEF Delegate, WillDeactivate, WillEnterBackground, HasEnteredForeground,
           HasReactivated, WillTerminate, AppStates
    <3>5. QED
      BY <3>1, <3>2, <3>3, <3>4
  <2>2. /\ Usable(session') /\ session'.permitted = session.permitted
        /\ stamp' \in Stamp /\ Live(stamp') /\ said' \in Said
    BY <1>6, DelegateFacts DEF Delegate, WillDeactivate, WillEnterBackground,
         HasEnteredForeground, HasReactivated, WillTerminate, NotifyBackgrounded
  <2>3. QED
    BY <2>1, <2>2 DEF TypeOK, Usable
<1>7. CASE Restart
  <2>1. /\ session' \in Session /\ session'.id = 0 /\ session'.permitted = FALSE
        /\ session'.start = 0 /\ session'.last = 0
    BY <1>7 DEF Restart, NewSession, Session
  <2>2. handler' \in Handler /\ handler'.started = FALSE /\ said' \in Said
    BY <1>7 DEF Restart, Stopped, Handler, Said, TypeOK
  <2>3. stamp' \in Stamp /\ stamp'.id = 0
    BY <1>7 DEF Restart, NoStamp, Stamp
  <2>4. QED
    BY <1>7, <2>1, <2>2, <2>3 DEF Restart, TypeOK, Usable, AppStates, Live
<1>8. CASE Tick \/ ClockSetBack
  BY <1>8 DEF Tick, ClockSetBack, TypeOK
<1>9. CASE UNCHANGED vars
  BY <1>9 DEF vars, TypeOK
<1>10. QED
  BY <1>1, <1>2, <1>3, <1>4, <1>5, <1>6, <1>7, <1>8, <1>9 DEF Next

(* Every variable keeps its type.                                          *)
THEOREM LifecycleTypes == Spec => []TypeOK
<1>1. Core => TypeOK
  BY DEF Core
<1>2. QED
  BY <1>1, CoreInit, CoreStep, PTL DEF Spec

(* No session exists without consent: none survives an opt-out, and no     *)
(* read, reset or return to the foreground starts one without it.          *)
THEOREM SessionNeedsConsent == Spec => []NoSessionWithoutConsent
<1>1. Core => NoSessionWithoutConsent
  BY DEF Core, Usable, NoSessionWithoutConsent
<1>2. QED
  BY <1>1, CoreInit, CoreStep, PTL DEF Spec

(* No event carries a session older than the maximum length, for any       *)
(* limits and any movement of the clock.                                   *)
THEOREM SessionsAreLive == Spec => []EventsInLiveSession
<1>1. Core => EventsInLiveSession
  BY DEF Core, Live, EventsInLiveSession
<1>2. QED
  BY <1>1, CoreInit, CoreStep, PTL DEF Spec

-----------------------------------------------------------------------------
(* If consent changes only while the application is active, the handler    *)
(* and the session manager agree on whether it is in the foreground.       *)

InSync ==
  /\ handler.started => handler.foreground = session.foreground
  /\ handler.started => app # "terminating"
  /\ handler.started /\ app = "active" => handler.foreground
  /\ ~handler.started /\ app # "terminating" => session.foreground
  /\ SessionWheneverActive

Synced == heard => InSync

(* They agree initially.                                                   *)
LEMMA SyncedInit == Init => InSync
BY DEF Init, NoStamp, InSync, NewSession, Stopped, SessionWheneverActive

(* An action that moves neither the application nor the handler and keeps  *)
(* the settings of the session.                                            *)
LEMMA SyncedStays ==
  ASSUME Core, InSync, UNCHANGED <<handler, app>>, SameSettings(session, session'),
         SessionWheneverActive'
  PROVE  InSync'
BY DEF InSync, SameSettings

(* Each action keeps them in agreement.                                    *)
LEMMA SyncedStep ==
  ASSUME heard', Core, InSync, [Next]_vars
  PROVE  InSync'
<1> USE DEF Core
<1> now \in Nat /\ session \in Session /\ handler \in Handler
  BY DEF TypeOK
<1>1. CASE Capture
  <2>1. /\ SameSettings(session, session') /\ UNCHANGED <<handler, app>>
        /\ session.permitted /\ session.foreground => stamp'.id # 0
        /\ stamp' = Stamped(session)
    BY <1>1, CaptureFromFacts DEF Capture, CaptureFrom
  <2>2. app = "active" => session.permitted /\ session.foreground
    BY <1>1 DEF Capture, InSync
  <2>3. stamp'.active => app = "active"
    BY <2>1 DEF Stamped
  <2>4. QED
    BY <2>1, <2>2, <2>3, SyncedStays DEF SessionWheneverActive
<1>2. CASE Reset
  <2>1. /\ SameSettings(session, session') /\ UNCHANGED <<handler, app, stamp>>
    BY <1>2, StartFacts DEF Reset
  <2>2. QED
    BY <2>1, SyncedStays DEF SessionWheneverActive, InSync
<1>3. CASE ReadSession
  <2>1. /\ SameSettings(session, session') /\ UNCHANGED <<handler, app, stamp>>
    BY <1>3, ReadFacts DEF ReadSession
  <2>2. QED
    BY <2>1, SyncedStays DEF SessionWheneverActive, InSync
<1>4. CASE OptIn
  <2> DEFINE s == SetCollectionPermitted(session, TRUE)
  <2>1. app = "active" /\ UNCHANGED app
    BY <1>4 DEF OptIn
  <2>2. session.foreground
    BY <1>4, <2>1 DEF OptIn, InSync
  <2>3. Usable(s) /\ s.permitted = TRUE /\ s.foreground = session.foreground
    BY DEF SetCollectionPermitted, Usable, Session
  <2> HIDE DEF s
  <2>4. handler'.started = TRUE /\ handler'.foreground = TRUE
    BY <1>4 DEF OptIn
  <2>5. CASE CheckVersionChanges(s)
    <3>1. PICK found \in LastSeenVersion, first \in BOOLEAN, second \in BOOLEAN :
            /\ stamp' = Stamped(s)
            /\ session' = Captured(IF found = version THEN s
                                   ELSE Captured(s, first), second)
      BY <2>5 DEF CheckVersionChanges
    <3>2. Usable(Captured(s, first)) /\ SameSettings(s, Captured(s, first))
      BY <2>3, CapturedFacts
    <3>3. SameSettings(s, session')
      BY <2>3, <3>1, <3>2, CapturedFacts DEF SameSettings
    <3>4. stamp'.id # 0
      BY <2>2, <2>3, <3>1, StampFacts
    <3>5. QED
      BY <2>1, <2>2, <2>3, <2>4, <3>3, <3>4
         DEF InSync, SameSettings, SessionWheneverActive, Session
  <2>6. CASE session' = s /\ UNCHANGED <<seen, stamp, said, reliable>>
    BY <2>1, <2>2, <2>3, <2>4, <2>6 DEF InSync, SessionWheneverActive, Session
  <2>7. QED
    BY <1>4, <2>5, <2>6 DEF OptIn, s
<1>5. CASE OptOut
  <2>1. app = "active" /\ UNCHANGED <<app, stamp>> /\ handler' = Stopped
    BY <1>5 DEF OptOut
  <2>2. session.foreground
    BY <2>1 DEF InSync, Session
  <2>3. session'.foreground = session.foreground
    BY <1>5 DEF OptOut, SetCollectionPermitted, EndSession, WithSession, Session
  <2>4. QED
    BY <2>1, <2>2, <2>3 DEF InSync, SessionWheneverActive, Stopped
<1>6. CASE WillDeactivate \/ WillEnterBackground
  <2>1. /\ app # "terminating" /\ app' \in {"inactive", "background"}
        /\ Backgrounded
        /\ handler' = IF handler.started THEN [handler EXCEPT !.foreground = FALSE]
                      ELSE handler
    BY <1>6 DEF WillDeactivate, WillEnterBackground, NotifyBackgrounded
  <2>2. CASE handler.started /\ handler.foreground
    <3>1. PassOn(OnBackground(session, now), "backgrounded")
      BY <2>1, <2>2 DEF Backgrounded
    <3>2. /\ Usable(OnBackground(session, now))
          /\ OnBackground(session, now).foreground = FALSE
      BY ForegroundFacts
    <3>3. /\ SameSettings(OnBackground(session, now), session')
          /\ stamp' # stamp => (stamp'.active => app' = "active")
      BY <3>1, <3>2, PassOnFacts
    <3>4. session'.foreground = FALSE
      BY <3>2, <3>3 DEF SameSettings
    <3>5. handler'.started = handler.started /\ handler'.foreground = FALSE
      BY <2>1, <2>2 DEF Handler
    <3>6. SessionWheneverActive'
      BY <2>1, <3>3 DEF InSync, SessionWheneverActive
    <3>7. QED
      BY <2>1, <2>2, <3>4, <3>5, <3>6 DEF InSync
  <2>3. CASE handler.started /\ ~handler.foreground
    <3>1. UNCHANGED <<session, stamp>>
      BY <2>1, <2>3 DEF Backgrounded
    <3>2. handler' = handler
      BY <2>1, <2>3 DEF Handler
    <3>3. QED
      BY <2>1, <2>3, <3>1, <3>2 DEF InSync, SessionWheneverActive
  <2>4. CASE ~handler.started
    BY <2>1, <2>4 DEF Backgrounded, InSync, SessionWheneverActive
  <2>5. QED
    BY <2>2, <2>3, <2>4
<1>7. CASE HasEnteredForeground \/ HasReactivated
  <2>1. /\ app # "terminating" /\ app' \in {"inactive", "active"}
        /\ NotifyForegrounded
        /\ handler' = [handler EXCEPT !.foreground = TRUE]
    BY <1>7 DEF HasEnteredForeground, HasReactivated, NotifyForegrounded
  <2>2. handler'.started = handler.started /\ handler'.foreground = TRUE
    BY <2>1 DEF Handler
  <2>3. CASE handler.started /\ ~handler.foreground
    <3>1. PassOn(OnForeground(session, now), "opened")
      BY <2>1, <2>3 DEF NotifyForegrounded
    <3>2. OnForeground(session, now).permitted = TRUE
      BY <2>3, ForegroundFacts DEF TypeOK
    <3>3. /\ session'.foreground = TRUE
          /\ stamp' = stamp \/ stamp'.id # 0
      BY <3>1, <3>2, PassOnFacts, ForegroundFacts DEF SameSettings
    <3>4. QED
      BY <2>1, <2>2, <2>3, <3>3 DEF InSync, SessionWheneverActive
  <2>4. CASE ~(handler.started /\ ~handler.foreground)
    <3>1. UNCHANGED <<session, stamp>>
      BY <2>1, <2>4 DEF NotifyForegrounded
    <3>2. session.foreground = TRUE
      BY <2>1, <2>4 DEF InSync, Session
    <3>3. QED
      BY <2>1, <2>2, <3>1, <3>2 DEF InSync, SessionWheneverActive
  <2>5. QED
    BY <2>3, <2>4
<1>8. CASE WillTerminate
  <2>1. app' = "terminating" /\ handler' = Stopped
    BY <1>8 DEF WillTerminate
  <2>2. stamp' = stamp \/ ~stamp'.active
    <3>1. CASE UNCHANGED <<session, stamp, said>>
      BY <3>1
    <3>2. CASE PassOn(OnBackground(session, now), "backgrounded")
      BY <2>1, <3>2, PassOnFacts, ForegroundFacts
    <3>3. QED
      BY <1>8, <3>1, <3>2 DEF WillTerminate, Backgrounded
  <2>3. QED
    BY <2>1, <2>2 DEF InSync, SessionWheneverActive, Stopped
<1>9. CASE Restart
  BY <1>9 DEF Restart, NoStamp, InSync, NewSession, Stopped, SessionWheneverActive
<1>10. CASE Tick \/ ClockSetBack \/ UNCHANGED vars
  BY <1>10 DEF Tick, ClockSetBack, vars, InSync, SessionWheneverActive
<1>11. QED
  BY <1>1, <1>2, <1>3, <1>4, <1>5, <1>6, <1>7, <1>8, <1>9, <1>10 DEF Next, Delegate

(* A restart brings them into agreement, whatever was before; no other     *)
(* action makes up for a change of consent that went unheard.              *)
LEMMA HeardStep ==
  ASSUME Core, Synced, [Next]_vars
  PROVE  Synced'
<1> SUFFICES ASSUME heard' PROVE InSync'
  BY DEF Synced
<1>1. CASE Restart
  BY <1>1 DEF Restart, NoStamp, InSync, NewSession, Stopped, SessionWheneverActive
<1>2. CASE ~Restart
  <2>1. heard
    BY <1>2 DEF Next, Capture, Reset, ReadSession, OptIn, OptOut, Delegate, WillDeactivate,
         WillEnterBackground, HasEnteredForeground, HasReactivated, WillTerminate, Tick,
         ClockSetBack, vars
  <2>2. QED
    BY <2>1, SyncedStep DEF Synced
<1>3. QED
  BY <1>1, <1>2

(* While consent changes only in an active application, every event        *)
(* captured while it is active carries a session.                          *)
THEOREM ActiveEvents == Spec => []ActiveEventsHaveSession
<1>1. Init => Synced
  BY SyncedInit DEF Synced
<1>2. Core /\ Synced /\ [Next]_vars => Synced'
  BY HeardStep
<1>3. Synced => ActiveEventsHaveSession
  BY DEF Synced, InSync, SessionWheneverActive, ActiveEventsHaveSession
<1>4. QED
  BY <1>1, <1>2, <1>3, CoreInit, CoreStep, PTL DEF Spec

(* What an action may do to an expired session.                            *)
Reviving ==
  heard /\ HasExpired(session, now) /\ session'.id = session.id
    => session' = session \/ (session.foreground /\ ~session'.foreground)

(* Each action obeys it.                                                   *)
LEMMA RevivingStep ==
  ASSUME Core, Synced, Next
  PROVE  Reviving
<1> SUFFICES ASSUME HasExpired(session, now), InSync
             PROVE  \/ session'.id # session.id \/ session' = session
                    \/ session.foreground /\ ~session'.foreground
  BY DEF Reviving, Synced
<1> USE DEF Core
<1>0. /\ now \in Nat /\ session \in Session /\ session.id # 0
      /\ session.permitted = TRUE /\ collecting
  BY DEF TypeOK, HasExpired, Usable, Session
<1>1. CASE Capture
  BY <1>0, <1>1, CaptureFromFacts DEF Capture
<1>2. CASE Reset
  BY <1>0, <1>2, StartFacts DEF Reset
<1>3. CASE ReadSession
  BY <1>0, <1>3, ReadFacts DEF ReadSession
<1>4. CASE OptIn
  BY <1>0, <1>4 DEF OptIn
<1>5. CASE OptOut
  BY <1>0, <1>5 DEF OptOut, EndSession, WithSession
<1>6. CASE WillDeactivate \/ WillEnterBackground \/ WillTerminate
  <2>1. CASE UNCHANGED session
    BY <2>1
  <2>2. CASE /\ handler.started /\ handler.foreground
             /\ PassOn(OnBackground(session, now), "backgrounded")
    <3>1. /\ Usable(OnBackground(session, now))
          /\ OnBackground(session, now).foreground = FALSE
      BY <1>0, ForegroundFacts
    <3>2. SameSettings(OnBackground(session, now), session')
      BY <2>2, <3>1, PassOnFacts
    <3>3. session.foreground /\ session'.foreground = FALSE
      BY <2>2, <3>1, <3>2 DEF InSync, SameSettings
    <3>4. QED
      BY <3>3
  <2>3. QED
    BY <1>6, <2>1, <2>2
       DEF WillDeactivate, WillEnterBackground, WillTerminate, NotifyBackgrounded, Backgrounded
<1>7. CASE HasEnteredForeground \/ HasReactivated
  <2>1. CASE UNCHANGED session
    BY <2>1
  <2>2. CASE PassOn(OnForeground(session, now), "opened")
    <3>1. /\ Usable(OnForeground(session, now))
          /\ OnForeground(session, now).id \notin {0, session.id}
          /\ ~HasExpired(OnForeground(session, now), now)
      BY <1>0, ForegroundFacts
    <3>2. session'.id = OnForeground(session, now).id
      BY <2>2, <3>1, PassOnFacts
    <3>3. QED
      BY <3>1, <3>2
  <2>3. QED
    BY <1>7, <2>1, <2>2 DEF HasEnteredForeground, HasReactivated, NotifyForegrounded
<1>8. CASE Restart
  BY <1>0, <1>8 DEF Restart, NewSession
<1>9. CASE Tick \/ ClockSetBack
  BY <1>9 DEF Tick, ClockSetBack
<1>10. QED
  BY <1>1, <1>2, <1>3, <1>4, <1>5, <1>6, <1>7, <1>8, <1>9 DEF Next, Delegate

(* An expired session goes on only when the application leaves the         *)
(* foreground.                                                             *)
THEOREM ExpiredSessions == Spec => RevivedOnlyOnBackground
<1>0. Init => Synced
  BY SyncedInit DEF Synced
<1>1. Core /\ Synced /\ [Next]_vars => [Reviving]_vars
  BY RevivingStep
<1>2. Core /\ Synced /\ [Next]_vars => Synced'
  BY HeardStep
<1>3. QED
  BY <1>0, <1>1, <1>2, CoreInit, CoreStep, PTL
     DEF Spec, RevivedOnlyOnBackground, Reviving

-----------------------------------------------------------------------------
(* Installed is captured once if the lifecycle state is reliable: what has *)
(* been captured has been saved.                                           *)

Installed == reliable => said.installed <= 1 /\ (seen = 0 => said.installed = 0)

(* Each action keeps what was captured in line with what was saved.        *)
LEMMA InstalledStep ==
  ASSUME Core, Installed, [Next]_vars
  PROVE  Installed'
<1> USE DEF Core
<1>1. CASE OptIn
  <2>1. CASE UNCHANGED <<seen, said, reliable>>
    BY <2>1 DEF Installed
  <2>2. CASE CheckVersionChanges(SetCollectionPermitted(session, TRUE))
    <3>1. PICK found \in LastSeenVersion :
            /\ reliable' = (reliable /\ found = seen /\ seen' = version)
            /\ said' = [installed |-> IF found = 0 /\ said.installed < 2
                                      THEN said.installed + 1 ELSE said.installed,
                        last |-> "opened", repeated |-> FALSE]
      BY <2>2 DEF CheckVersionChanges, FirstLaunch
    <3>2. CASE reliable /\ found = seen /\ seen' = version
      <4>1. said'.installed = IF seen = 0 /\ said.installed < 2
                              THEN said.installed + 1 ELSE said.installed
        BY <3>1, <3>2
      <4>2. QED
        BY <3>2, <4>1 DEF Installed, TypeOK, Said
    <3>3. QED
      BY <3>1, <3>2 DEF Installed
  <2>3. QED
    BY <1>1, <2>1, <2>2 DEF OptIn
<1>2. CASE Delegate
  <2>1. said'.installed = said.installed /\ UNCHANGED <<seen, reliable>>
    BY <1>2, DelegateFacts DEF Delegate, WillDeactivate, WillEnterBackground,
       HasEnteredForeground, HasReactivated, WillTerminate, NotifyBackgrounded
  <2>2. QED
    BY <2>1 DEF Installed
<1>3. CASE OptOut \/ Restart
  <2>1. /\ said' = [installed |-> said.installed, last |-> "nothing", repeated |-> FALSE]
        /\ UNCHANGED <<seen, reliable>>
    BY <1>3 DEF OptOut, Restart
  <2>2. QED
    BY <2>1 DEF Installed
<1>4. CASE Capture \/ Reset \/ ReadSession \/ Tick \/ ClockSetBack \/ UNCHANGED vars
  <2>1. UNCHANGED <<said, seen, reliable>>
    BY <1>4 DEF Capture, Reset, ReadSession, Tick, ClockSetBack, vars
  <2>2. QED
    BY <2>1 DEF Installed
<1>5. QED
  BY <1>1, <1>2, <1>3, <1>4 DEF Next

(* Installed is captured at most once per installation.                    *)
THEOREM InstalledAtMostOnce == Spec => []InstalledOnce
<1>1. Init => Installed
  BY DEF Init, Installed
<1>2. Core /\ Installed /\ [Next]_vars => Installed'
  BY InstalledStep
<1>3. Installed => InstalledOnce
  BY DEF Installed, InstalledOnce
<1>4. QED
  BY <1>1, <1>2, <1>3, CoreInit, CoreStep, PTL DEF Spec

-----------------------------------------------------------------------------
(* Opened and Backgrounded alternate: the last one captured is that of the *)
(* handler's own view of the foreground, which every delegate is measured  *)
(* against.                                                                *)

Alternating ==
  /\ said.repeated = FALSE
  /\ handler.started /\ handler.captures =>
       said.last = IF handler.foreground THEN "opened" ELSE "backgrounded"

(* What is passed on is the other event than the last one.                 *)
LEMMA SaidFacts ==
  ASSUME NEW s, NEW what, PassOn(s, what), said.repeated = FALSE,
         handler.captures => said.last # what
  PROVE  /\ said'.repeated = FALSE
         /\ handler.captures => said'.last = what
<1>1. CASE handler.captures
  <2>1. said' = Saying(what)
    BY <1>1 DEF PassOn
  <2>2. Saying(what).last = what
    BY DEF Saying
  <2>3. (said.repeated \/ said.last = what) = FALSE
    BY <1>1
  <2>4. Saying(what).repeated = FALSE
    BY <2>3 DEF Saying
  <2>5. QED
    BY <2>1, <2>2, <2>4
<1>2. CASE ~handler.captures
  BY <1>2 DEF PassOn
<1>3. QED
  BY <1>1, <1>2

(* Each action keeps the events in line with the handler's foreground.     *)
LEMMA AlternatingStep ==
  ASSUME Core, Alternating, [Next]_vars
  PROVE  Alternating'
<1>0. handler \in Handler
  BY DEF Core, TypeOK
<1>1. CASE OptIn
  <2>1. /\ handler'.started = TRUE /\ handler'.foreground = TRUE
        /\ \/ ~handler'.captures /\ said' = said
           \/ CheckVersionChanges(SetCollectionPermitted(session, TRUE))
    <3>1. PICK captures \in LifecycleEvents :
            /\ handler' = [started |-> TRUE, captures |-> captures,
                           foreground |-> TRUE]
            /\ IF captures
               THEN CheckVersionChanges(SetCollectionPermitted(session, TRUE))
               ELSE UNCHANGED said
      BY <1>1 DEF OptIn
    <3>2. QED
      BY <3>1
  <2>2. CASE CheckVersionChanges(SetCollectionPermitted(session, TRUE))
    <3>1. said'.last = "opened" /\ said'.repeated = FALSE
      BY <2>2 DEF CheckVersionChanges
    <3>2. QED
      BY <2>1, <3>1 DEF Alternating
  <2>3. QED
    BY <2>1, <2>2 DEF Alternating
<1>2. CASE WillDeactivate \/ WillEnterBackground \/ WillTerminate
  <2>1. /\ \/ UNCHANGED said /\ (~handler.started \/ ~handler.foreground)
           \/ UNCHANGED said /\ handler' = Stopped
           \/ /\ handler.started /\ handler.foreground
              /\ PassOn(OnBackground(session, now), "backgrounded")
        /\ \/ handler' = Stopped
           \/ handler' = IF handler.started
                         THEN [handler EXCEPT !.foreground = FALSE] ELSE handler
    BY <1>2 DEF WillDeactivate, WillEnterBackground, WillTerminate,
       NotifyBackgrounded, Backgrounded
  <2>2. CASE /\ handler.started /\ handler.foreground
             /\ PassOn(OnBackground(session, now), "backgrounded")
    <3>1. said'.repeated = FALSE
          /\ (handler.captures => said'.last = "backgrounded")
      BY <2>2, SaidFacts DEF Alternating
    <3>2. QED
      BY <1>0, <2>1, <2>2, <3>1 DEF Alternating, Handler, Stopped
  <2>3. CASE UNCHANGED said /\ handler' = Stopped
    BY <2>3 DEF Alternating, Stopped
  <2>4. CASE /\ UNCHANGED said /\ (~handler.started \/ ~handler.foreground)
             /\ handler' = IF handler.started
                           THEN [handler EXCEPT !.foreground = FALSE] ELSE handler
    <3>1. CASE ~handler.started
      BY <2>4, <3>1 DEF Alternating
    <3>2. CASE handler.started /\ ~handler.foreground
      <4>1. /\ handler'.captures = handler.captures
            /\ handler'.foreground = FALSE
        BY <1>0, <2>4, <3>2 DEF Handler
      <4>2. QED
        BY <2>4, <3>2, <4>1 DEF Alternating
    <3>3. QED
      BY <2>4, <3>1, <3>2
  <2>5. QED
    BY <2>1, <2>2, <2>3, <2>4
<1>3. CASE HasEnteredForeground \/ HasReactivated
  <2>1. /\ handler' = [handler EXCEPT !.foreground = TRUE]
        /\ IF handler.started /\ ~handler.foreground
           THEN PassOn(OnForeground(session, now), "opened")
           ELSE UNCHANGED said
    BY <1>3 DEF HasEnteredForeground, HasReactivated, NotifyForegrounded
  <2>2. CASE handler.started /\ ~handler.foreground
    <3>1. said'.repeated = FALSE /\ (handler.captures => said'.last = "opened")
      BY <2>1, <2>2, SaidFacts DEF Alternating
    <3>2. QED
      BY <1>0, <2>1, <3>1 DEF Alternating, Handler
  <2>3. CASE ~(handler.started /\ ~handler.foreground)
    BY <1>0, <2>1, <2>3 DEF Alternating, Handler
  <2>4. QED
    BY <2>2, <2>3
<1>4. CASE OptOut \/ Restart
  <2>1. handler' = Stopped
    BY <1>4 DEF OptOut, Restart
  <2>2. said'.repeated = FALSE
    <3>1. said' = [installed |-> said.installed, last |-> "nothing", repeated |-> FALSE]
      BY <1>4 DEF OptOut, Restart
    <3>2. QED
      BY ONLY <3>1
  <2>3. QED
    BY <2>1, <2>2 DEF Alternating, Stopped
<1>5. CASE Capture \/ Reset \/ ReadSession \/ Tick \/ ClockSetBack \/ UNCHANGED vars
  <2>1. UNCHANGED <<said, handler>>
    BY <1>5 DEF Capture, Reset, ReadSession, Tick, ClockSetBack, vars
  <2>2. QED
    BY <2>1 DEF Alternating
<1>6. QED
  BY <1>1, <1>2, <1>3, <1>4, <1>5 DEF Next, Delegate

(* Delegates that report one transition twice, in any order, do not repeat *)
(* an event (NotifyApplicationForegrounded, NotifyApplicationBackgrounded).*)
THEOREM EventsAlternate == Spec => []NoRepeatedLifecycleEvents
<1>1. Init => Alternating
  BY DEF Init, Alternating, Stopped
<1>2. Core /\ Alternating /\ [Next]_vars => Alternating'
  BY AlternatingStep
<1>3. Alternating => NoRepeatedLifecycleEvents
  BY DEF Alternating, NoRepeatedLifecycleEvents
<1>4. QED
  BY <1>1, <1>2, <1>3, CoreInit, CoreStep, PTL DEF Spec

=============================================================================
