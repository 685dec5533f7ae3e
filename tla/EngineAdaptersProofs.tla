------------------------ MODULE EngineAdaptersProofs ------------------------
(***************************************************************************)
(* Proofs about the two adapters on delegates of the engine: for every     *)
(* debounce interval, every length of the run and every depth of nesting   *)
(* of the exception capture, for any set of requests of the HTTP client    *)
(* and however often the engine calls a delegate.  Each adapter is proved  *)
(* alone; neither disturbs the other, so the theorems hold of both         *)
(* together.                                                               *)
(***************************************************************************)
EXTENDS EngineAdapters, TLAPS

-----------------------------------------------------------------------------
(* The exception capture.  The flag, the time and the binding are three    *)
(* copies of what the stack, the history and the settings say; the         *)
(* inductive invariant says that the copies agree, part by part.           *)

At(frames, frame) == {i \in 1..Len(frames) : frames[i] = frame}

Choices == At(stack, "choice")

AtMostOne(frames, frame) == \A i, j \in At(frames, frame) : i = j

(* The flag is up exactly while a report runs.                             *)
FlagFollowsStack == handlers.capturing = TRUE <=> Reports # {}

(* The handler's time is that of the last ensure handed on.                *)
TimeFollowsHistory ==
  /\ handedOn <= now
  /\ handlers.live => handlers.last = handedOn

(* What was in force when the handlers were bound still is.                *)
BoundAsSet ==
  handlers.bound =>
    handlers.debounce = settings.interval /\ settings.capture /\ settings.here

(* The binding is in doubt only while a choice of consent is under way.    *)
BoundUnlessChoosing ==
  handlers.live /\ Choices = {} =>
    (handlers.bound <=> settings.capture /\ settings.here /\ optedIn)

(* Without an object there are no calls.                                   *)
CallsNeedObject == handlers.live \/ Idle

ExceptionInv ==
  /\ TypeOK
  /\ FlagFollowsStack
  /\ NoReportWithinReport
  /\ TimeFollowsHistory
  /\ BoundAsSet
  /\ BoundUnlessChoosing
  /\ CallsNeedObject

-----------------------------------------------------------------------------
(* The stack: what is added and what is taken off at its front.            *)

(* A call put in front of the others moves them back by one.               *)
LEMMA Pushed ==
  ASSUME NEW frames \in Seq(Frames), NEW frame \in Frames
  PROVE  /\ <<frame>> \o frames \in Seq(Frames)
         /\ Len(<<frame>> \o frames) = Len(frames) + 1
         /\ (<<frame>> \o frames)[1] = frame
         /\ \A i \in 1..Len(frames) : (<<frame>> \o frames)[i + 1] = frames[i]
OBVIOUS

(* The call in front taken off moves the others up.                        *)
LEMMA Popped ==
  ASSUME NEW frames \in Seq(Frames), frames # <<>>
  PROVE  /\ Tail(frames) \in Seq(Frames)
         /\ Len(frames) = Len(Tail(frames)) + 1
         /\ frames[1] = Head(frames)
         /\ \A i \in 1..Len(Tail(frames)) : frames[i + 1] = Tail(frames)[i]
OBVIOUS

(* A frame is among the calls if it is in front or among the rest.         *)
LEMMA AtFrontOrRest ==
  ASSUME NEW frames \in Seq(Frames), NEW rest \in Seq(Frames),
         NEW frame \in Frames,
         Len(frames) = Len(rest) + 1,
         \A i \in 1..Len(rest) : frames[i + 1] = rest[i]
  PROVE  /\ At(frames, frame) = {} <=> frames[1] # frame /\ At(rest, frame) = {}
         /\ AtMostOne(frames, frame) =>
              /\ AtMostOne(rest, frame)
              /\ frames[1] = frame => At(rest, frame) = {}
         /\ frames[1] # frame /\ AtMostOne(rest, frame) => AtMostOne(frames, frame)
         /\ At(rest, frame) = {} => AtMostOne(frames, frame)
<1>1. \A i \in 1..Len(frames) : i = 1 \/ (i - 1 \in 1..Len(rest) /\ i = (i - 1) + 1)
  OBVIOUS
<1>2. 1 \in 1..Len(frames)
  OBVIOUS
<1>3. \A i \in 1..Len(rest) : i + 1 \in 1..Len(frames) /\ i + 1 # 1
  OBVIOUS
<1>4. \A i \in 1..Len(frames) :
        i \in At(frames, frame) =>
          (i = 1 /\ frames[1] = frame) \/ i - 1 \in At(rest, frame)
  BY <1>1 DEF At
<1>5. \A i \in At(rest, frame) : i + 1 \in At(frames, frame) /\ i + 1 # 1
  BY <1>3 DEF At
<1>6. frames[1] = frame <=> 1 \in At(frames, frame)
  BY <1>2 DEF At
<1>7. At(frames, frame) \subseteq 1..Len(frames) /\ At(rest, frame) \subseteq Nat
  BY DEF At
<1>8. At(frames, frame) = {} <=> frames[1] # frame /\ At(rest, frame) = {}
  BY <1>4, <1>5, <1>6, <1>7
<1>9. ASSUME AtMostOne(frames, frame)
      PROVE  /\ AtMostOne(rest, frame)
             /\ frames[1] = frame => At(rest, frame) = {}
  <2>1. \A i, j \in At(rest, frame) : i + 1 = j + 1
    BY <1>5, <1>9 DEF AtMostOne
  <2>2. \A i, j \in At(rest, frame) : i = j
    BY <2>1, <1>7
  <2>3. frames[1] = frame => \A i \in At(rest, frame) : i + 1 = 1
    BY <1>5, <1>6, <1>9 DEF AtMostOne
  <2>. QED BY <2>2, <2>3, <1>5 DEF AtMostOne
<1>10. ASSUME frames[1] # frame, AtMostOne(rest, frame)
       PROVE  AtMostOne(frames, frame)
  <2>1. \A i \in At(frames, frame) : i - 1 \in At(rest, frame)
    BY <1>4, <1>7, <1>10
  <2>2. \A i, j \in At(frames, frame) : i - 1 = j - 1
    BY <2>1, <1>10 DEF AtMostOne
  <2>3. \A i, j \in At(frames, frame) : i = j
    BY <2>2, <1>7
  <2>. QED BY <2>3 DEF AtMostOne
<1>11. ASSUME At(rest, frame) = {}
       PROVE  AtMostOne(frames, frame)
  BY <1>4, <1>7, <1>11 DEF AtMostOne
<1>. QED BY <1>8, <1>9, <1>10, <1>11

(* What a new call does to the frames of the stack.                        *)
LEMMA PushFrame ==
  ASSUME NEW frames \in Seq(Frames), NEW pushed \in Frames, NEW frame \in Frames
  PROVE  LET new == <<pushed>> \o frames IN
         /\ At(new, frame) = {} <=> pushed # frame /\ At(frames, frame) = {}
         /\ pushed # frame /\ AtMostOne(frames, frame) => AtMostOne(new, frame)
         /\ At(frames, frame) = {} => AtMostOne(new, frame)
<1>. DEFINE new == <<pushed>> \o frames
<1>1. /\ new \in Seq(Frames) /\ Len(new) = Len(frames) + 1 /\ new[1] = pushed
      /\ \A i \in 1..Len(frames) : new[i + 1] = frames[i]
  BY Pushed
<1>. HIDE DEF new
<1>2. /\ At(new, frame) = {} <=> pushed # frame /\ At(frames, frame) = {}
      /\ pushed # frame /\ AtMostOne(frames, frame) => AtMostOne(new, frame)
      /\ At(frames, frame) = {} => AtMostOne(new, frame)
  BY <1>1, AtFrontOrRest
<1>. QED BY <1>2 DEF new

(* What a return does to them.                                             *)
LEMMA PopFrame ==
  ASSUME NEW frames \in Seq(Frames), frames # <<>>, NEW frame \in Frames
  PROVE  /\ At(frames, frame) = {}
              <=> Head(frames) # frame /\ At(Tail(frames), frame) = {}
         /\ AtMostOne(frames, frame) =>
              /\ AtMostOne(Tail(frames), frame)
              /\ Head(frames) = frame => At(Tail(frames), frame) = {}
<1>. DEFINE rest == Tail(frames)
<1>1. /\ rest \in Seq(Frames) /\ Len(frames) = Len(rest) + 1
      /\ frames[1] = Head(frames)
      /\ \A i \in 1..Len(rest) : frames[i + 1] = rest[i]
  BY Popped
<1>. HIDE DEF rest
<1>2. /\ At(frames, frame) = {} <=> Head(frames) # frame /\ At(rest, frame) = {}
      /\ AtMostOne(frames, frame) =>
           /\ AtMostOne(rest, frame)
           /\ Head(frames) = frame => At(rest, frame) = {}
  BY <1>1, AtFrontOrRest
<1>. QED BY <1>2 DEF rest

-----------------------------------------------------------------------------
(* The inductive invariant, one step per action.                           *)

(* What the registration calls leave of an object, its binding aside.      *)
LEMMA RegistrationTypes ==
  ASSUME TypeOK, NEW h \in Handlers, NEW consent \in BOOLEAN,
         NEW new, new = UpdateExceptionCaptureRegistration(h, consent)
  PROVE  /\ new \in Handlers
         /\ new.live = h.live /\ new.capturing = h.capturing /\ new.last = h.last
         /\ new.bound => h.bound \/ (h.live /\ settings.here)
         /\ new.bound /\ h.live => settings.capture /\ consent
         /\ h.live /\ settings.capture /\ consent =>
              (h.bound \/ settings.here => new.bound)
         /\ h.bound => new.debounce = h.debounce
         /\ ~h.bound /\ new.bound => new.debounce = settings.interval
<1>1. settings.interval \in 0..MaxInterval
  BY IntervalAssumption DEF TypeOK, Settings
<1>2. CASE ~h.live
  BY <1>2 DEF UpdateExceptionCaptureRegistration
<1>3. CASE h.live /\ settings.capture /\ consent /\ (h.bound \/ ~settings.here)
  <2>1. new = h
    BY <1>3 DEF UpdateExceptionCaptureRegistration, RegisterHandlers
  <2>. QED BY <2>1, <1>3
<1>4. CASE h.live /\ settings.capture /\ consent /\ ~h.bound /\ settings.here
  <2>1. new = [h EXCEPT !.bound = TRUE, !.debounce = settings.interval]
    BY <1>4 DEF UpdateExceptionCaptureRegistration, RegisterHandlers
  <2>2. new = [live |-> h.live, bound |-> TRUE, capturing |-> h.capturing,
               debounce |-> settings.interval, last |-> h.last]
    BY <2>1 DEF Handlers
  <2>3. new \in Handlers
    BY <2>2, <1>1 DEF Handlers
  <2>. QED BY <2>2, <2>3, <1>4
<1>5. CASE h.live /\ ~(settings.capture /\ consent)
  <2>1. new = [h EXCEPT !.bound = FALSE]
    BY <1>5 DEF UpdateExceptionCaptureRegistration, UnregisterHandlers
  <2>2. new = [live |-> h.live, bound |-> FALSE, capturing |-> h.capturing,
               debounce |-> h.debounce, last |-> h.last]
    BY <2>1 DEF Handlers
  <2>3. new \in Handlers
    BY <2>2 DEF Handlers
  <2>. QED BY <2>2, <2>3, <1>5
<1>. QED BY <1>2, <1>3, <1>4, <1>5

(* Nothing is bound, running or recorded at first.                         *)
LEMMA ExceptionInitially ==
  ASSUME Init PROVE ExceptionInv
<1>1. Never \in Never..MaxTime /\ Never <= 0 /\ 0 \in 0..MaxTime /\ 0 \in 0..MaxInterval
  BY IntervalAssumption, BoundAssumption DEF Never
<1>2. handlers \in Handlers
  BY <1>1 DEF Init, NewHandlers, Handlers
<1>3. stack \in Seq(Frames) /\ Reports = {}
  BY DEF Init, Reports
<1>4. TypeOK
  BY <1>1, <1>2, <1>3 DEF Init, TypeOK, NewHandlers
<1>. QED
  BY <1>1, <1>3, <1>4
  DEF Init, NewHandlers, ExceptionInv, FlagFollowsStack, NoReportWithinReport,
      TimeFollowsHistory, BoundAsSet, BoundUnlessChoosing, CallsNeedObject, Idle

(* Every action keeps the parts of the invariant.                          *)
LEMMA ExceptionStepKeeps ==
  ASSUME ExceptionInv, [Next]_vars PROVE ExceptionInv'
<1>. USE DEF ExceptionInv
<1>1. CASE Initialize
  <2>1. /\ Idle /\ ~handlers.live /\ handedOn' = Never
        /\ handlers' = UpdateExceptionCaptureRegistration(NewHandlers(TRUE), optedIn)
        /\ UNCHANGED <<settings, optedIn, now, stack>>
    BY <1>1 DEF Initialize
  <2>2. /\ Never \in Never..MaxTime /\ Never <= 0
        /\ 0 \in 0..MaxInterval
    BY IntervalAssumption, BoundAssumption DEF Never
  <2>3. NewHandlers(TRUE) \in Handlers
    BY <2>2 DEF NewHandlers, Handlers
  <2>4. /\ NewHandlers(TRUE).live /\ ~NewHandlers(TRUE).bound
        /\ NewHandlers(TRUE).capturing = FALSE
        /\ NewHandlers(TRUE).last = Never
    BY DEF NewHandlers
  <2>5. optedIn \in BOOLEAN
    BY DEF TypeOK
  <2>6. /\ handlers' \in Handlers /\ handlers'.live
        /\ handlers'.capturing = FALSE /\ handlers'.last = Never
        /\ handlers'.bound =>
             /\ settings.capture /\ settings.here /\ optedIn
             /\ handlers'.debounce = settings.interval
        /\ settings.capture /\ settings.here /\ optedIn => handlers'.bound
    <3>. DEFINE fresh == NewHandlers(TRUE)
    <3>1. /\ fresh \in Handlers /\ fresh.live /\ ~fresh.bound
          /\ fresh.capturing = FALSE /\ fresh.last = Never
          /\ handlers' = UpdateExceptionCaptureRegistration(fresh, optedIn)
      BY <2>1, <2>3, <2>4
    <3>. HIDE DEF fresh
    <3>2. /\ handlers' \in Handlers /\ handlers'.live = fresh.live
          /\ handlers'.capturing = fresh.capturing
          /\ handlers'.last = fresh.last
          /\ handlers'.bound => fresh.bound \/ (fresh.live /\ settings.here)
          /\ handlers'.bound /\ fresh.live => settings.capture /\ optedIn
          /\ fresh.live /\ settings.capture /\ optedIn =>
               (fresh.bound \/ settings.here => handlers'.bound)
          /\ ~fresh.bound /\ handlers'.bound =>
               handlers'.debounce = settings.interval
      BY <2>5, <3>1, RegistrationTypes
    <3>. QED BY <3>1, <3>2
  <2>7. Reports = {} /\ Reports' = {}
    BY <2>1 DEF Reports, Idle
  <2>8. TypeOK'
    BY <2>1, <2>2, <2>6 DEF TypeOK
  <2>9. TimeFollowsHistory'
    <3>1. now \in Nat
      BY BoundAssumption DEF TypeOK
    <3>2. Never \in Int
      BY IntervalAssumption DEF Never
    <3>3. handedOn' <= now'
      BY <2>1, <2>2, <3>1, <3>2
    <3>. QED BY <2>1, <2>6, <3>3 DEF TimeFollowsHistory
  <2>. QED
    BY <2>1, <2>6, <2>7, <2>8, <2>9
    DEF FlagFollowsStack, NoReportWithinReport, BoundAsSet, BoundUnlessChoosing,
        CallsNeedObject
<1>2. CASE Deinitialize
  <2>1. /\ Idle /\ handlers' = NewHandlers(FALSE)
        /\ UNCHANGED <<settings, optedIn, now, stack, handedOn>>
    BY <1>2 DEF Deinitialize
  <2>2. Never \in Never..MaxTime /\ 0 \in 0..MaxInterval
    BY IntervalAssumption, BoundAssumption DEF Never
  <2>3. /\ handlers' \in Handlers /\ handlers'.live = FALSE
        /\ handlers'.bound = FALSE /\ handlers'.capturing = FALSE
    BY <2>1, <2>2 DEF NewHandlers, Handlers
  <2>4. Reports = {} /\ Reports' = {}
    BY <2>1 DEF Reports, Idle
  <2>5. TypeOK'
    BY <2>1, <2>3 DEF TypeOK
  <2>. QED
    BY <2>1, <2>3, <2>4, <2>5
    DEF FlagFollowsStack, NoReportWithinReport, TimeFollowsHistory, BoundAsSet,
        BoundUnlessChoosing, CallsNeedObject, Idle
<1>3. CASE SetAnalyticsOptIn
  <2>1. /\ handlers.live /\ optedIn' \in BOOLEAN
        /\ stack' = <<"choice">> \o stack
        /\ UNCHANGED <<settings, handlers, now, handedOn>>
    BY <1>3 DEF SetAnalyticsOptIn
  <2>2. stack \in Seq(Frames) /\ "choice" \in Frames /\ "report" \in Frames
    BY DEF TypeOK, Frames
  <2>3. /\ At(stack', "report") = {} <=> At(stack, "report") = {}
        /\ AtMostOne(stack, "report") => AtMostOne(stack', "report")
        /\ At(stack', "choice") # {}
    BY <2>1, <2>2, PushFrame
  <2>4. stack' \in Seq(Frames)
    BY <2>1, <2>2, Pushed
  <2>5. TypeOK'
    BY <2>1, <2>4 DEF TypeOK
  <2>6. /\ FlagFollowsStack' /\ NoReportWithinReport'
    BY <2>1, <2>3
    DEF FlagFollowsStack, NoReportWithinReport, Reports, At, AtMostOne
  <2>7. BoundUnlessChoosing'
    BY <2>3 DEF BoundUnlessChoosing, Choices
  <2>. QED
    BY <2>1, <2>5, <2>6, <2>7 DEF TimeFollowsHistory, BoundAsSet, CallsNeedObject
<1>4. CASE ReturnToSetAnalyticsOptIn
  <2>1. /\ stack # <<>> /\ Head(stack) = "choice"
        /\ handlers' = UpdateExceptionCaptureRegistration(handlers, optedIn)
        /\ stack' = Tail(stack)
        /\ UNCHANGED <<settings, optedIn, now, handedOn>>
    BY <1>4 DEF ReturnToSetAnalyticsOptIn, Idle
  <2>2. stack \in Seq(Frames) /\ "report" \in Frames
    BY DEF TypeOK, Frames
  <2>3. /\ At(stack', "report") = {} <=> At(stack, "report") = {}
        /\ AtMostOne(stack, "report") => AtMostOne(stack', "report")
    BY <2>1, <2>2, PopFrame
  <2>4. stack' \in Seq(Frames)
    BY <2>1, <2>2, Popped
  <2>5. handlers \in Handlers /\ optedIn \in BOOLEAN /\ handlers.live
    BY <2>1 DEF TypeOK, CallsNeedObject, Idle
  <2>6. /\ handlers' \in Handlers /\ handlers'.live
        /\ handlers'.capturing = handlers.capturing
        /\ handlers'.last = handlers.last
        /\ handlers'.bound => handlers.bound \/ settings.here
        /\ handlers'.bound => settings.capture /\ optedIn
        /\ settings.capture /\ optedIn /\ (handlers.bound \/ settings.here)
             => handlers'.bound
        /\ handlers.bound => handlers'.debounce = handlers.debounce
        /\ ~handlers.bound /\ handlers'.bound =>
             handlers'.debounce = settings.interval
    BY <2>1, <2>5, RegistrationTypes
  <2>7. TypeOK'
    BY <2>1, <2>4, <2>6 DEF TypeOK
  <2>8. FlagFollowsStack' /\ NoReportWithinReport'
    BY <2>1, <2>3, <2>6
    DEF FlagFollowsStack, NoReportWithinReport, Reports, At, AtMostOne
  <2>9. BoundAsSet' /\ BoundUnlessChoosing'
    BY <2>1, <2>6 DEF BoundAsSet, BoundUnlessChoosing
  <2>. QED
    BY <2>1, <2>5, <2>6, <2>7, <2>8, <2>9 DEF TimeFollowsHistory, CallsNeedObject
<1>5. CASE HandleEnsureFailed
  <2>1. /\ handlers.bound /\ ~Suppressed
        /\ handlers' = [handlers EXCEPT !.capturing = TRUE, !.last = now]
        /\ handedOn' = now
        /\ stack' = <<"report">> \o stack
        /\ UNCHANGED <<settings, optedIn, now>>
    BY <1>5 DEF HandleEnsureFailed
  <2>2. /\ stack \in Seq(Frames) /\ "choice" \in Frames /\ "report" \in Frames
        /\ handlers \in Handlers /\ handlers.live
    BY <2>1 DEF TypeOK, Frames
  <2>3. now \in Never..MaxTime
    BY IntervalAssumption, BoundAssumption DEF TypeOK, Never
  <2>4. handlers' = [live |-> handlers.live, bound |-> handlers.bound,
                     capturing |-> TRUE, debounce |-> handlers.debounce,
                     last |-> now]
    BY <2>1, <2>2 DEF Handlers
  <2>5. handlers' \in Handlers
    BY <2>2, <2>3, <2>4 DEF Handlers
  <2>6. At(stack, "report") = {}
    BY <2>1 DEF Suppressed, FlagFollowsStack, Reports, At, TypeOK, Handlers
  <2>7. /\ At(stack', "report") # {} /\ AtMostOne(stack', "report")
        /\ At(stack', "choice") = {} <=> At(stack, "choice") = {}
    BY <2>1, <2>2, <2>6, PushFrame
  <2>8. stack' \in Seq(Frames)
    BY <2>1, <2>2, Pushed
  <2>9. TypeOK'
    BY <2>1, <2>2, <2>3, <2>4, <2>5, <2>8 DEF TypeOK
  <2>10. FlagFollowsStack' /\ NoReportWithinReport'
    BY <2>4, <2>7 DEF FlagFollowsStack, NoReportWithinReport, Reports, At, AtMostOne
  <2>11. BoundAsSet' /\ BoundUnlessChoosing'
    BY <2>1, <2>4, <2>7 DEF BoundAsSet, BoundUnlessChoosing, Choices
  <2>12. TimeFollowsHistory' /\ CallsNeedObject'
    <3>1. now <= now
      BY BoundAssumption DEF TypeOK
    <3>. QED BY <2>1, <2>2, <2>4, <3>1 DEF TimeFollowsHistory, CallsNeedObject
  <2>. QED BY <2>9, <2>10, <2>11, <2>12
<1>6. CASE ReturnFromCaptureException
  <2>1. /\ stack # <<>> /\ Head(stack) = "report"
        /\ handlers' = [handlers EXCEPT !.capturing = FALSE]
        /\ stack' = Tail(stack)
        /\ UNCHANGED <<settings, optedIn, now, handedOn>>
    BY <1>6 DEF ReturnFromCaptureException, Idle
  <2>2. /\ stack \in Seq(Frames) /\ "choice" \in Frames /\ "report" \in Frames
        /\ handlers \in Handlers /\ handlers.live
    BY <2>1 DEF TypeOK, Frames, CallsNeedObject, Idle
  <2>3. handlers' = [live |-> handlers.live, bound |-> handlers.bound,
                     capturing |-> FALSE, debounce |-> handlers.debounce,
                     last |-> handlers.last]
    BY <2>1, <2>2 DEF Handlers
  <2>4. handlers' \in Handlers
    BY <2>2, <2>3 DEF Handlers
  <2>5. AtMostOne(stack, "report")
    BY DEF NoReportWithinReport, Reports, At, AtMostOne
  <2>6. /\ At(stack', "report") = {} /\ AtMostOne(stack', "report")
        /\ At(stack', "choice") = {} <=> At(stack, "choice") = {}
    BY <2>1, <2>2, <2>5, PopFrame
  <2>7. stack' \in Seq(Frames)
    BY <2>1, <2>2, Popped
  <2>8. TypeOK'
    BY <2>1, <2>2, <2>3, <2>4, <2>7 DEF TypeOK
  <2>9. FlagFollowsStack' /\ NoReportWithinReport'
    BY <2>3, <2>6 DEF FlagFollowsStack, NoReportWithinReport, Reports, At, AtMostOne
  <2>10. BoundAsSet' /\ BoundUnlessChoosing'
    BY <2>1, <2>3, <2>6 DEF BoundAsSet, BoundUnlessChoosing, Choices
  <2>. QED
    BY <2>1, <2>2, <2>3, <2>8, <2>9, <2>10 DEF TimeFollowsHistory, CallsNeedObject
<1>7. CASE Tick
  <2>1. /\ now < MaxTime /\ now' = now + 1
        /\ UNCHANGED <<settings, optedIn, handlers, stack, handedOn>>
    BY <1>7 DEF Tick
  <2>2. now' \in 0..MaxTime /\ handedOn' <= now'
    BY <2>1, BoundAssumption, IntervalAssumption
    DEF TypeOK, TimeFollowsHistory, Never
  <2>. QED
    BY <2>1, <2>2
    DEF TypeOK, FlagFollowsStack, NoReportWithinReport, TimeFollowsHistory,
        BoundAsSet, BoundUnlessChoosing, CallsNeedObject, Reports, Choices, At, Idle
<1>8. CASE UNCHANGED vars
  BY <1>8
  DEF vars, TypeOK, FlagFollowsStack, NoReportWithinReport, TimeFollowsHistory,
      BoundAsSet, BoundUnlessChoosing, CallsNeedObject, Reports, Choices, At, Idle
<1>. QED
  BY <1>1, <1>2, <1>3, <1>4, <1>5, <1>6, <1>7, <1>8 DEF Next

-----------------------------------------------------------------------------

(* The parts hold in every reachable state.                                *)
THEOREM ExceptionInvariant == Spec => []ExceptionInv
<1>1. Init => ExceptionInv
  BY ExceptionInitially
<1>2. ExceptionInv /\ [Next]_vars => ExceptionInv'
  BY ExceptionStepKeeps
<1>. QED BY <1>1, <1>2, PTL DEF Spec

(* Every variable keeps its type, and no delegate is bound to an object    *)
(* that is gone.                                                           *)
THEOREM ExceptionTypes == Spec => []TypeOK
<1>1. ExceptionInv => TypeOK
  BY DEF ExceptionInv
<1>. QED BY <1>1, ExceptionInvariant, PTL

(* No report runs inside another, at any depth of nesting.                 *)
THEOREM NoRecursion == Spec => []NoReportWithinReport
<1>1. ExceptionInv => NoReportWithinReport
  BY DEF ExceptionInv
<1>. QED BY <1>1, ExceptionInvariant, PTL

(* A bound handler leaves out only what repeats, for every interval.       *)
THEOREM OnlyRepeats == Spec => []OnlyRepeatsSuppressed
<1>1. ExceptionInv => OnlyRepeatsSuppressed
  <2>. SUFFICES ASSUME ExceptionInv, handlers.bound, Suppressed, Reports = {}
                PROVE  now - handedOn < settings.interval
    BY DEF OnlyRepeatsSuppressed
  <2>1. ~handlers.capturing
    BY DEF ExceptionInv, FlagFollowsStack, TypeOK, Handlers
  <2>2. handlers.last = handedOn /\ handlers.debounce = settings.interval
    BY DEF ExceptionInv, TypeOK, TimeFollowsHistory, BoundAsSet
  <2>. QED BY <2>1, <2>2 DEF Suppressed
<1>. QED BY <1>1, ExceptionInvariant, PTL

(* And it leaves out everything that does, for every interval.             *)
THEOREM Repeats == Spec => []RepeatsSuppressed
<1>1. ExceptionInv => RepeatsSuppressed
  BY DEF ExceptionInv, TypeOK, TimeFollowsHistory, BoundAsSet, RepeatsSuppressed, Suppressed
<1>. QED BY <1>1, ExceptionInvariant, PTL

(* Exactly the repeats are left out (CaptureAdapted).                      *)
THEOREM Debounced == Spec => []ReportsDebounced
BY NoRecursion, OnlyRepeats, Repeats, PTL DEF ReportsDebounced

(* Between the calls the binding is what the settings and the consent ask. *)
THEOREM Bound == Spec => []BoundWithConsent
<1>1. ExceptionInv => BoundWithConsent
  <2>. SUFFICES ASSUME ExceptionInv, Idle, handlers.live
                PROVE  handlers.bound = (settings.capture /\ settings.here /\ optedIn)
    BY DEF BoundWithConsent
  <2>1. Choices = {}
    BY DEF Choices, At, Idle
  <2>2. handlers.bound <=> settings.capture /\ settings.here /\ optedIn
    BY <2>1 DEF ExceptionInv, BoundUnlessChoosing
  <2>3. handlers.bound \in BOOLEAN
    BY DEF ExceptionInv, TypeOK, Handlers
  <2>. QED BY <2>2, <2>3
<1>. QED BY <1>1, ExceptionInvariant, PTL

-----------------------------------------------------------------------------
(* The HTTP client.  A request is completed under the flag bCompleted      *)
(* alone; the inductive invariant ties the count of completions, what      *)
(* SendBatch returned and what was reported to that flag.                  *)

HttpTypeOK ==
  /\ call \in [Requests -> Places]
  /\ bound \in [Requests -> BOOLEAN]
  /\ bCompleted \in [Requests -> BOOLEAN]
  /\ fires \in [Requests -> Nat]
  /\ calls \in [Requests -> Nat]
  /\ answer \in [Requests -> Answers]
  /\ reported \in [Requests -> BOOLEAN]

(* The flag counts the completions.                                        *)
FlagCounts(r) == calls[r] = IF bCompleted[r] = TRUE THEN 1 ELSE 0

(* Without a handle there was a completion.                                *)
NullIsDone(r) == call[r] = "null" => bCompleted[r] = TRUE

(* A cancelled request has no delegate.                                    *)
CancelUnbinds(r) == call[r] = "cancelled" => bound[r] = FALSE

(* Only an answer of the server with a 2xx status is a success.            *)
SuccessIsAnswer(r) ==
  reported[r] = TRUE => bCompleted[r] = TRUE /\ answer[r] = "ok"

RequestInv(r) ==
  FlagCounts(r) /\ NullIsDone(r) /\ CancelUnbinds(r) /\ SuccessIsAnswer(r)

HttpInv == HttpTypeOK /\ \A r \in Requests : RequestInv(r)

-----------------------------------------------------------------------------

(* CompleteOnce keeps the types, touches no other request, and leaves the  *)
(* request completed once, with the success of its first completion.       *)
LEMMA Completion ==
  ASSUME HttpTypeOK, NEW r \in Requests, NEW success \in BOOLEAN,
         FlagCounts(r), CompleteOnce(r, success)
  PROVE  /\ bCompleted' \in [Requests -> BOOLEAN]
         /\ calls' \in [Requests -> Nat]
         /\ reported' \in [Requests -> BOOLEAN]
         /\ \A q \in Requests \ {r} :
              /\ bCompleted'[q] = bCompleted[q]
              /\ calls'[q] = calls[q]
              /\ reported'[q] = reported[q]
         /\ bCompleted'[r] = TRUE
         /\ calls'[r] = 1
         /\ reported'[r] = IF bCompleted[r] = TRUE THEN reported[r] ELSE success
<1>1. CASE bCompleted[r] = TRUE
  BY <1>1 DEF CompleteOnce, HttpTypeOK, FlagCounts
<1>2. CASE bCompleted[r] = FALSE
  <2>1. /\ bCompleted' = [bCompleted EXCEPT ![r] = TRUE]
        /\ calls' = [calls EXCEPT ![r] = @ + 1]
        /\ reported' = [reported EXCEPT ![r] = success]
    BY <1>2 DEF CompleteOnce
  <2>2. calls[r] = 0
    BY <1>2 DEF FlagCounts
  <2> QED
    BY <1>2, <2>1, <2>2 DEF HttpTypeOK
<1> QED
  BY <1>1, <1>2 DEF HttpTypeOK

(* No request is under way at first.                                       *)
LEMMA HttpInitially == HttpInit => HttpInv
<1> SUFFICES ASSUME HttpInit PROVE HttpInv
  OBVIOUS
<1>1. HttpTypeOK
  BY DEF HttpInit, HttpTypeOK, Places, Answers
<1>2. ASSUME NEW r \in Requests PROVE RequestInv(r)
  BY DEF HttpInit, RequestInv, FlagCounts, NullIsDone, CancelUnbinds,
         SuccessIsAnswer
<1> QED
  BY <1>1, <1>2 DEF HttpInv

(* What a step on a request does not touch keeps its part.                 *)
LEMMA OthersKeep ==
  ASSUME HttpInv, NEW q \in Requests,
         call'[q] = call[q], bound'[q] = bound[q],
         bCompleted'[q] = bCompleted[q], calls'[q] = calls[q],
         answer'[q] = answer[q], reported'[q] = reported[q]
  PROVE  RequestInv(q)'
BY DEF HttpInv, RequestInv, FlagCounts, NullIsDone, CancelUnbinds,
       SuccessIsAnswer

(* A payload that does not serialise.                                      *)
LEMMA SerializeFailsKeeps ==
  ASSUME HttpInv, NEW r \in Requests, SerializeFails(r)
  PROVE  HttpInv'
<1>1. /\ HttpTypeOK /\ RequestInv(r) /\ FlagCounts(r)
  BY DEF HttpInv, RequestInv
<1>2. /\ call[r] = "unused" /\ CompleteOnce(r, FALSE)
      /\ call' = [call EXCEPT ![r] = "null"]
      /\ UNCHANGED <<bound, fires, answer>>
  BY DEF SerializeFails
<1>3. /\ bCompleted' \in [Requests -> BOOLEAN]
      /\ calls' \in [Requests -> Nat]
      /\ reported' \in [Requests -> BOOLEAN]
      /\ \A q \in Requests \ {r} : /\ bCompleted'[q] = bCompleted[q]
                                   /\ calls'[q] = calls[q]
                                   /\ reported'[q] = reported[q]
      /\ bCompleted'[r] = TRUE
      /\ calls'[r] = 1
      /\ reported'[r] = IF bCompleted[r] = TRUE THEN reported[r] ELSE FALSE
  BY <1>1, <1>2, Completion
<1>4. HttpTypeOK'
  BY <1>1, <1>2, <1>3 DEF HttpTypeOK, Places
<1>5. RequestInv(r)'
  BY <1>1, <1>2, <1>3 DEF RequestInv, FlagCounts, NullIsDone, CancelUnbinds,
     SuccessIsAnswer, HttpTypeOK
<1>6. ASSUME NEW q \in Requests \ {r} PROVE RequestInv(q)'
  BY <1>1, <1>2, <1>3, <1>6, OthersKeep DEF HttpTypeOK
<1> QED
  BY <1>4, <1>5, <1>6 DEF HttpInv

(* The delegate is bound and the request handed to the engine.             *)
LEMMA SendBatchKeeps ==
  ASSUME HttpInv, NEW r \in Requests, SendBatch(r)
  PROVE  HttpInv'
<1>1. HttpTypeOK /\ RequestInv(r)
  BY DEF HttpInv
<1>2. HttpTypeOK'
  BY <1>1 DEF HttpTypeOK, Places, SendBatch
<1>3. RequestInv(r)'
  BY <1>1 DEF RequestInv, FlagCounts, NullIsDone, CancelUnbinds,
     SuccessIsAnswer, HttpTypeOK, SendBatch
<1>4. ASSUME NEW q \in Requests \ {r} PROVE RequestInv(q)'
  BY <1>1, <1>4, OthersKeep DEF HttpTypeOK, SendBatch
<1> QED
  BY <1>2, <1>3, <1>4 DEF HttpInv

(* The engine says whether the request has started.                        *)
LEMMA ProcessRequestReturnsKeeps ==
  ASSUME HttpInv, NEW r \in Requests, NEW started \in BOOLEAN,
         ProcessRequestReturns(r, started)
  PROVE  HttpInv'
<1>1. HttpTypeOK /\ RequestInv(r) /\ FlagCounts(r)
  BY DEF HttpInv, RequestInv
<1>2. CASE started = TRUE
  <2>1. /\ call[r] = "starting"
        /\ call' = [call EXCEPT ![r] = "handle"]
        /\ UNCHANGED <<bound, bCompleted, fires, calls, answer, reported>>
    BY <1>2 DEF ProcessRequestReturns
  <2>2. HttpTypeOK'
    BY <1>1, <2>1 DEF HttpTypeOK, Places
  <2>3. RequestInv(r)'
    BY <1>1, <2>1 DEF RequestInv, FlagCounts, NullIsDone, CancelUnbinds,
       SuccessIsAnswer, HttpTypeOK
  <2>4. ASSUME NEW q \in Requests \ {r} PROVE RequestInv(q)'
    BY <1>1, <2>1, <2>4, OthersKeep DEF HttpTypeOK
  <2> QED
    BY <2>2, <2>3, <2>4 DEF HttpInv
<1>3. CASE started = FALSE
  <2>1. /\ call[r] = "starting" /\ CompleteOnce(r, FALSE)
        /\ call' = [call EXCEPT ![r] = "null"]
        /\ UNCHANGED <<bound, fires, answer>>
    BY <1>3 DEF ProcessRequestReturns
  <2>2. /\ bCompleted' \in [Requests -> BOOLEAN]
        /\ calls' \in [Requests -> Nat]
        /\ reported' \in [Requests -> BOOLEAN]
        /\ \A q \in Requests \ {r} : /\ bCompleted'[q] = bCompleted[q]
                                     /\ calls'[q] = calls[q]
                                     /\ reported'[q] = reported[q]
        /\ bCompleted'[r] = TRUE
        /\ calls'[r] = 1
        /\ reported'[r] = IF bCompleted[r] = TRUE THEN reported[r] ELSE FALSE
    BY <1>1, <2>1, Completion
  <2>3. HttpTypeOK'
    BY <1>1, <2>1, <2>2 DEF HttpTypeOK, Places
  <2>4. RequestInv(r)'
    BY <1>1, <2>1, <2>2 DEF RequestInv, FlagCounts, NullIsDone, CancelUnbinds,
       SuccessIsAnswer, HttpTypeOK
  <2>5. ASSUME NEW q \in Requests \ {r} PROVE RequestInv(q)'
    BY <1>1, <2>1, <2>2, <2>5, OthersKeep DEF HttpTypeOK
  <2> QED
    BY <2>3, <2>4, <2>5 DEF HttpInv
<1> QED
  BY <1>2, <1>3

(* The engine calls the delegate, if it is still bound.                    *)
LEMMA EngineCompletesKeeps ==
  ASSUME HttpInv, NEW r \in Requests, EngineCompletes(r)
  PROVE  HttpInv'
<1>1. HttpTypeOK /\ RequestInv(r) /\ FlagCounts(r)
  BY DEF HttpInv, RequestInv
<1>2. PICK got \in Answers :
        /\ answer' = [answer EXCEPT ![r] = IF bCompleted[r] THEN @ ELSE got]
        /\ IF bound[r] THEN CompleteOnce(r, IsSuccessfulResponse(got))
           ELSE UNCHANGED <<bCompleted, calls, reported>>
  BY DEF EngineCompletes
<1>3. /\ fires' = [fires EXCEPT ![r] = @ + 1]
      /\ UNCHANGED <<call, bound>>
  BY DEF EngineCompletes
<1>4. /\ answer' \in [Requests -> Answers]
      /\ \A q \in Requests \ {r} : answer'[q] = answer[q]
      /\ answer'[r] = IF bCompleted[r] = TRUE THEN answer[r] ELSE got
  BY <1>1, <1>2 DEF HttpTypeOK
<1>5. fires' \in [Requests -> Nat]
  BY <1>1, <1>3 DEF HttpTypeOK
<1>6. CASE bound[r] = TRUE
  <2>1. IsSuccessfulResponse(got) \in BOOLEAN
    BY DEF IsSuccessfulResponse
  <2>2. CompleteOnce(r, IsSuccessfulResponse(got))
    BY <1>2, <1>6
  <2>3. /\ bCompleted' \in [Requests -> BOOLEAN]
        /\ calls' \in [Requests -> Nat]
        /\ reported' \in [Requests -> BOOLEAN]
        /\ \A q \in Requests \ {r} : /\ bCompleted'[q] = bCompleted[q]
                                     /\ calls'[q] = calls[q]
                                     /\ reported'[q] = reported[q]
        /\ bCompleted'[r] = TRUE
        /\ calls'[r] = 1
        /\ reported'[r] = IF bCompleted[r] = TRUE THEN reported[r]
                          ELSE IsSuccessfulResponse(got)
    BY <1>1, <2>1, <2>2, Completion
  <2>4. HttpTypeOK'
    BY <1>1, <1>3, <1>4, <1>5, <2>3 DEF HttpTypeOK
  <2>5. RequestInv(r)'
    BY <1>1, <1>3, <1>4, <1>6, <2>3 DEF RequestInv, FlagCounts, NullIsDone,
       CancelUnbinds, SuccessIsAnswer, HttpTypeOK, IsSuccessfulResponse
  <2>6. ASSUME NEW q \in Requests \ {r} PROVE RequestInv(q)'
    BY <1>3, <1>4, <2>3, <2>6, OthersKeep
  <2> QED
    BY <2>4, <2>5, <2>6 DEF HttpInv
<1>7. CASE bound[r] = FALSE
  <2>1. UNCHANGED <<bCompleted, calls, reported>>
    BY <1>2, <1>7
  <2>2. HttpTypeOK'
    BY <1>1, <1>3, <1>4, <1>5, <2>1 DEF HttpTypeOK
  <2>3. RequestInv(r)'
    BY <1>1, <1>3, <1>4, <2>1 DEF RequestInv, FlagCounts, NullIsDone,
       CancelUnbinds, SuccessIsAnswer, HttpTypeOK
  <2>4. ASSUME NEW q \in Requests \ {r} PROVE RequestInv(q)'
    BY <1>3, <1>4, <2>1, <2>4, OthersKeep
  <2> QED
    BY <2>2, <2>3, <2>4 DEF HttpInv
<1> QED
  BY <1>1, <1>6, <1>7 DEF HttpTypeOK

(* The delegate is unbound before CancelRequest is called.                 *)
LEMMA CancelKeeps ==
  ASSUME HttpInv, NEW r \in Requests, Cancel(r)
  PROVE  HttpInv'
<1>1. HttpTypeOK /\ RequestInv(r)
  BY DEF HttpInv
<1>2. HttpTypeOK'
  BY <1>1 DEF HttpTypeOK, Places, Cancel
<1>3. RequestInv(r)'
  BY <1>1 DEF RequestInv, FlagCounts, NullIsDone, CancelUnbinds,
     SuccessIsAnswer, HttpTypeOK, Cancel
<1>4. ASSUME NEW q \in Requests \ {r} PROVE RequestInv(q)'
  BY <1>1, <1>4, OthersKeep DEF HttpTypeOK, Cancel
<1> QED
  BY <1>2, <1>3, <1>4 DEF HttpInv

(* Every step keeps the invariant.                                         *)
LEMMA HttpStepKeeps == HttpInv /\ [HttpNext]_httpVars => HttpInv'
<1> SUFFICES ASSUME HttpInv, [HttpNext]_httpVars PROVE HttpInv'
  OBVIOUS
<1>1. CASE UNCHANGED httpVars
  BY <1>1 DEF httpVars, HttpInv, HttpTypeOK, RequestInv, FlagCounts,
     NullIsDone, CancelUnbinds, SuccessIsAnswer
<1>2. CASE HttpNext
  <2>1. PICK r \in Requests :
          \/ SerializeFails(r)
          \/ SendBatch(r)
          \/ \E started \in BOOLEAN : ProcessRequestReturns(r, started)
          \/ EngineCompletes(r)
          \/ Cancel(r)
    BY <1>2 DEF HttpNext
  <2> QED
    BY <2>1, SerializeFailsKeeps, SendBatchKeeps, ProcessRequestReturnsKeeps,
       EngineCompletesKeeps, CancelKeeps
<1> QED
  BY <1>1, <1>2

(* The inductive invariant holds in every reachable state.                 *)
THEOREM HttpInvariant == HttpSpec => []HttpInv
BY HttpInitially, HttpStepKeeps, PTL DEF HttpSpec

-----------------------------------------------------------------------------

(* The queue hears of a request once (CompleteOnce), however often the     *)
(* engine calls the delegate.                                              *)
THEOREM CompletedOnce == HttpSpec => []CompletedAtMostOnce
<1>1. HttpInv => CompletedAtMostOnce
  <2> SUFFICES ASSUME HttpInv, NEW r \in Requests PROVE calls[r] <= 1
    BY DEF CompletedAtMostOnce
  <2>1. calls[r] = IF bCompleted[r] = TRUE THEN 1 ELSE 0
    BY DEF HttpInv, RequestInv, FlagCounts
  <2> QED
    BY <2>1
<1> QED
  BY <1>1, HttpInvariant, PTL

(* SendBatch returns no handle only for a request that has been completed. *)
THEOREM NullMeansDone == HttpSpec => []NoHandleWhenDone
<1>1. HttpInv => NoHandleWhenDone
  BY DEF HttpInv, RequestInv, FlagCounts, NullIsDone, NoHandleWhenDone
<1> QED
  BY <1>1, HttpInvariant, PTL

(* A success was a complete answer with a 2xx status, the first that came. *)
THEOREM SuccessAnswered == HttpSpec => []SuccessWasAnswered
<1>1. HttpInv => SuccessWasAnswered
  BY DEF HttpInv, HttpTypeOK, RequestInv, SuccessIsAnswer, SuccessWasAnswered
<1> QED
  BY <1>1, HttpInvariant, PTL

(* The contract of the client with the queue (SendBatch).                  *)
THEOREM ContractKept == HttpSpec => []RequestContract
BY CompletedOnce, NullMeansDone, SuccessAnswered, PTL DEF RequestContract

(* A step on one request leaves the completions of the others alone, and a *)
(* cancelled request has no delegate to complete it.                       *)
LEMMA CancelledStaysSilent ==
  ASSUME HttpInv, [HttpNext]_httpVars, NEW q \in Requests, call[q] = "cancelled"
  PROVE  calls'[q] = calls[q]
<1>1. CASE UNCHANGED httpVars
  BY <1>1 DEF httpVars
<1>2. CASE HttpNext
  <2> USE DEF HttpInv, HttpTypeOK
  <2>1. PICK r \in Requests :
          \/ SerializeFails(r)
          \/ SendBatch(r)
          \/ \E started \in BOOLEAN : ProcessRequestReturns(r, started)
          \/ EngineCompletes(r)
          \/ Cancel(r)
    BY <1>2 DEF HttpNext
  <2>2. CASE SerializeFails(r)
    BY <2>2 DEF SerializeFails, CompleteOnce
  <2>3. CASE SendBatch(r)
    BY <2>3 DEF SendBatch
  <2>4. CASE \E started \in BOOLEAN : ProcessRequestReturns(r, started)
    BY <2>4 DEF ProcessRequestReturns, CompleteOnce
  <2>5. CASE EngineCompletes(r)
    <3>1. bound[q] = FALSE
      BY DEF RequestInv, CancelUnbinds
    <3>2. CASE r = q
      BY <2>5, <3>1, <3>2 DEF EngineCompletes
    <3>3. CASE r # q
      BY <2>5, <3>3 DEF EngineCompletes, CompleteOnce
    <3> QED
      BY <3>2, <3>3
  <2>6. CASE Cancel(r)
    BY <2>6 DEF Cancel
  <2> QED
    BY <2>1, <2>2, <2>3, <2>4, <2>5, <2>6
<1> QED
  BY <1>1, <1>2

(* A cancelled request is not heard of again, whatever the platform does.  *)
THEOREM CancelledIsSilent == HttpSpec => SilentAfterCancel
<1>1. HttpInv /\ [HttpNext]_httpVars
        => [\A r \in Requests :
              call[r] = "cancelled" => calls'[r] = calls[r]]_httpVars
  BY CancelledStaysSilent
<1> QED
  BY <1>1, HttpInvariant, PTL DEF HttpSpec, SilentAfterCancel

-----------------------------------------------------------------------------
(* Both adapters on one engine.                                            *)

(* The calls of one adapter leave the other as it was, so each behaves     *)
(* among them as it does alone.                                            *)
LEMMA ExceptionPart == AdaptersSpec => Spec
<1>1. AdaptersInit => Init
  BY DEF AdaptersInit
<1>2. [ExceptionStep \/ HttpStep]_<<vars, httpVars>> => [Next]_vars
  BY DEF ExceptionStep, HttpStep, vars
<1>. QED BY <1>1, <1>2, PTL DEF AdaptersSpec, Spec

(* The same of the HTTP client.                                            *)
LEMMA HttpPart == AdaptersSpec => HttpSpec
<1>1. AdaptersInit => HttpInit
  BY DEF AdaptersInit
<1>2. [ExceptionStep \/ HttpStep]_<<vars, httpVars>> => [HttpNext]_httpVars
  BY DEF ExceptionStep, HttpStep, httpVars
<1>. QED BY <1>1, <1>2, PTL DEF AdaptersSpec, HttpSpec

(* Reports are debounced while requests complete inside them.              *)
THEOREM AdaptersDebounced == AdaptersSpec => []ReportsDebounced
BY ExceptionPart, Debounced, PTL

(* Requests complete once while reports are under way.                     *)
THEOREM AdaptersContract == AdaptersSpec => []RequestContract
BY HttpPart, ContractKept, PTL

(* A cancelled request stays silent, whichever adapter moves.              *)
THEOREM AdaptersSilent == AdaptersSpec => SilentAfterCancel
BY HttpPart, CancelledIsSilent, PTL

=============================================================================
