-------------------------- MODULE EventQueueProofs --------------------------
(***************************************************************************)
(* Proofs about EventQueue, for every value of the constants.              *)
(***************************************************************************)
EXTENDS EventQueue, FiniteSetTheorems, TLAPS

-----------------------------------------------------------------------------
(* The inductive invariant.                                                *)

(* What the index holds is on disk or waits on the pipe; a waiting write   *)
(* waits once and has no file yet; ids not yet used leave no trace.        *)
StoreOK(s, used) ==
  /\ IsInjective(s.pipe)
  /\ Pending(s) \subseteq s.index
  /\ \A e \in s.index : e \in Pending(s) \/ s.file[e] # "absent"
  /\ \A e \in Pending(s) : s.file[e] = "absent"
  /\ \A e \in Events \ used : e \notin s.index /\ s.file[e] = "absent"

(* A request the server ingested was delivered; the generation of a        *)
(* cancelled request is not the current one.                               *)
RequestsOK ==
  \A r \in wire :
    /\ r.ingested => r.batch \subseteq delivered
    /\ r.state = "cancelled" => r.gen # queue.generation

(* A flush started inside a callback is not the one whose SendBatch or     *)
(* Clear is still to be returned to.                                       *)
FramesOK(frames, q) ==
  q.flushing =>
    \A i \in DOMAIN frames :
      /\ frames[i].at = "sent" => frames[i].gen # q.generation
      /\ frames[i].at # "clear"

FlightOK ==
  /\ queue \in Queue /\ stack \in Seq(Frame) /\ wire \subseteq Request
  /\ RequestsOK /\ FramesOK(stack, queue)
  /\ SingleActiveRequest /\ ActiveBatchPersisted

IInv ==
  /\ TypeOK
  /\ IsFiniteSet(accepted)
  /\ StoreOK(store, accepted)
  /\ NothingLostSilently
  /\ FlightOK

-----------------------------------------------------------------------------
(* The pipe.                                                               *)

(* An empty pipe, a write launched, and the write at the head done.        *)
LEMMA PipeFacts ==
  /\ Range(<<>>) = {} /\ IsInjective(<<>>)
  /\ \A pipe \in Seq(Events) : \A e \in Events \ Range(pipe) : IsInjective(pipe) =>
       /\ Append(pipe, e) \in Seq(Events)
       /\ IsInjective(Append(pipe, e))
       /\ Range(Append(pipe, e)) = Range(pipe) \cup {e}
  /\ \A pipe \in Seq(Events) : pipe # <<>> /\ IsInjective(pipe) =>
       /\ Head(pipe) \in Range(pipe) /\ Head(pipe) \in Events
       /\ Tail(pipe) \in Seq(Events) /\ IsInjective(Tail(pipe))
       /\ Range(Tail(pipe)) = Range(pipe) \ {Head(pipe)}
<1>1. Range(<<>>) = {} /\ IsInjective(<<>>)
  BY DEF Range, IsInjective
<1>2. ASSUME NEW pipe \in Seq(Events), NEW e \in Events \ Range(pipe), IsInjective(pipe)
      PROVE  /\ Append(pipe, e) \in Seq(Events)
             /\ IsInjective(Append(pipe, e))
             /\ Range(Append(pipe, e)) = Range(pipe) \cup {e}
  <2> DEFINE n == Len(pipe)  longer == Append(pipe, e)
  <2>1. /\ n \in Nat /\ DOMAIN pipe = 1 .. n /\ longer \in Seq(Events)
        /\ DOMAIN longer = 1 .. (n + 1) /\ longer[n + 1] = e
        /\ \A i \in 1 .. n : longer[i] = pipe[i] /\ pipe[i] # e
    BY DEF Range
  <2> HIDE DEF n, longer
  <2>2. 1 .. (n + 1) = (1 .. n) \cup {n + 1}
    BY <2>1
  <2>3. IsInjective(longer)
    BY <1>2, <2>1, <2>2 DEF IsInjective
  <2>4. Range(longer) = Range(pipe) \cup {e}
    BY <2>1, <2>2 DEF Range
  <2> QED
    BY <2>1, <2>3, <2>4 DEF longer
<1>3. ASSUME NEW pipe \in Seq(Events), pipe # <<>>, IsInjective(pipe)
      PROVE  /\ Head(pipe) \in Range(pipe) /\ Head(pipe) \in Events
             /\ Tail(pipe) \in Seq(Events) /\ IsInjective(Tail(pipe))
             /\ Range(Tail(pipe)) = Range(pipe) \ {Head(pipe)}
  <2> DEFINE n == Len(pipe)  rest == Tail(pipe)
  <2>1. /\ n \in Nat /\ n > 0 /\ DOMAIN pipe = 1 .. n /\ Head(pipe) = pipe[1]
        /\ Head(pipe) \in Events /\ rest \in Seq(Events)
        /\ DOMAIN rest = 1 .. (n - 1)
        /\ \A i \in 1 .. (n - 1) : rest[i] = pipe[i + 1]
    BY <1>3
  <2> HIDE DEF n, rest
  <2>2. \A i \in 1 .. n : i = 1 \/ (i - 1 \in 1 .. (n - 1) /\ i = (i - 1) + 1)
    BY <2>1
  <2>3. IsInjective(rest)
    <3> SUFFICES ASSUME NEW i \in 1 .. (n - 1), NEW j \in 1 .. (n - 1),
                        rest[i] = rest[j]
                 PROVE  i = j
      BY <2>1 DEF IsInjective
    <3>1. i + 1 \in 1 .. n /\ j + 1 \in 1 .. n /\ pipe[i + 1] = pipe[j + 1]
      BY <2>1
    <3>2. i + 1 = j + 1
      BY <1>3, <2>1, <3>1 DEF IsInjective
    <3> QED
      BY <2>1, <3>2
  <2>4. ASSUME NEW x \in Range(rest) PROVE x \in Range(pipe) \ {Head(pipe)}
    <3>1. PICK i \in 1 .. (n - 1) : x = pipe[i + 1]
      BY <2>1 DEF Range
    <3>2. i + 1 \in 1 .. n /\ i + 1 # 1 /\ 1 \in 1 .. n
      BY <2>1
    <3> QED
      BY <1>3, <2>1, <3>1, <3>2 DEF Range, IsInjective
  <2>5. ASSUME NEW x \in Range(pipe) \ {Head(pipe)} PROVE x \in Range(rest)
    <3>1. PICK i \in 1 .. n : x = pipe[i]
      BY <2>1 DEF Range
    <3>2. i - 1 \in 1 .. (n - 1) /\ x = pipe[(i - 1) + 1]
      BY <2>1, <2>2, <2>5, <3>1
    <3> QED
      BY <2>1, <3>2 DEF Range
  <2>6. Head(pipe) \in Range(pipe)
    BY <2>1 DEF Range
  <2> QED
    BY <2>1, <2>3, <2>4, <2>5, <2>6 DEF rest
<1> QED
  BY <1>1, <1>2, <1>3

-----------------------------------------------------------------------------
(* Storage calls keep a store well formed.                                 *)

(* Draining the pipe keeps the store's type and invariant, takes only the  *)
(* failed writes out of the index, and records them as lost.               *)
LEMMA WaitFacts ==
  ASSUME NEW s \in Store, NEW n, StoreOK(s, n),
         NEW failed \in SaveFailures(s), NEW torn \in SUBSET failed
  PROVE  LET w == WaitUntilEmpty(s, failed, torn)
         IN  /\ w \in Store /\ StoreOK(w, n)
             /\ w.pipe = <<>>
             /\ w.index = s.index \ failed
             /\ w.lost = s.lost \cup failed
             /\ failed \subseteq Pending(s)
             /\ \A e \in Events \ Pending(s) : w.file[e] = s.file[e]
<1> DEFINE w == WaitUntilEmpty(s, failed, torn)
<1>1. failed \subseteq Pending(s)
  BY DEF SaveFailures
<1>2. w \in Store
  <2>1. <<>> \in Seq(Events)
    OBVIOUS
  <2>2. failed \subseteq Events
    BY <1>1 DEF StoreOK, Store
  <2> QED
    BY <2>1, <2>2 DEF Store, FileState, WaitUntilEmpty
<1>3. StoreOK(w, n)
  BY <1>1, PipeFacts DEF Store, FileState, WaitUntilEmpty, StoreOK, Pending
<1> QED
  BY <1>1, <1>2, <1>3 DEF Store, WaitUntilEmpty

(* Deleting records, with or without giving them up, keeps the type and    *)
(* the invariant of a store whose pipe is empty.                           *)
LEMMA DeleteFacts ==
  ASSUME NEW s \in Store, NEW n, StoreOK(s, n), s.pipe = <<>>, NEW D \in SUBSET Events
  PROVE  /\ DeleteEvents(s, D) \in Store /\ StoreOK(DeleteEvents(s, D), n)
         /\ Discard(s, D) \in Store /\ StoreOK(Discard(s, D), n)
         /\ DeleteEvents(s, D).pipe = <<>> /\ Discard(s, D).pipe = <<>>
         /\ DeleteEvents(s, D).index = s.index \ D
         /\ DeleteEvents(s, D).lost = s.lost
         /\ Discard(s, D).index = s.index \ D
         /\ Discard(s, D).lost = s.lost \cup D
         /\ \A e \in Events \ D : /\ DeleteEvents(s, D).file[e] = s.file[e]
                               /\ Discard(s, D).file[e] = s.file[e]
<1>1. DeleteEvents(s, D) \in Store /\ StoreOK(DeleteEvents(s, D), n)
  BY PipeFacts DEF Store, FileState, DeleteEvents, StoreOK, Pending
<1>2. Discard(s, D) \in Store /\ StoreOK(Discard(s, D), n)
  BY PipeFacts DEF Store, FileState, DeleteEvents, Discard, StoreOK, Pending
<1> QED
  BY <1>1, <1>2 DEF Store, DeleteEvents, Discard

(* Saving a fresh event.                                                   *)
LEMMA SaveFacts ==
  ASSUME NEW s \in Store, NEW n, StoreOK(s, n), NEW e \in Events \ n
  PROVE  /\ SaveEvent(s, e) \in Store /\ StoreOK(SaveEvent(s, e), n \cup {e})
         /\ SaveEvent(s, e).index = s.index \cup {e}
         /\ SaveEvent(s, e).lost = s.lost
         /\ SaveEvent(s, e).file = s.file
         /\ Pending(SaveEvent(s, e)) = Pending(s) \cup {e}
<1>1. s.pipe \in Seq(Events) /\ e \notin Range(s.pipe) /\ IsInjective(s.pipe)
  BY DEF Store, StoreOK, Pending
<1>2. /\ Append(s.pipe, e) \in Seq(Events) /\ IsInjective(Append(s.pipe, e))
      /\ Range(Append(s.pipe, e)) = Range(s.pipe) \cup {e}
  BY <1>1, PipeFacts
<1> DEFINE longer == Append(s.pipe, e)
<1>3. SaveEvent(s, e) = [s EXCEPT !.index = @ \cup {e}, !.pipe = longer]
  BY DEF SaveEvent
<1> HIDE DEF longer
<1>4. /\ SaveEvent(s, e) \in Store
      /\ SaveEvent(s, e).index = s.index \cup {e}
      /\ SaveEvent(s, e).lost = s.lost
      /\ SaveEvent(s, e).file = s.file
      /\ SaveEvent(s, e).pipe = longer
  <2>1. longer \in Seq(Events)
    BY <1>2 DEF longer
  <2> QED
    BY <1>3, <2>1 DEF Store
<1>5. Pending(SaveEvent(s, e)) = Pending(s) \cup {e}
  BY <1>2, <1>4 DEF Pending, longer
<1>6. StoreOK(SaveEvent(s, e), n \cup {e})
  BY <1>2, <1>4, <1>5 DEF StoreOK, longer
<1> QED
  BY <1>4, <1>5, <1>6

-----------------------------------------------------------------------------
(* The end of a flush keeps the types.                                     *)

(* The null handle is no generation, and generations wrap to generations.  *)
LEMMA GenerationType ==
  /\ NoHandle \notin Generation /\ 0 \in Generation
  /\ \A g \in Generation : NextGeneration(g) \in Generation
  BY LimitsAssumption DEF NoHandle, Generation, NextGeneration

(* A new queue is well formed and not flushing.                            *)
LEMMA NewQueueFacts == NewQueue \in Queue /\ ~NewQueue.flushing
<1>1. AtLeastOne(MaxBatchSize) \in Nat \ {0} /\ AtLeastOne(FlushEventCount) \in Nat \ {0}
  BY LimitsAssumption DEF AtLeastOne
<1>2. <<>> \in Seq(Callbacks)
  OBVIOUS
<1> QED
  BY <1>1, <1>2, GenerationType DEF NewQueue, Queue

(* The end of a flush resets the fields that describe it, and only those.  *)
LEMMA ClosedFacts ==
  ASSUME NEW q \in Queue
  PROVE  /\ Closed(q) \in Queue
         /\ ~Closed(q).flushing /\ Closed(q).generation = q.generation
<1>1. <<>> \in Seq(Callbacks) /\ q.owed \ Called(q.callbacks) \subseteq Callbacks
  BY DEF Queue
<1> QED
  BY <1>1 DEF Queue, Closed

(* The frame that calls the callbacks is a frame, and so is the rest of    *)
(* the interrupted caller.                                                 *)
LEMMA NotifyType ==
  ASSUME NEW result \in Result, NEW cbs \in Seq(Callbacks), NEW tail \in Seq(Frame)
  PROVE  Notify(result, cbs, tail) \in Seq(Frame)
<1>1. CASE cbs = <<>>
  BY <1>1 DEF Notify
<1>2. CASE cbs # <<>>
  <2>1. Tail(cbs) \in Seq(Callbacks)
    BY <1>2
  <2>2. [at |-> "notify", result |-> result, rest |-> Tail(cbs), gen |-> 0] \in Frame
    BY <2>1, GenerationType DEF Frame
  <2> QED
    BY <1>2, <2>2 DEF Notify
<1> QED
  BY <1>1, <1>2

(* SendBatch and Clear can be interrupted by the callbacks they cause.     *)
LEMMA RestType ==
  ASSUME NEW g \in Generation
  PROVE  Rest("sent", g) \in Seq(Frame) /\ Rest("clear", g) \in Seq(Frame)
  BY DEF Rest, Frame, Result

(* A retryable failure keeps the limits positive, and touches neither the  *)
(* generation nor the callbacks.                                           *)
LEMMA RetryStateFacts ==
  ASSUME NEW q \in Queue, NEW status
  PROVE  /\ RetryState(q, status) \in Queue
         /\ RetryState(q, status).generation = q.generation
         /\ RetryState(q, status).callbacks = q.callbacks
<1> DEFINE n == Smaller(q.failures + 1, MaxRetryDelay)
           d == Smaller(n * RetryDelay, MaxRetryDelay)
<1>1. n \in Nat /\ d \in Nat
  <2>1. n \in Nat
    BY LimitsAssumption DEF Queue, Smaller
  <2>2. n * RetryDelay \in Nat
    BY <2>1, LimitsAssumption
  <2> QED
    BY <2>1, <2>2, LimitsAssumption DEF Smaller
<1>2. Halved(q.batchLimit) \in Nat \ {0} /\ Halved(q.flushThreshold) \in Nat \ {0}
  BY DEF Queue, Halved, AtLeastOne
<1> HIDE DEF n, d
<1> QED
  BY <1>1, <1>2 DEF Queue, RetryState, n, d

(* CompleteFlush keeps the types and leaves no flush in progress.          *)
LEMMA CompleteFlushFacts ==
  ASSUME NEW q \in Queue, NEW result \in Result, NEW tail \in Seq(Frame),
         stack \in Seq(Frame), CompleteFlush(q, result, tail)
  PROVE  /\ queue' \in Queue /\ stack' \in Seq(Frame)
         /\ ~queue'.flushing /\ queue'.generation = q.generation
<1>1. queue' \in Queue /\ ~queue'.flushing /\ queue'.generation = q.generation
  BY ClosedFacts DEF CompleteFlush
<1>2. q.callbacks \in Seq(Callbacks)
  BY DEF Queue
<1>3. Notify(result, q.callbacks, tail) \in Seq(Frame)
  BY <1>2, NotifyType
<1> QED
  BY <1>1, <1>3 DEF CompleteFlush

-----------------------------------------------------------------------------
(* One turn of a flush.                                                    *)

(* What holds of the requests and of the frames while no request is open   *)
(* and a flush with the fields q is under way.                             *)
NoneOpen(q, requests) ==
  /\ requests \subseteq Request
  /\ \A r \in requests :
       /\ r.state # "open"
       /\ r.ingested => r.batch \subseteq delivered
       /\ r.state = "cancelled" => r.gen # q.generation

FramesBehind(q) ==
  /\ stack \in Seq(Frame)
  /\ \A i \in DOMAIN stack :
       /\ stack[i].at = "sent" => stack[i].gen # q.generation
       /\ stack[i].at # "clear"

(* A flush that ends with no request open leaves the flight in order.      *)
LEMMA EndFacts ==
  ASSUME NEW q \in Queue, NEW result \in Result, NEW tail \in Seq(Frame),
         NEW requests, NoneOpen(q, requests), stack \in Seq(Frame),
         CompleteFlush(q, result, tail), wire' = requests, delivered' = delivered
  PROVE  FlightOK'
<1>1. /\ queue' \in Queue /\ stack' \in Seq(Frame)
      /\ ~queue'.flushing /\ queue'.generation = q.generation
  BY CompleteFlushFacts
<1>2. wire' \subseteq Request /\ RequestsOK'
  BY <1>1 DEF NoneOpen, RequestsOK
<1>3. FramesOK(stack, queue)'
  BY <1>1 DEF FramesOK
<1>4. OpenRequests' = {}
  BY DEF OpenRequests, NoneOpen
<1>5. SingleActiveRequest' /\ ActiveBatchPersisted'
  BY <1>4 DEF SingleActiveRequest, ActiveBatchPersisted
<1> QED
  BY <1>1, <1>2, <1>3, <1>5 DEF FlightOK

(* Sending a batch whose records are persisted.                            *)
LEMMA SendFacts ==
  ASSUME NEW q \in Queue, q.flushing, q.inFlight = {}, NEW batch \in SUBSET Events,
         NEW requests, NoneOpen(q, requests), FramesBehind(q),
         SendBatch(q, batch, requests), delivered' = delivered,
         \A e \in batch : e \in store'.index /\ store'.file[e] = "whole"
  PROVE  FlightOK'
<1> DEFINE p == [q EXCEPT !.inFlight = @ \cup batch]
           new == [gen |-> p.generation, batch |-> batch,
                   ingested |-> FALSE, state |-> "open"]
<1>1. /\ p \in Queue /\ p.flushing /\ p.generation = q.generation
      /\ p.inFlight = batch /\ q.generation \in Generation
  BY DEF Queue
<1>2. new \in Request /\ ~new.ingested /\ new.state = "open"
  BY <1>1 DEF Request
<1>3. CASE /\ queue' = [p EXCEPT !.handle = p.generation]
           /\ wire' = requests \cup {new}
           /\ UNCHANGED stack
  <2>1. /\ queue' \in Queue /\ queue'.flushing /\ queue'.generation = q.generation
        /\ queue'.inFlight = batch /\ queue'.handle = q.generation
    BY <1>1, <1>3 DEF Queue
  <2>2. wire' \subseteq Request /\ RequestsOK'
    <3> HIDE DEF new
    <3> QED
      BY <1>2, <1>3, <2>1 DEF NoneOpen, RequestsOK
  <2>3. stack' \in Seq(Frame) /\ FramesOK(stack, queue)'
    BY <1>3, <2>1 DEF FramesBehind, FramesOK
  <2>4. OpenRequests' = {new}
    BY <1>3 DEF OpenRequests, NoneOpen
  <2>5. new.gen = q.generation /\ new.batch = batch
    BY <1>1
  <2>6. SingleActiveRequest' /\ ActiveBatchPersisted'
    BY <2>1, <2>4, <2>5 DEF SingleActiveRequest, ActiveBatchPersisted
  <2> QED
    BY <2>1, <2>2, <2>3, <2>6 DEF FlightOK
<1>4. CASE /\ CompleteFlush(RetryState(p, "none"), "Failed", Rest("sent", p.generation))
           /\ wire' = requests
  <2>1. /\ RetryState(p, "none") \in Queue
        /\ RetryState(p, "none").generation = q.generation
    BY <1>1, RetryStateFacts
  <2>2. NoneOpen(RetryState(p, "none"), requests)
    BY <2>1 DEF NoneOpen
  <2>3. Rest("sent", p.generation) \in Seq(Frame)
    BY <1>1, RestType
  <2>4. "Failed" \in Result /\ stack \in Seq(Frame)
    BY DEF Result, FramesBehind
  <2> QED
    BY <1>4, <2>1, <2>2, <2>3, <2>4, EndFacts
<1> QED
  BY <1>3, <1>4 DEF SendBatch

(* A turn keeps the store in order, loses track of no event, and ends      *)
(* with at most the one request it sent.                                   *)
LEMMA ContinueFacts ==
  ASSUME NEW q \in Queue, q.flushing, q.inFlight = {},
         NEW s \in Store, NEW n, StoreOK(s, n),
         NEW requests, NoneOpen(q, requests), FramesBehind(q),
         ContinueFlush(q, s, requests), delivered' = delivered
  PROVE  /\ store' \in Store /\ StoreOK(store', n)
         /\ s.index \cup s.lost \subseteq store'.index \cup store'.lost
         /\ FlightOK'
<1>0. /\ <<>> \in Seq(Frame) /\ stack \in Seq(Frame)
      /\ {"Empty", "Drained", "ProgressBlocked"} \subseteq Result
  BY DEF Result, FramesBehind
<1>1. CASE s.index = {}
  <2>1. PICK result \in Result : CompleteFlush(q, result, <<>>)
    BY <1>0, <1>1 DEF ContinueFlush
  <2>2. store' = s /\ wire' = requests
    BY <1>1 DEF ContinueFlush
  <2>3. FlightOK'
    BY <1>0, <2>1, <2>2, EndFacts
  <2> QED
    BY <2>2, <2>3
<1>2. CASE s.index # {}
  <2>1. PICK failed \in SaveFailures(s), unreadable \in LoadFailures(s),
             stuck \in DeleteFailures(s) :
          \E torn \in SUBSET failed :
            TryBuildNextBatch(q, s, requests, WaitUntilEmpty(s, failed, torn),
                              unreadable, stuck)
    BY <1>2 DEF ContinueFlush
  <2>0. PICK torn \in SUBSET failed :
          TryBuildNextBatch(q, s, requests, WaitUntilEmpty(s, failed, torn),
                            unreadable, stuck)
    BY <2>1
  <2> DEFINE w       == WaitUntilEmpty(s, failed, torn)
             usable  == Usable(s, w, unreadable)
             visited == FirstOf(s.index, usable, q.batchLimit)
             stops   == {e \in visited \ usable : e \notin w.index \/ e \in stuck}
             gone    == {e \in visited \ usable : e \notin stuck
                                                  /\ \A f \in stops : e <= f}
             batch   == visited \cap usable
  <2>2. /\ w \in Store /\ StoreOK(w, n) /\ w.pipe = <<>>
        /\ w.index = s.index \ failed /\ w.lost = s.lost \cup failed
    BY WaitFacts
  <2>3. /\ gone \in SUBSET Events /\ batch \in SUBSET Events
        /\ gone \cap batch = {}
        /\ \A e \in batch : e \in w.index /\ w.file[e] = "whole"
    BY DEF Store, FirstOf, Usable, Loadable
  <2>4. store' = Discard(w, gone)
    BY <2>0 DEF TryBuildNextBatch
  <2>5. \/ CompleteFlush(q, "ProgressBlocked", <<>>) /\ wire' = requests
        \/ CompleteFlush(q, "Drained", <<>>) /\ wire' = requests
        \/ SendBatch(q, batch, requests)
    BY <2>0 DEF TryBuildNextBatch
  <2> HIDE DEF w, usable, visited, stops, batch, gone
  <2>6. /\ store' \in Store /\ StoreOK(store', n)
        /\ s.index \cup s.lost \subseteq store'.index \cup store'.lost
        /\ store'.index = w.index \ gone
        /\ \A e \in Events \ gone : store'.file[e] = w.file[e]
    BY <2>2, <2>3, <2>4, DeleteFacts
  <2>7. CASE SendBatch(q, batch, requests)
    <3>1. \A e \in batch : e \in store'.index /\ store'.file[e] = "whole"
      BY <2>3, <2>6
    <3> QED
      BY <2>3, <2>6, <2>7, <3>1, SendFacts
  <2>8. CASE \E result \in Result : CompleteFlush(q, result, <<>>) /\ wire' = requests
    BY <1>0, <2>6, <2>8, EndFacts
  <2> QED
    BY <1>0, <2>5, <2>7, <2>8
<1> QED
  BY <1>1, <1>2

-----------------------------------------------------------------------------
(* Calls of the program.                                                   *)

(* Persisted(s): the batches in flight are persisted in the store s.       *)
Persisted(s) ==
  \A r \in OpenRequests : \A e \in r.batch : e \in s.index /\ s.file[e] = "whole"

(* The callback a flush calls first is one of those it was given.          *)
LEMMA CalledType ==
  ASSUME NEW cbs \in Seq(Callbacks)
  PROVE  Called(cbs) \subseteq Callbacks
  BY DEF Called

(* Without a flush in progress no request is open.                         *)
LEMMA NotFlushing ==
  ASSUME SingleActiveRequest, ~queue.flushing
  PROVE  OpenRequests = {}
  BY DEF SingleActiveRequest, OpenRequests

(* Flush, whether it coalesces, answers at once or starts.                 *)
LEMMA FlushFacts ==
  ASSUME IInv, CanCall, NEW s \in Store, NEW n, StoreOK(s, n), Persisted(s),
         NEW cbs \in Seq(Callbacks), Flush(s, cbs), delivered' = delivered
  PROVE  /\ store' \in Store /\ StoreOK(store', n)
         /\ s.index \cup s.lost \subseteq store'.index \cup store'.lost
         /\ FlightOK'
<1> USE DEF IInv, FlightOK
<1>0. Called(cbs) \subseteq Callbacks
  BY CalledType
<1>1. CASE queue.flushing
  <2>1. /\ store' = s /\ UNCHANGED <<stack, wire>>
        /\ queue' = [queue EXCEPT !.callbacks = @ \o cbs, !.owed = @ \cup Called(cbs)]
    BY <1>1 DEF Flush
  <2>2. queue.callbacks \o cbs \in Seq(Callbacks)
    BY DEF Queue
  <2>3. /\ queue' \in Queue /\ queue'.flushing /\ queue'.generation = queue.generation
        /\ queue'.handle = queue.handle /\ queue'.inFlight = queue.inFlight
    BY <1>0, <1>1, <2>1, <2>2 DEF Queue
  <2>4. RequestsOK' /\ FramesOK(stack, queue)'
    BY <1>1, <2>1, <2>3 DEF RequestsOK, FramesOK
  <2>5. OpenRequests' = OpenRequests
    BY <2>1 DEF OpenRequests
  <2>6. SingleActiveRequest' /\ ActiveBatchPersisted'
    BY <2>1, <2>3, <2>5 DEF SingleActiveRequest, ActiveBatchPersisted, Persisted
  <2> QED
    BY <2>1, <2>3, <2>4, <2>6
<1>2. CASE /\ ~queue.flushing
           /\ \E result \in Result : Answer(s, result, cbs)
  <2>1. PICK result \in Result : Answer(s, result, cbs)
    BY <1>2
  <2>2. Notify(result, cbs, <<>>) \in Seq(Frame)
    <3>1. <<>> \in Seq(Frame)
      OBVIOUS
    <3> QED
      BY <3>1, NotifyType
  <2>3. /\ store' = s /\ queue' = queue /\ wire' = wire
        /\ stack' \in Seq(Frame)
    BY <2>1, <2>2 DEF Answer
  <2>4. RequestsOK' /\ FramesOK(stack, queue)'
    BY <1>2, <2>3 DEF RequestsOK, FramesOK
  <2>5. OpenRequests' = {}
    BY <1>2, <2>3, NotFlushing DEF OpenRequests
  <2>6. SingleActiveRequest' /\ ActiveBatchPersisted'
    BY <2>5 DEF SingleActiveRequest, ActiveBatchPersisted
  <2> QED
    BY <2>3, <2>4, <2>6
<1>3. CASE /\ ~queue.flushing
           /\ ~\E result \in Result : Answer(s, result, cbs)
  <2> DEFINE q == Started(s, cbs)
  <2>1. GenerationFree /\ ContinueFlush(q, s, wire)
    BY <1>3 DEF Flush, Result
  <2>2. queue.callbacks \o cbs \in Seq(Callbacks) /\ NextGeneration(queue.generation) \in Generation
    BY GenerationType DEF Queue
  <2>3. /\ q \in Queue /\ q.flushing /\ q.inFlight = {}
        /\ q.generation = NextGeneration(queue.generation)
    BY <1>0, <2>2 DEF Queue, Started
  <2>4. NoneOpen(q, wire)
    <3>1. \A r \in wire : r.state # "open"
      BY <1>3, NotFlushing DEF OpenRequests
    <3>2. \A r \in wire : r.state = "cancelled" => r.gen # q.generation
      BY <2>1, <2>3 DEF GenerationFree
    <3> QED
      BY <3>1, <3>2 DEF NoneOpen, RequestsOK
  <2>5. FramesBehind(q)
    <3>1. \A i \in DOMAIN stack : stack[i].at # "clear"
      BY DEF CanCall, Frames
    <3>2. \A i \in DOMAIN stack : stack[i].at = "sent" => stack[i].gen # q.generation
      BY <2>1, <2>3 DEF GenerationFree
    <3> QED
      BY <3>1, <3>2 DEF FramesBehind
  <2> HIDE DEF q
  <2> QED
    BY <2>1, <2>3, <2>4, <2>5, ContinueFacts
<1> QED
  BY <1>1, <1>2, <1>3

(* An event that leaves the index has been delivered or given up.          *)
LEMMA AccountFacts ==
  ASSUME NothingLostSilently, delivered \subseteq delivered',
         store.index \cup store.lost \subseteq
           store'.index \cup store'.lost \cup delivered',
         accepted' \subseteq accepted \cup store'.index \cup store'.lost
  PROVE  NothingLostSilently'
  BY DEF NothingLostSilently

(* ActiveBatchPersisted says that the batches in flight are persisted in   *)
(* the current store.                                                      *)
LEMMA PersistedFacts ==
  ASSUME IInv
  PROVE  Persisted(store)
  BY DEF IInv, FlightOK, Persisted, ActiveBatchPersisted

(* A flush requested from the game loop or from a callback.                *)
LEMMA RequestFlushStep ==
  ASSUME IInv, RequestFlush PROVE IInv'
<1>1. PICK cbs \in Seq(Callbacks) : Flush(store, cbs)
  <2>1. <<>> \in Seq(Callbacks) /\ \A c \in Callbacks : <<c>> \in Seq(Callbacks)
    OBVIOUS
  <2>2. Flush(store, <<>>) \/ \E c \in Callbacks : Flush(store, <<c>>)
    BY DEF RequestFlush
  <2> QED
    BY <2>1, <2>2
<1>2. CanCall /\ UNCHANGED <<accepted, late, delivered, online>>
  BY DEF RequestFlush
<1>3. /\ store' \in Store /\ StoreOK(store', accepted)
      /\ store.index \cup store.lost \subseteq store'.index \cup store'.lost
      /\ FlightOK'
  BY <1>1, <1>2, FlushFacts, PersistedFacts DEF IInv, TypeOK
<1>4. NothingLostSilently'
  BY <1>2, <1>3, AccountFacts DEF IInv
<1> QED
  BY <1>2, <1>3, <1>4 DEF IInv, TypeOK, FlightOK

(* A step that keeps the queue, the requests and the frames.               *)
LEMMA QuietFacts ==
  ASSUME IInv, UNCHANGED <<queue, stack, wire, delivered>>, Persisted(store')
  PROVE  FlightOK'
<1> USE DEF IInv, FlightOK
<1>1. OpenRequests' = OpenRequests
  BY DEF OpenRequests
<1>2. SingleActiveRequest' /\ ActiveBatchPersisted'
  BY <1>1 DEF SingleActiveRequest, ActiveBatchPersisted, Persisted
<1>3. RequestsOK' /\ FramesOK(stack, queue)'
  BY DEF RequestsOK, FramesOK
<1> QED
  BY <1>2, <1>3

(* Accepting the next event into a store that accounts for the old ones.   *)
LEMMA AcceptFacts ==
  ASSUME IInv, CanCall, NEW e \in NewIds, UNCHANGED <<delivered, online>>,
         NEW s \in Store, StoreOK(s, accepted), Persisted(s),
         store.index \cup store.lost \subseteq s.index \cup s.lost,
         Accept(s, e)
  PROVE  IInv'
<1> DEFINE added == SaveEvent(s, e)
<1>0. e \in Events \ accepted
  BY DEF NewIds, Earliest
<1>1. /\ added \in Store /\ StoreOK(added, accepted \cup {e})
      /\ added.index = s.index \cup {e} /\ added.lost = s.lost
      /\ Persisted(added)
  <2>1. /\ added \in Store /\ StoreOK(added, accepted \cup {e})
        /\ added.index = s.index \cup {e} /\ added.lost = s.lost
        /\ added.file = s.file
    BY <1>0, SaveFacts
  <2> HIDE DEF added
  <2> QED
    BY <2>1 DEF Persisted
<1>2. /\ accepted' = accepted \cup {e} /\ late' \subseteq late \cup {e}
      /\ accepted' \subseteq Events /\ late' \subseteq accepted'
      /\ IsFiniteSet(accepted')
  BY <1>0, FS_AddElement DEF Accept, IInv, TypeOK
<1> HIDE DEF added
<1>3. /\ store' \in Store /\ StoreOK(store', accepted')
      /\ added.index \cup added.lost \subseteq store'.index \cup store'.lost
      /\ FlightOK'
  <2>1. CASE Flush(added, <<>>)
    <3>1. <<>> \in Seq(Callbacks)
      OBVIOUS
    <3> QED
      BY <1>1, <1>2, <2>1, <3>1, FlushFacts
  <2>2. CASE store' = added /\ UNCHANGED <<queue, stack, wire>>
    BY <1>1, <1>2, <2>2, QuietFacts DEF IInv
  <2> QED
    BY <2>1, <2>2 DEF Accept, added
<1>4. NothingLostSilently'
  BY <1>1, <1>2, <1>3, AccountFacts DEF IInv
<1> QED
  BY <1>2, <1>3, <1>4 DEF IInv, TypeOK, FlightOK

(* Eviction spares the records in flight.                                  *)
LEMMA EnqueueStep ==
  ASSUME IInv, Enqueue PROVE IInv'
<1>1. CanCall /\ UNCHANGED <<delivered, online>>
  BY DEF Enqueue
<1>0. PICK e \in NewIds :
        \/ Accept(store, e)
        \/ \E failed \in SaveFailures(store), stuck \in DeleteFailures(store) :
           \E torn \in SUBSET failed :
             EvictThenAccept(WaitUntilEmpty(store, failed, torn), stuck, e)
  BY DEF Enqueue
<1>2. CASE Accept(store, e)
  BY <1>1, <1>2, AcceptFacts, PersistedFacts DEF IInv, TypeOK
<1>3. CASE \E failed \in SaveFailures(store), stuck \in DeleteFailures(store) :
           \E torn \in SUBSET failed :
             EvictThenAccept(WaitUntilEmpty(store, failed, torn), stuck, e)
  <2>1. PICK failed \in SaveFailures(store), stuck \in DeleteFailures(store) :
          \E torn \in SUBSET failed :
            EvictThenAccept(WaitUntilEmpty(store, failed, torn), stuck, e)
    BY <1>3
  <2>2. PICK torn \in SUBSET failed :
          EvictThenAccept(WaitUntilEmpty(store, failed, torn), stuck, e)
    BY <2>1
  <2> DEFINE w          == WaitUntilEmpty(store, failed, torn)
             oldest     == Earliest(store.index \ queue.inFlight)
             candidates == oldest \cup (w.index \ queue.inFlight)
             older(x)   == {f \in candidates : f < x}
             tried      == {x \in candidates :
                              \/ x \in oldest
                              \/ Cardinality(w.index \ older(x)) >= Capacity}
             evicted    == {x \in tried : \A f \in tried \cap stuck : x < f}
             left       == Discard(w, evicted)
  <2>3. \/ Accept(left, e)
        \/ store' = left /\ UNCHANGED <<accepted, late, queue, stack, wire>>
    BY <2>2 DEF EvictThenAccept
  <2>4. /\ w \in Store /\ StoreOK(w, accepted) /\ w.pipe = <<>>
        /\ w.index = store.index \ failed /\ w.lost = store.lost \cup failed
        /\ failed \subseteq Pending(store)
        /\ \A x \in Events \ Pending(store) : w.file[x] = store.file[x]
    BY WaitFacts DEF IInv, TypeOK
  <2>5. evicted \in SUBSET Events /\ evicted \cap queue.inFlight = {}
    BY <2>4 DEF Earliest, Store, IInv, TypeOK
  <2> HIDE DEF w, evicted
  <2>6. /\ left \in Store /\ StoreOK(left, accepted)
        /\ left.index = w.index \ evicted /\ left.lost = w.lost \cup evicted
        /\ \A x \in Events \ evicted : left.file[x] = w.file[x]
    BY <2>4, <2>5, DeleteFacts
  <2>7. store.index \cup store.lost \subseteq left.index \cup left.lost
    BY <2>4, <2>6
  <2> HIDE DEF left
  <2>8. Persisted(left)
    <3> SUFFICES ASSUME NEW r \in OpenRequests, NEW x \in r.batch
                 PROVE  x \in left.index /\ left.file[x] = "whole"
      BY DEF Persisted
    <3>1. x \in store.index /\ store.file[x] = "whole" /\ x \in Events
      BY DEF IInv, FlightOK, ActiveBatchPersisted, TypeOK, Store
    <3>2. x \notin Pending(store)
      BY <3>1 DEF IInv, StoreOK
    <3>3. x \in queue.inFlight
      BY DEF IInv, FlightOK, SingleActiveRequest
    <3> QED
      BY <2>4, <2>5, <2>6, <3>1, <3>2, <3>3
  <2>9. CASE Accept(left, e)
    BY <1>1, <2>6, <2>7, <2>8, <2>9, AcceptFacts
  <2>10. CASE store' = left /\ UNCHANGED <<accepted, late, queue, stack, wire>>
    <3>1. FlightOK'
      BY <1>1, <2>8, <2>10, QuietFacts
    <3>2. NothingLostSilently'
      BY <1>1, <2>7, <2>10, AccountFacts DEF IInv
    <3> QED
      BY <1>1, <2>6, <2>10, <3>1, <3>2 DEF IInv, TypeOK
  <2> QED
    BY <2>3, <2>9, <2>10
<1> QED
  BY <1>0, <1>2, <1>3

(* Clearing the storage gives up what it deletes, and changes nothing      *)
(* else.                                                                   *)
LEMMA ClearStorageFacts ==
  ASSUME IInv, ClearStorage
  PROVE  /\ store' \in Store /\ StoreOK(store', accepted)
         /\ store.index \cup store.lost \subseteq store'.index \cup store'.lost
<1>1. PICK failed \in SaveFailures(store), stuck \in DeleteFailures(store) :
        \E torn \in SUBSET failed :
          store' = ClearEvents(WaitUntilEmpty(store, failed, torn), stuck)
  BY DEF ClearStorage
<1>2. PICK torn \in SUBSET failed :
        store' = ClearEvents(WaitUntilEmpty(store, failed, torn), stuck)
  BY <1>1
<1> DEFINE w == WaitUntilEmpty(store, failed, torn)
<1>3. /\ w \in Store /\ StoreOK(w, accepted) /\ w.pipe = <<>>
      /\ w.index = store.index \ failed /\ w.lost = store.lost \cup failed
  BY WaitFacts DEF IInv, TypeOK
<1> HIDE DEF w
<1>4. w.index \ stuck \in SUBSET Events
  BY <1>3 DEF Store
<1>5. store' = Discard(w, w.index \ stuck)
  BY <1>2 DEF ClearEvents, w
<1> QED
  BY <1>3, <1>4, <1>5, DeleteFacts

(* Cancelling leaves no request open, whatever is still to be done.        *)
LEMMA CancelFacts ==
  ASSUME IInv, NEW tail \in Seq(Frame), CancelThen(tail), delivered' = delivered
  PROVE  FlightOK'
<1> DEFINE q == [queue EXCEPT !.generation = NextGeneration(@)]
<1> USE DEF IInv, FlightOK
<1>1. /\ q \in Queue /\ q.generation = NextGeneration(queue.generation)
  BY GenerationType DEF Queue
<1>2. /\ GenerationFree /\ wire' = Cancelled(wire, queue.handle)
      /\ CompleteFlush(q, "Cancelled", tail)
  BY DEF CancelThen
<1> HIDE DEF q
<1>3. NoneOpen(q, wire')
  <2> SUFFICES ASSUME NEW r \in wire'
               PROVE  /\ r \in Request /\ r.state # "open"
                      /\ r.ingested => r.batch \subseteq delivered
                      /\ r.state = "cancelled" => r.gen # q.generation
    BY DEF NoneOpen
  <2>1. PICK x \in wire : r = IF x.state = "open" /\ x.gen = queue.handle
                              THEN [x EXCEPT !.state = "cancelled"] ELSE x
    BY <1>2 DEF Cancelled
  <2>2. x.state = "open" => x.gen = queue.handle
    BY DEF SingleActiveRequest, OpenRequests
  <2>3. /\ x \in Request /\ x.ingested => x.batch \subseteq delivered
        /\ x.state # "orphan" => x.gen # q.generation
    BY <1>1, <1>2 DEF RequestsOK, GenerationFree
  <2>4. CASE x.state = "open"
    BY <2>1, <2>2, <2>3, <2>4 DEF Request, RequestsOK
  <2>5. CASE x.state # "open"
    BY <2>1, <2>3, <2>5 DEF Request, RequestsOK
  <2> QED
    BY <2>4, <2>5
<1>4. "Cancelled" \in Result
  BY DEF Result
<1> QED
  BY <1>1, <1>2, <1>3, <1>4, EndFacts

(* CancelInFlightRequest: the open request is cancelled and its flush      *)
(* ends.                                                                   *)
LEMMA CancelStep ==
  ASSUME IInv, CancelInFlightRequest PROVE IInv'
<1>1. CancelThen(<<>>) /\ UNCHANGED <<store, accepted, late, delivered, online>>
  BY DEF CancelInFlightRequest
<1>2. <<>> \in Seq(Frame)
  OBVIOUS
<1>3. FlightOK'
  BY <1>1, <1>2, CancelFacts
<1>4. NothingLostSilently'
  BY <1>1 DEF IInv, NothingLostSilently
<1> QED
  BY <1>1, <1>3, <1>4 DEF IInv, TypeOK, FlightOK

(* Clear cancels first: the records of an open batch are deleted only      *)
(* once no request is open.                                                *)
LEMMA ClearStep ==
  ASSUME IInv, Clear PROVE IInv'
<1> USE DEF IInv
<1>1. UNCHANGED <<accepted, late, delivered, online>>
  BY DEF Clear
<1>2. /\ store' \in Store /\ StoreOK(store', accepted)
      /\ store.index \cup store.lost \subseteq store'.index \cup store'.lost
  <2>1. ClearStorage \/ UNCHANGED store
    BY DEF Clear
  <2> QED
    BY <2>1, ClearStorageFacts DEF TypeOK
<1>3. NothingLostSilently'
  BY <1>1, <1>2, AccountFacts
<1>4. FlightOK'
  <2>1. CASE CancelThen(Rest("clear", 0))
    BY <1>1, <2>1, CancelFacts, RestType, GenerationType
  <2>2. CASE ~queue.flushing /\ UNCHANGED <<queue, stack, wire>>
    <3>1. OpenRequests = {}
      BY <2>2, NotFlushing DEF FlightOK
    <3>2. Persisted(store')
      BY <3>1 DEF Persisted
    <3> QED
      BY <1>1, <2>2, <3>2, QuietFacts
  <2> QED
    BY <2>1, <2>2 DEF Clear
<1> QED
  BY <1>1, <1>2, <1>3, <1>4 DEF TypeOK, FlightOK

-----------------------------------------------------------------------------
(* The game thread returns from a frame.                                   *)

(* Popping a frame and pushing notify frames keeps the frames in order.    *)
LEMMA PopFacts ==
  ASSUME IInv, stack # <<>>, stack' = Tail(stack),
         queue' \in Queue, queue'.flushing = queue.flushing,
         queue'.generation = queue.generation
  PROVE  stack' \in Seq(Frame) /\ FramesOK(stack, queue)'
<1>1. stack \in Seq(Frame)
  BY DEF IInv, TypeOK
<1>2. /\ stack' \in Seq(Frame)
      /\ \A i \in DOMAIN stack' : i + 1 \in DOMAIN stack /\ stack'[i] = stack[i + 1]
  BY <1>1
<1> QED
  BY <1>2 DEF IInv, FlightOK, FramesOK

(* Calling the next callback changes only what the callbacks are owed.     *)
LEMMA CallNextStep ==
  ASSUME IInv, CallNext PROVE IInv'
<1> USE DEF IInv
<1> DEFINE left == Head(stack).rest
           result == Head(stack).result
<1>1. /\ stack # <<>> /\ Head(stack).at = "notify"
      /\ stack' = Notify(result, left, <<>>) \o Tail(stack)
      /\ queue' = [queue EXCEPT !.owed = @ \ Called(left)]
      /\ UNCHANGED <<store, accepted, late, wire, delivered, online>>
  BY DEF CallNext
<1>2. stack \in Seq(Frame) /\ Head(stack) \in Frame /\ Head(stack) = stack[1]
  BY <1>1 DEF TypeOK
<1>3. left \in Seq(Callbacks) /\ result \in Result
  BY <1>2 DEF Frame
<1> HIDE DEF left, result
<1>4. /\ queue' \in Queue /\ queue'.flushing = queue.flushing
      /\ queue'.generation = queue.generation /\ queue'.handle = queue.handle
      /\ queue'.inFlight = queue.inFlight
  BY <1>1 DEF TypeOK, Queue
<1>5. stack' \in Seq(Frame) /\ FramesOK(stack, queue)'
  <2>1. CASE left = <<>>
    <3>1. stack' = Tail(stack)
      BY <1>1, <1>2, <2>1 DEF Notify
    <3> QED
      BY <1>1, <1>4, <3>1, PopFacts
  <2>2. CASE left # <<>>
    <3> DEFINE f == [at |-> "notify", result |-> result, rest |-> Tail(left), gen |-> 0]
    <3>1. f \in Frame /\ f.at = "notify"
      BY <1>3, <2>2, GenerationType DEF Frame
    <3>2. stack' = (<<f>> \o <<>>) \o Tail(stack)
      BY <1>1, <2>2 DEF Notify
    <3> HIDE DEF f
    <3>3. /\ stack' \in Seq(Frame) /\ DOMAIN stack' = DOMAIN stack
          /\ \A i \in DOMAIN stack' : stack'[i] = IF i = 1 THEN f ELSE stack[i]
      <4> DEFINE t == Tail(stack)
      <4>1. /\ t \in Seq(Frame) /\ Len(t) = Len(stack) - 1
            /\ \A i \in 1 .. Len(t) : t[i] = stack[i + 1]
            /\ Len(stack) \in Nat /\ Len(stack) > 0
        BY <1>1, <1>2
      <4> HIDE DEF t
      <4>2. stack' = (<<f>> \o <<>>) \o t
        BY <3>2 DEF t
      <4>3. <<f>> \o <<>> = <<f>>
        OBVIOUS
      <4>4. stack' = <<f>> \o t
        BY <4>2, <4>3
      <4>5. /\ stack' \in Seq(Frame) /\ Len(stack') = 1 + Len(t)
            /\ \A i \in 1 .. 1 + Len(t) : stack'[i] = IF i = 1 THEN f ELSE t[i - 1]
        BY <3>1, <4>1, <4>4
      <4> QED
        BY <1>2, <4>1, <4>5
    <3> QED
      BY <1>4, <3>1, <3>3 DEF FlightOK, FramesOK
  <2> QED
    BY <2>1, <2>2
<1>6. OpenRequests' = OpenRequests
  BY <1>1 DEF OpenRequests
<1>7. SingleActiveRequest' /\ ActiveBatchPersisted' /\ RequestsOK'
  BY <1>1, <1>4, <1>6 DEF SingleActiveRequest, ActiveBatchPersisted, RequestsOK, FlightOK
<1>8. NothingLostSilently'
  BY <1>1 DEF NothingLostSilently
<1> QED
  BY <1>1, <1>4, <1>5, <1>7, <1>8 DEF TypeOK, FlightOK

(* The flush SendBatch belonged to is over, so it leaves the queue alone.  *)
LEMMA ReturnToSendBatchStep ==
  ASSUME IInv, ReturnToSendBatch PROVE IInv'
<1> USE DEF IInv
<1>1. /\ stack # <<>> /\ Head(stack).at = "sent"
      /\ UNCHANGED <<store, accepted, late, wire, delivered, online>>
  BY DEF ReturnToSendBatch
<1>2. 1 \in DOMAIN stack /\ Head(stack) = stack[1]
  BY <1>1 DEF TypeOK
<1>3. ~(queue.flushing /\ queue.generation = Head(stack).gen)
  BY <1>1, <1>2 DEF FlightOK, FramesOK
<1>4. stack' = Tail(stack) /\ UNCHANGED queue
  BY <1>3 DEF ReturnToSendBatch
<1>5. stack' \in Seq(Frame) /\ FramesOK(stack, queue)'
  BY <1>1, <1>4, PopFacts DEF TypeOK
<1>6. OpenRequests' = OpenRequests
  BY <1>1 DEF OpenRequests
<1>7. SingleActiveRequest' /\ ActiveBatchPersisted' /\ RequestsOK'
  BY <1>1, <1>4, <1>6 DEF SingleActiveRequest, ActiveBatchPersisted, RequestsOK, FlightOK
<1>8. NothingLostSilently'
  BY <1>1 DEF NothingLostSilently
<1> QED
  BY <1>1, <1>4, <1>5, <1>7, <1>8 DEF TypeOK, FlightOK

(* No flush can have started while Clear was waiting.                      *)
LEMMA ReturnToClearStep ==
  ASSUME IInv, ReturnToClear PROVE IInv'
<1> USE DEF IInv
<1>1. /\ stack # <<>> /\ Head(stack).at = "clear" /\ stack' = Tail(stack)
      /\ ClearStorage /\ UNCHANGED <<accepted, late, queue, wire, delivered, online>>
  BY DEF ReturnToClear
<1>2. 1 \in DOMAIN stack /\ Head(stack) = stack[1]
  BY <1>1 DEF TypeOK
<1>3. ~queue.flushing
  BY <1>1, <1>2 DEF FlightOK, FramesOK
<1>4. OpenRequests' = {}
  BY <1>1, <1>3, NotFlushing DEF FlightOK, OpenRequests
<1>5. stack' \in Seq(Frame) /\ FramesOK(stack, queue)'
  BY <1>1, PopFacts DEF TypeOK
<1>6. SingleActiveRequest' /\ ActiveBatchPersisted' /\ RequestsOK'
  BY <1>1, <1>4 DEF SingleActiveRequest, ActiveBatchPersisted, RequestsOK, FlightOK
<1>7. /\ store' \in Store /\ StoreOK(store', accepted)
      /\ store.index \cup store.lost \subseteq store'.index \cup store'.lost
  BY <1>1, ClearStorageFacts
<1>8. NothingLostSilently'
  BY <1>1, <1>7, AccountFacts
<1> QED
  BY <1>1, <1>5, <1>6, <1>7, <1>8 DEF TypeOK, FlightOK

-----------------------------------------------------------------------------
(* The outcome of a request.                                               *)

(* After an answer the pipe is drained, and only records of the batch are  *)
(* about to be deleted.                                                    *)
LEMMA SentRecordsFacts ==
  ASSUME IInv, NEW batch \in SUBSET Events,
         NEW failed \in SaveFailures(store), NEW torn \in SUBSET failed, NEW stuck
  PROVE  LET sent == SentRecords(store, batch, failed, torn, stuck)
         IN  /\ sent.store \in Store /\ StoreOK(sent.store, accepted)
             /\ sent.store.pipe = <<>>
             /\ store.index \cup store.lost \subseteq sent.store.index \cup sent.store.lost
             /\ sent.gone \in SUBSET Events /\ sent.gone \subseteq batch
<1> DEFINE w == WaitUntilEmpty(store, failed, torn)
<1>1. /\ w \in Store /\ StoreOK(w, accepted) /\ w.pipe = <<>>
      /\ w.index = store.index \ failed /\ w.lost = store.lost \cup failed
  BY WaitFacts DEF IInv, TypeOK
<1> HIDE DEF w
<1>2. SentRecords(store, batch, failed, torn, stuck).store = w
  BY DEF SentRecords, w
<1> QED
  BY <1>1, <1>2 DEF SentRecords

(* The answer to the open request, which is the flush's own.               *)
LEMMA AnswerStep ==
  ASSUME IInv, NEW r \in wire, r.state = "open", NEW status, stack = <<>>,
         status = "success" => r.ingested,
         HandleBatchComplete(r, status), UNCHANGED <<accepted, late, delivered, online>>
  PROVE  IInv'
<1> DEFINE q        == [queue EXCEPT !.handle = NoHandle, !.inFlight = @ \ r.batch]
           requests == wire \ {r}
<1> USE DEF IInv
<1>1. /\ r \in Request /\ r \in OpenRequests /\ queue.flushing
      /\ queue.generation = r.gen /\ queue.inFlight = r.batch
  BY DEF TypeOK, OpenRequests, FlightOK, SingleActiveRequest
<1>2. /\ q \in Queue /\ q.flushing /\ q.inFlight = {} /\ q.generation = queue.generation
  BY <1>1 DEF TypeOK, Queue
<1>3. NoneOpen(q, requests)
  <2>1. \A x \in requests : x.state # "open"
    BY <1>1 DEF OpenRequests, FlightOK, SingleActiveRequest
  <2> QED
    BY <1>2, <2>1 DEF NoneOpen, FlightOK, RequestsOK, TypeOK
<1>4. FramesBehind(q)
  BY DEF FramesBehind, TypeOK
<1>5. /\ <<>> \in Seq(Frame) /\ stack \in Seq(Frame)
      /\ {"Failed", "ProgressBlocked"} \subseteq Result /\ r.batch \in SUBSET Events
  BY <1>1 DEF Result, TypeOK, Request
<1>6. \/ status = "success" /\ HandleSuccess(q, r.batch, requests)
      \/ HandleRejection(q, r.batch, requests)
      \/ HandleRetryable(q, status, requests)
  BY <1>1 DEF HandleBatchComplete
<1> HIDE DEF q, requests
<1>7. CASE status = "success" /\ HandleSuccess(q, r.batch, requests)
  <2>1. PICK failed \in SaveFailures(store), stuck \in DeleteFailures(store) :
          \E torn \in SUBSET failed :
            LET sent == SentRecords(store, r.batch, failed, torn, stuck)
                left == DeleteEvents(sent.store, sent.gone)
                p    == [q EXCEPT !.failures = 0, !.pause = 0]
            IN  \/ /\ store' = left
                   /\ CompleteFlush(p, "ProgressBlocked", <<>>)
                   /\ wire' = requests
                \/ ContinueFlush(p, left, requests)
    BY <1>7 DEF HandleSuccess
  <2>2. PICK torn \in SUBSET failed :
            LET sent == SentRecords(store, r.batch, failed, torn, stuck)
                left == DeleteEvents(sent.store, sent.gone)
                p    == [q EXCEPT !.failures = 0, !.pause = 0]
            IN  \/ /\ store' = left
                   /\ CompleteFlush(p, "ProgressBlocked", <<>>)
                   /\ wire' = requests
                \/ ContinueFlush(p, left, requests)
    BY <2>1
  <2> DEFINE sent == SentRecords(store, r.batch, failed, torn, stuck)
             left == DeleteEvents(sent.store, sent.gone)
             p    == [q EXCEPT !.failures = 0, !.pause = 0]
  <2>3. /\ sent.store \in Store /\ StoreOK(sent.store, accepted)
        /\ sent.store.pipe = <<>>
        /\ store.index \cup store.lost \subseteq sent.store.index \cup sent.store.lost
        /\ sent.gone \in SUBSET Events /\ sent.gone \subseteq r.batch
    BY <1>5, SentRecordsFacts
  <2>4. /\ p \in Queue /\ p.flushing /\ p.inFlight = {} /\ p.generation = q.generation
    BY <1>2 DEF Queue
  <2>5. \/ /\ store' = left
           /\ CompleteFlush(p, "ProgressBlocked", <<>>)
           /\ wire' = requests
        \/ ContinueFlush(p, left, requests)
    BY <2>2
  <2> HIDE DEF sent, p
  <2>6. /\ left \in Store /\ StoreOK(left, accepted)
        /\ left.index = sent.store.index \ sent.gone /\ left.lost = sent.store.lost
    BY <2>3, DeleteFacts
  <2> HIDE DEF left
  <2>7. r.batch \subseteq delivered
    BY <1>7 DEF FlightOK, RequestsOK
  <2>8. NoneOpen(p, requests) /\ FramesBehind(p)
    BY <1>3, <1>4, <2>4 DEF NoneOpen, FramesBehind
  <2>9. /\ store' \in Store /\ StoreOK(store', accepted)
        /\ left.index \cup left.lost \subseteq store'.index \cup store'.lost
        /\ FlightOK'
    <3>1. CASE /\ store' = left
               /\ CompleteFlush(p, "ProgressBlocked", <<>>)
               /\ wire' = requests
      BY <1>5, <2>4, <2>6, <2>8, <3>1, EndFacts
    <3>2. CASE ContinueFlush(p, left, requests)
      BY <2>4, <2>6, <2>8, <3>2, ContinueFacts
    <3> QED
      BY <2>5, <3>1, <3>2
  <2>10. NothingLostSilently'
    BY <2>3, <2>6, <2>7, <2>9, AccountFacts
  <2> QED
    BY <2>9, <2>10 DEF TypeOK, FlightOK
<1>8. CASE HandleRejection(q, r.batch, requests)
  <2>1. PICK failed \in SaveFailures(store), stuck \in DeleteFailures(store) :
          \E torn \in SUBSET failed :
            LET sent == SentRecords(store, r.batch, failed, torn, stuck)
            IN  /\ store' = Discard(sent.store, sent.gone)
                /\ CompleteFlush(q, "Failed", <<>>)
                /\ wire' = requests
    BY <1>8 DEF HandleRejection
  <2>2. PICK torn \in SUBSET failed :
            LET sent == SentRecords(store, r.batch, failed, torn, stuck)
            IN  /\ store' = Discard(sent.store, sent.gone)
                /\ CompleteFlush(q, "Failed", <<>>)
                /\ wire' = requests
    BY <2>1
  <2> DEFINE sent == SentRecords(store, r.batch, failed, torn, stuck)
  <2>3. /\ sent.store \in Store /\ StoreOK(sent.store, accepted)
        /\ sent.store.pipe = <<>>
        /\ store.index \cup store.lost \subseteq sent.store.index \cup sent.store.lost
        /\ sent.gone \in SUBSET Events /\ sent.gone \subseteq r.batch
    BY <1>5, SentRecordsFacts
  <2>4. /\ store' = Discard(sent.store, sent.gone)
        /\ CompleteFlush(q, "Failed", <<>>) /\ wire' = requests
    BY <2>2
  <2> HIDE DEF sent
  <2>5. /\ store' \in Store /\ StoreOK(store', accepted)
        /\ store.index \cup store.lost \subseteq store'.index \cup store'.lost
    BY <2>3, <2>4, DeleteFacts
  <2>6. FlightOK'
    BY <1>2, <1>3, <1>5, <2>4, EndFacts
  <2>7. NothingLostSilently'
    BY <2>5, AccountFacts
  <2> QED
    BY <2>5, <2>6, <2>7 DEF TypeOK, FlightOK
<1>9. CASE HandleRetryable(q, status, requests)
  <2>1. /\ CompleteFlush(RetryState(q, status), "Failed", <<>>)
        /\ wire' = requests /\ UNCHANGED store
    BY <1>9 DEF HandleRetryable
  <2>2. /\ RetryState(q, status) \in Queue
        /\ RetryState(q, status).generation = q.generation
    BY <1>2, RetryStateFacts
  <2>3. NoneOpen(RetryState(q, status), requests)
    BY <1>3, <2>2 DEF NoneOpen
  <2>4. FlightOK'
    BY <1>5, <2>1, <2>2, <2>3, EndFacts
  <2>5. NothingLostSilently'
    BY <2>1 DEF NothingLostSilently
  <2> QED
    BY <2>1, <2>4, <2>5 DEF TypeOK, FlightOK
<1> QED
  BY <1>6, <1>7, <1>8, <1>9

(* A late completion of a cancelled request belongs to another generation. *)
LEMMA RequestCompleteStep ==
  ASSUME IInv, NEW r \in wire, NEW status, RequestComplete(r, status) PROVE IInv'
<1>1. /\ stack = <<>> /\ UNCHANGED <<accepted, late, delivered, online>>
      /\ status = "success" => r.ingested
      /\ HandleBatchComplete(r, status)
      /\ r.state \in {"open", "cancelled"}
  BY DEF RequestComplete
<1>2. CASE r.state = "open"
  BY <1>1, <1>2, AnswerStep
<1>3. CASE r.state = "cancelled"
  <2> USE DEF IInv
  <2>1. queue.generation # r.gen
    BY <1>3 DEF FlightOK, RequestsOK
  <2>2. wire' = wire \ {r} /\ UNCHANGED <<store, queue, stack>>
    BY <1>1, <2>1 DEF HandleBatchComplete
  <2>3. OpenRequests' = OpenRequests
    BY <1>3, <2>2 DEF OpenRequests
  <2>4. SingleActiveRequest' /\ ActiveBatchPersisted'
    BY <2>2, <2>3 DEF SingleActiveRequest, ActiveBatchPersisted, FlightOK
  <2>5. RequestsOK' /\ FramesOK(stack, queue)'
    BY <1>1, <2>2 DEF RequestsOK, FramesOK, FlightOK
  <2>6. NothingLostSilently'
    BY <1>1, <2>2 DEF NothingLostSilently
  <2> QED
    BY <1>1, <2>2, <2>4, <2>5, <2>6 DEF TypeOK, FlightOK
<1> QED
  BY <1>1, <1>2, <1>3

-----------------------------------------------------------------------------
(* The world around the game thread.                                       *)

(* What the server ingests was in no other place it could get lost from.   *)
LEMMA ServerIngestsStep ==
  ASSUME IInv, NEW r \in wire, ServerIngests(r) PROVE IInv'
<1> DEFINE a == [r EXCEPT !.ingested = TRUE]
<1> USE DEF IInv
<1>1. /\ wire' = (wire \ {r}) \cup {a}
      /\ delivered' = delivered \cup r.batch
      /\ UNCHANGED <<store, accepted, late, queue, stack, online>>
  BY DEF ServerIngests
<1>2. /\ r \in Request /\ a \in Request
      /\ a.gen = r.gen /\ a.batch = r.batch /\ a.state = r.state
  BY DEF FlightOK, Request
<1>3. delivered' \subseteq Events /\ delivered \subseteq delivered'
  BY <1>1, <1>2 DEF TypeOK, Request
<1>4. wire' \subseteq Request
  BY <1>1, <1>2 DEF FlightOK
<1> HIDE DEF a
<1>5. RequestsOK'
  BY <1>1, <1>2 DEF FlightOK, RequestsOK
<1>6. \A s \in OpenRequests' : \E o \in OpenRequests :
        o.gen = s.gen /\ o.batch = s.batch /\ (o = s \/ (o = r /\ s = a))
  BY <1>1, <1>2 DEF OpenRequests
<1>7. SingleActiveRequest'
  <2>1. \A x, y \in OpenRequests' : x = y
    <3> SUFFICES ASSUME NEW x \in OpenRequests', NEW y \in OpenRequests'
                 PROVE  x = y
      OBVIOUS
    <3>1. r \in OpenRequests => OpenRequests = {r}
      BY DEF FlightOK, SingleActiveRequest
    <3>2. r \notin OpenRequests => x \in OpenRequests /\ y \in OpenRequests
      BY <1>1, <1>2 DEF OpenRequests
    <3>3. r \in OpenRequests => x = a /\ y = a
      BY <1>1, <3>1 DEF OpenRequests
    <3> QED
      BY <3>2, <3>3 DEF FlightOK, SingleActiveRequest
  <2> QED
    BY <1>1, <1>6, <2>1 DEF FlightOK, SingleActiveRequest
<1>8. ActiveBatchPersisted'
  BY <1>1, <1>6 DEF FlightOK, ActiveBatchPersisted
<1>9. NothingLostSilently'
  BY <1>1, <1>3 DEF NothingLostSilently
<1>10. FramesOK(stack, queue)' /\ queue' \in Queue /\ stack' \in Seq(Frame)
  BY <1>1 DEF FlightOK, FramesOK
<1> QED
  BY <1>1, <1>3, <1>4, <1>5, <1>7, <1>8, <1>9, <1>10 DEF TypeOK, FlightOK

(* A request that is no longer open may disappear.                         *)
LEMMA VanishStep ==
  ASSUME IInv, NEW r \in wire, Vanish(r) PROVE IInv'
<1> USE DEF IInv
<1>1. /\ r.state # "open" /\ wire' = wire \ {r}
      /\ UNCHANGED <<store, accepted, late, queue, stack, delivered, online>>
  BY DEF Vanish
<1>2. OpenRequests' = OpenRequests
  BY <1>1 DEF OpenRequests
<1>3. SingleActiveRequest' /\ ActiveBatchPersisted'
  BY <1>1, <1>2 DEF SingleActiveRequest, ActiveBatchPersisted, FlightOK
<1>4. RequestsOK' /\ FramesOK(stack, queue)'
  BY <1>1 DEF RequestsOK, FramesOK, FlightOK
<1>5. NothingLostSilently'
  BY <1>1 DEF NothingLostSilently
<1> QED
  BY <1>1, <1>3, <1>4, <1>5 DEF TypeOK, FlightOK

(* A write task touches only a record that is still on the pipe, which no  *)
(* open batch contains: a batch holds whole files only.                    *)
LEMMA BackgroundWriteStep ==
  ASSUME IInv, BackgroundWrite PROVE IInv'
<1> USE DEF IInv
<1>1. WriteTask /\ UNCHANGED <<accepted, late, queue, stack, wire, delivered, online>>
  BY DEF BackgroundWrite
<1> DEFINE e    == Head(store.pipe)
           rest == Tail(store.pipe)
<1>2. \/ store' = [store EXCEPT !.pipe = rest, !.file[e] = "whole"]
      \/ \E left \in {store.file[e], "corrupt"} :
           store' = [store EXCEPT !.pipe = rest, !.index = @ \ {e},
                                  !.file[e] = left, !.lost = @ \cup {e}]
  BY <1>1 DEF WriteTask
<1>0. store.pipe # <<>> /\ store.pipe \in Seq(Events) /\ IsInjective(store.pipe)
  BY <1>1 DEF WriteTask, TypeOK, Store, StoreOK
<1>3. /\ e \in Pending(store) /\ e \in store.index /\ e \in Events
      /\ rest \in Seq(Events) /\ IsInjective(rest)
      /\ Range(rest) = Pending(store) \ {e}
  BY <1>0, PipeFacts DEF StoreOK, Pending
<1> HIDE DEF e, rest
<1> DEFINE Kept ==
             /\ store' \in Store /\ StoreOK(store', accepted)
             /\ store'.index \cup store'.lost = store.index \cup store.lost
             /\ store.index \ {e} \subseteq store'.index
             /\ \A f \in Events \ {e} : store'.file[f] = store.file[f]
<1>4. Kept
  <2>1. CASE store' = [store EXCEPT !.pipe = rest, !.file[e] = "whole"]
    BY <1>3, <2>1 DEF TypeOK, Store, FileState, StoreOK, Pending
  <2>2. ASSUME NEW left \in {store.file[e], "corrupt"},
               store' = [store EXCEPT !.pipe = rest, !.index = @ \ {e},
                                      !.file[e] = left, !.lost = @ \cup {e}]
        PROVE  Kept
    <3>1. left \in FileState
      BY <1>3 DEF TypeOK, Store, FileState
    <3>2. store' \in Store
      BY <1>3, <2>2, <3>1 DEF TypeOK, Store
    <3> QED
      BY <1>3, <2>2, <3>2 DEF TypeOK, Store, StoreOK, Pending
  <2>3. CASE \E left \in {store.file[e], "corrupt"} :
               store' = [store EXCEPT !.pipe = rest, !.index = @ \ {e},
                                      !.file[e] = left, !.lost = @ \cup {e}]
    BY <2>2, <2>3
  <2> QED
    BY <1>2, <2>1, <2>3
<1>5. ActiveBatchPersisted'
  <2>1. \A r \in OpenRequests : e \notin r.batch /\ r.batch \subseteq Events
    BY <1>3 DEF FlightOK, ActiveBatchPersisted, StoreOK, OpenRequests, Request
  <2> QED
    BY <1>1, <1>4, <2>1 DEF FlightOK, ActiveBatchPersisted, OpenRequests
<1>6. SingleActiveRequest' /\ RequestsOK' /\ FramesOK(stack, queue)'
  BY <1>1 DEF FlightOK, SingleActiveRequest, OpenRequests, RequestsOK, FramesOK
<1>7. NothingLostSilently'
  BY <1>1, <1>4 DEF NothingLostSilently
<1> QED
  BY <1>1, <1>4, <1>5, <1>6, <1>7 DEF TypeOK, FlightOK

(* The clock moves only the pause.                                         *)
LEMMA TickStep ==
  ASSUME IInv, Tick PROVE IInv'
<1> USE DEF IInv
<1>1. /\ queue.pause > 0 /\ queue' = [queue EXCEPT !.pause = @ - 1]
      /\ UNCHANGED <<store, accepted, late, stack, wire, delivered, online>>
  BY DEF Tick
<1>2. queue' \in Queue
  <2>1. queue \in Queue /\ queue.pause - 1 \in Nat
    BY <1>1 DEF FlightOK, Queue
  <2> QED
    BY <1>1, <2>1 DEF Queue
<1>3. /\ queue'.flushing = queue.flushing /\ queue'.generation = queue.generation
      /\ queue'.handle = queue.handle /\ queue'.inFlight = queue.inFlight
  BY <1>1 DEF FlightOK, Queue
<1>4. SingleActiveRequest' /\ ActiveBatchPersisted' /\ RequestsOK'
  BY <1>1, <1>3 DEF FlightOK, SingleActiveRequest, ActiveBatchPersisted,
                    OpenRequests, RequestsOK
<1>5. FramesOK(stack, queue)'
  BY <1>1, <1>3 DEF FlightOK, FramesOK
<1>6. NothingLostSilently'
  BY <1>1 DEF NothingLostSilently
<1> QED
  BY <1>1, <1>2, <1>4, <1>5, <1>6 DEF TypeOK, FlightOK

(* A step that changes none of the variables but online.                   *)
LEMMA ReachabilityStep ==
  ASSUME IInv, UNCHANGED <<store, accepted, late, queue, stack, wire, delivered>>,
         online' \in BOOLEAN
  PROVE  IInv'
<1> USE DEF IInv
<1>1. SingleActiveRequest' /\ ActiveBatchPersisted' /\ RequestsOK'
  BY DEF FlightOK, SingleActiveRequest, ActiveBatchPersisted, OpenRequests, RequestsOK
<1>2. FramesOK(stack, queue)' /\ NothingLostSilently'
  BY DEF FlightOK, FramesOK, NothingLostSilently
<1> QED
  BY <1>1, <1>2 DEF TypeOK, FlightOK

(* The next process finds every record that has a file; the requests of    *)
(* the dead one are orphans, so none is open.                              *)
LEMMA RestartStep ==
  ASSUME IInv, Restart PROVE IInv'
<1> USE DEF IInv
<1>1. PICK torn \in SUBSET BeingWritten(store) :
        store' = LoadEventIndexFromDisk(store, torn)
  BY DEF Restart
<1>2. /\ queue' = NewQueue /\ stack' = <<>>
      /\ wire' = {[r EXCEPT !.state = "orphan"] : r \in wire}
      /\ UNCHANGED <<accepted, late, delivered, online>>
  BY DEF Restart
<1>3. torn \subseteq Pending(store) /\ Pending(store) \subseteq Events
  BY PipeFacts DEF BeingWritten, Pending, StoreOK, TypeOK, Store
<1>4. store' \in Store
  <2>1. <<>> \in Seq(Events)
    OBVIOUS
  <2> QED
    BY <1>1, <1>3, <2>1 DEF LoadEventIndexFromDisk, TypeOK, Store, FileState
<1>5. StoreOK(store', accepted)
  BY <1>1, <1>3, PipeFacts DEF LoadEventIndexFromDisk, TypeOK, Store, StoreOK, Pending
<1>6. store.index \cup store.lost \subseteq store'.index \cup store'.lost
  BY <1>1, <1>3 DEF LoadEventIndexFromDisk, TypeOK, Store, StoreOK
<1>7. queue' \in Queue /\ ~queue'.flushing
  BY <1>2, NewQueueFacts
<1>8. \A r \in wire' : \E s \in wire :
        r = [s EXCEPT !.state = "orphan"] /\ s \in Request
  BY <1>2 DEF FlightOK
<1>9. wire' \subseteq Request /\ OpenRequests' = {}
  BY <1>8 DEF Request, OpenRequests
<1>10. RequestsOK'
  BY <1>2, <1>8 DEF FlightOK, RequestsOK, Request
<1>11. SingleActiveRequest' /\ ActiveBatchPersisted' /\ FramesOK(stack, queue)'
  BY <1>7, <1>9 DEF SingleActiveRequest, ActiveBatchPersisted, FramesOK
<1>12. NothingLostSilently'
  BY <1>2, <1>6 DEF NothingLostSilently
<1>13. stack' \in Seq(Frame)
  BY <1>2
<1> QED
  BY <1>2, <1>4, <1>5, <1>7, <1>9, <1>10, <1>11, <1>12, <1>13 DEF TypeOK, FlightOK

-----------------------------------------------------------------------------
(* The invariant holds in every behaviour.                                 *)

(* The records a previous process left are indexed, and nothing is open.   *)
LEMMA InitHolds == Init => IInv
<1> SUFFICES ASSUME Init PROVE IInv
  OBVIOUS
<1> USE DEF Init, IInv
<1>1. store \in Store
  <2>1. <<>> \in Seq(Events)
    OBVIOUS
  <2> QED
    BY <2>1, StoredAssumption DEF Store, FileState
<1>2. StoreOK(store, accepted)
  <2>1. PICK torn \in SUBSET Stored :
          store = [index |-> Stored,
                   file  |-> [e \in Events |-> CASE e \in torn -> "corrupt"
                                                 [] e \in Stored \ torn -> "whole"
                                                 [] OTHER -> "absent"],
                   pipe  |-> <<>>, lost |-> {}]
    OBVIOUS
  <2>2. /\ store.index = Stored /\ store.pipe = <<>> /\ accepted = Stored
        /\ \A e \in Stored : store.file[e] # "absent"
        /\ \A e \in Events \ Stored : store.file[e] = "absent"
    BY <2>1, StoredAssumption
  <2> QED
    BY <2>2, PipeFacts DEF StoreOK, Pending
<1>3. NothingLostSilently
  BY DEF NothingLostSilently
<1>4. queue \in Queue /\ ~queue.flushing
  BY NewQueueFacts
<1>5. stack \in Seq(Frame) /\ wire \subseteq Request /\ OpenRequests = {}
  BY DEF OpenRequests
<1>6. RequestsOK /\ FramesOK(stack, queue)
     /\ SingleActiveRequest /\ ActiveBatchPersisted
  BY <1>4, <1>5 DEF RequestsOK, FramesOK, SingleActiveRequest, ActiveBatchPersisted
<1> QED
  BY <1>1, <1>2, <1>3, <1>4, <1>5, <1>6, StoredAssumption DEF TypeOK, FlightOK

(* Every step keeps the invariant.                                         *)
LEMMA StepHolds == IInv /\ [Next]_vars => IInv'
<1> SUFFICES ASSUME IInv, [Next]_vars PROVE IInv'
  OBVIOUS
<1>1. CASE Enqueue
  BY <1>1, EnqueueStep
<1>2. CASE RequestFlush
  BY <1>2, RequestFlushStep
<1>3. CASE CancelInFlightRequest
  BY <1>3, CancelStep
<1>4. CASE Clear
  BY <1>4, ClearStep
<1>5. CASE CallNext
  BY <1>5, CallNextStep
<1>6. CASE ReturnToSendBatch
  BY <1>6, ReturnToSendBatchStep
<1>7. CASE ReturnToClear
  BY <1>7, ReturnToClearStep
<1>8. CASE \E r \in wire, status \in Statuses : RequestComplete(r, status)
  BY <1>8, RequestCompleteStep
<1>9. CASE \E r \in wire : ServerIngests(r)
  BY <1>9, ServerIngestsStep
<1>10. CASE \E r \in wire : Vanish(r)
  BY <1>10, VanishStep
<1>11. CASE BackgroundWrite
  BY <1>11, BackgroundWriteStep
<1>12. CASE Tick
  BY <1>12, TickStep
<1>13. CASE ReachabilityChanges
  BY <1>13, ReachabilityStep DEF ReachabilityChanges, IInv, TypeOK
<1>14. CASE Restart
  BY <1>14, RestartStep
<1>15. CASE UNCHANGED vars
  BY <1>15, ReachabilityStep DEF vars, IInv, TypeOK
<1> QED
  BY <1>1, <1>2, <1>3, <1>4, <1>5, <1>6, <1>7, <1>8, <1>9, <1>10, <1>11, <1>12,
     <1>13, <1>14, <1>15 DEF Next, GameThread

(* The inductive invariant holds in every reachable state.                 *)
THEOREM Invariant == Spec => []IInv
<1> QED
  BY InitHolds, StepHolds, PTL DEF Spec

(* Every variable keeps its type: batch limits never fall below one, the   *)
(* callbacks and frames are well formed, whatever callbacks call.          *)
THEOREM TypeCorrect == Spec => []TypeOK
<1>1. IInv => TypeOK
  BY DEF IInv
<1> QED
  BY <1>1, Invariant, PTL

(* No accepted event disappears: it is persisted, delivered, or given up   *)
(* for one of the reasons the code states.                                 *)
THEOREM NothingLost == Spec => []NothingLostSilently
<1>1. IInv => NothingLostSilently
  BY DEF IInv
<1> QED
  BY <1>1, Invariant, PTL

(* At most one request is open, and the queue holds its handle.            *)
THEOREM SingleActive == Spec => []SingleActiveRequest
<1>1. IInv => SingleActiveRequest
  BY DEF IInv, FlightOK
<1> QED
  BY <1>1, Invariant, PTL

(* The records of an open request stay indexed and whole on disk.          *)
THEOREM BatchPersisted == Spec => []ActiveBatchPersisted
<1>1. IInv => ActiveBatchPersisted
  BY DEF IInv, FlightOK
<1> QED
  BY <1>1, Invariant, PTL

=============================================================================
