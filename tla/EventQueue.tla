----------------------------- MODULE EventQueue -----------------------------
(***************************************************************************)
(* FPostHogEventQueue on top of FPostHogFileStorageProvider and            *)
(* FPostHogHttpClient: capture, batched delivery, retry, cancellation.     *)
(*                                                                         *)
(* Every handler of the queue runs on the game thread and is one action.   *)
(* What runs beside it: the background write tasks, the server, the clock. *)
(* A handler that completes a flush calls the callbacks registered with    *)
(* it, and a callback may call the queue again before the handler has      *)
(* returned.  The variable stack holds what the game thread still has to   *)
(* do: the callbacks left to call, and the rest of the interrupted caller. *)
(***************************************************************************)
EXTENDS FileStorage, Integers

CONSTANTS
  MaxQueueSize, MaxBatchSize, FlushEventCount, (* constructor arguments     *)
  RetryDelay, MaxRetryDelay,   (* back-off step and its cap, in clock ticks *)
  Generations,      (* size of the generation counter, 2^64 in the code     *)
  Callbacks,        (* completion callbacks callers may pass to Flush       *)
  MaxNesting,       (* bound on re-entrant calls: the depth of the stack    *)
  MaxOrphans,       (* bound on the requests of dead processes still about  *)
  Environment,      (* which disturbances of the environment happen         *)
  LateCompletions,  (* whether a cancelled request may still complete       *)
  Stored            (* the events of which a previous process left a record *)

ASSUME LimitsAssumption ==
  /\ MaxQueueSize \in Int /\ MaxBatchSize \in Int /\ FlushEventCount \in Int
  /\ RetryDelay \in Nat \ {0} /\ MaxRetryDelay \in Nat \ {0}
  /\ Generations \in Nat \ {0, 1}
  /\ MaxNesting \in Nat /\ MaxOrphans \in Nat
ASSUME EnvironmentAssumption ==
  /\ Environment \subseteq {"offline", "cancel", "clear", "restart", "disorder"}
  /\ LateCompletions \in BOOLEAN
ASSUME StoredAssumption == Stored \subseteq Events /\ IsFiniteSet(Stored)

VARIABLES
  accepted,    (* history: the ids that were enqueued                       *)
  late,        (* history: those of them that were enqueued when an event   *)
               (* of a larger id had been sent already                      *)
  queue,       (* the fields of FPostHogEventQueue                          *)
  stack,       (* the frames of the game thread, innermost first            *)
  wire,        (* the requests handed to the HTTP client                    *)
  delivered,   (* the events the server has ingested                        *)
  online       (* what the reachability provider answers                    *)

vars == <<store, accepted, late, queue, stack, wire, delivered, online>>

-----------------------------------------------------------------------------
AtLeastOne(n) == IF n < 1 THEN 1 ELSE n
Smaller(m, n) == IF m < n THEN m ELSE n

Capacity == AtLeastOne(MaxQueueSize)
Generation == 0 .. Generations - 1
NextGeneration(g) == (g + 1) % Generations
NoHandle == -1

Result == {"Empty", "Drained", "Failed", "Cancelled", "ProgressBlocked",
           "Paused", "SkippedOffline"}

(* pause is the time left until PausedUntil, handle the generation of the  *)
(* request ActiveRequestHandle points to; owed is a history: the callbacks *)
(* that were registered and have not been called.                          *)
Queue ==
  [flushing: BOOLEAN, startedEmpty: BOOLEAN, generation: Generation,
   handle: Generation \cup {NoHandle}, inFlight: SUBSET Events,
   batchLimit: Nat \ {0}, flushThreshold: Nat \ {0},
   failures: Nat, pause: Nat,
   callbacks: Seq(Callbacks), owed: SUBSET Callbacks]

(* notify: callbacks of a completed flush, the first of them running;      *)
(* sent: SendBatch after a request that failed to start;                   *)
(* clear: Clear after it has cancelled.                                    *)
Frame == [at: {"notify", "sent", "clear"}, result: Result,
          rest: Seq(Callbacks), gen: Generation]

(* An orphan was sent by a process that has died.                          *)
Request == [gen: Generation, batch: SUBSET Events, ingested: BOOLEAN,
            state: {"open", "cancelled", "orphan"}]

TypeOK ==
  /\ store \in Store
  /\ accepted \subseteq Events /\ late \subseteq accepted
  /\ queue \in Queue
  /\ stack \in Seq(Frame)
  /\ wire \subseteq Request
  /\ delivered \subseteq Events
  /\ online \in BOOLEAN

NewQueue ==
  [flushing |-> FALSE, startedEmpty |-> FALSE, generation |-> 0,
   handle |-> NoHandle, inFlight |-> {},
   batchLimit |-> AtLeastOne(MaxBatchSize),
   flushThreshold |-> AtLeastOne(FlushEventCount),
   failures |-> 0, pause |-> 0, callbacks |-> <<>>, owed |-> {}]

Init ==
  /\ \E torn \in SUBSET Stored :
       store = [index |-> Stored,
                file  |-> [e \in Events |-> CASE e \in torn -> "corrupt"
                                              [] e \in Stored \ torn -> "whole"
                                              [] OTHER -> "absent"],
                pipe  |-> <<>>, lost |-> {}]
  /\ accepted = Stored /\ late = {}
  /\ queue = NewQueue
  /\ stack = <<>>
  /\ wire = {}
  /\ delivered = {}
  /\ online = TRUE

-----------------------------------------------------------------------------
(* The end of a flush.  The flush state is reset and the callbacks are     *)
(* moved out before the first is called; tail is the rest of the caller.   *)

Notify(result, callbacks, tail) ==
  IF callbacks = <<>> THEN <<>>
  ELSE <<[at |-> "notify", result |-> result, rest |-> Tail(callbacks),
          gen |-> 0]>> \o tail

Called(callbacks) ==
  IF callbacks = <<>> THEN {} ELSE {Head(callbacks)}

(* Mutant: the callbacks stay registered after they have been called.      *)
ClosedKeepingCallbacks(q) ==
  [q EXCEPT !.flushing = FALSE, !.startedEmpty = FALSE, !.handle = NoHandle,
            !.inFlight = {}, !.owed = @ \ Called(q.callbacks)]

Closed(q) ==
  [q EXCEPT !.flushing = FALSE, !.startedEmpty = FALSE, !.handle = NoHandle,
            !.inFlight = {}, !.callbacks = <<>>,
            !.owed = @ \ Called(q.callbacks)]

CompleteFlush(q, result, tail) ==
  /\ queue' = Closed(q)
  /\ stack' = Notify(result, q.callbacks, tail) \o stack

(* A retryable failure: the batch is kept, the back-off grows linearly up  *)
(* to its cap, and a 413 halves the limits.                                *)
(* Mutant of it: the limits may fall to zero.                              *)
HalvedToZero(n) == n \div 2

Halved(n) == AtLeastOne(n \div 2)

RetryState(q, status) ==
  LET n == Smaller(q.failures + 1, MaxRetryDelay)
      p == [q EXCEPT !.failures = n,
                     !.pause = Smaller(n * RetryDelay, MaxRetryDelay)]
  IN  IF status # "tooLarge" THEN p
      ELSE [p EXCEPT !.batchLimit = Halved(@), !.flushThreshold = Halved(@)]

Rest(at, gen) == <<[at |-> at, result |-> "Failed", rest |-> <<>>, gen |-> gen]>>

(* The transport may fail to start the request: it then completes it       *)
(* before SendBatch returns.                                               *)
SendBatch(q, batch, requests) ==
  LET p == [q EXCEPT !.inFlight = @ \cup batch]
  IN  \/ /\ queue' = [p EXCEPT !.handle = p.generation]
         /\ wire' = requests \cup {[gen |-> p.generation, batch |-> batch,
                                    ingested |-> FALSE, state |-> "open"]}
         /\ UNCHANGED stack
      \/ /\ "send" \in Faults
         /\ CompleteFlush(RetryState(p, "none"), "Failed",
                          Rest("sent", p.generation))
         /\ wire' = requests

-----------------------------------------------------------------------------
(* One turn of a flush: read records oldest first until the batch is full, *)
(* deleting the unusable ones.  The ids are read before the first          *)
(* LoadEvent drains the pipe, so an id whose write has failed meanwhile is *)
(* still tried: its deletion makes no progress and stops the flush.        *)

Usable(s, w, unreadable) ==
  {e \in s.index : e \in w.index /\ Loadable(w, e, unreadable)}

(* Mutant of it: newest records first.                                     *)
LastOf(S, counted, limit) ==
  {e \in S : Cardinality({f \in counted : f > e}) < limit}

FirstOf(S, counted, limit) ==
  {e \in S : Cardinality({f \in counted : f < e}) < limit}

TryBuildNextBatch(q, s, requests, w, unreadable, stuck) ==
  LET usable  == Usable(s, w, unreadable)
      visited == FirstOf(s.index, usable, q.batchLimit)
      stops   == {e \in visited \ usable : e \notin w.index \/ e \in stuck}
      gone    == {e \in visited \ usable : e \notin stuck
                                           /\ \A f \in stops : e <= f}
      batch   == visited \cap usable
  IN  /\ store' = Discard(w, gone)
      /\ CASE stops # {} ->
                 CompleteFlush(q, "ProgressBlocked", <<>>) /\ wire' = requests
           [] stops = {} /\ batch = {} ->
                 CompleteFlush(q, "Drained", <<>>) /\ wire' = requests
           [] OTHER -> SendBatch(q, batch, requests)

ContinueFlush(q, s, requests) ==
  IF s.index = {}
  THEN /\ CompleteFlush(q, IF q.startedEmpty THEN "Empty" ELSE "Drained", <<>>)
       /\ store' = s
       /\ wire' = requests
  ELSE \E failed \in SaveFailures(s), unreadable \in LoadFailures(s),
          stuck \in DeleteFailures(s) :
       \E torn \in SUBSET failed :
         TryBuildNextBatch(q, s, requests, WaitUntilEmpty(s, failed, torn),
                           unreadable, stuck)

(* Flush: coalesce, or answer at once, or start.  callbacks is empty when  *)
(* the caller passed none.  A generation still in use is not taken again:  *)
(* the 64-bit counter never wraps that far.                                *)
GenerationFree ==
  LET next == NextGeneration(queue.generation)
  IN  /\ \A r \in wire : r.gen = next => r.state = "orphan"
      /\ \A i \in DOMAIN stack : stack[i].gen = next => stack[i].at # "sent"

Started(s, callbacks) ==
  [queue EXCEPT !.flushing = TRUE, !.handle = NoHandle, !.inFlight = {},
                !.startedEmpty = s.index = {},
                !.generation = NextGeneration(@),
                !.callbacks = @ \o callbacks,
                !.owed = @ \cup Called(callbacks)]

Answer(s, result, callbacks) ==
  /\ store' = s
  /\ stack' = Notify(result, callbacks, <<>>) \o stack
  /\ UNCHANGED <<queue, wire>>

(* Mutants: no pause after a failure, and a pause only a success ends.     *)
FlushIgnoringPause(s, callbacks) ==
  IF queue.flushing
  THEN /\ store' = s
       /\ queue' = [queue EXCEPT !.callbacks = @ \o callbacks,
                                 !.owed = @ \cup Called(callbacks)]
       /\ UNCHANGED <<stack, wire>>
  ELSE IF ~online THEN Answer(s, "SkippedOffline", callbacks)
       ELSE GenerationFree /\ ContinueFlush(Started(s, callbacks), s, wire)

FlushPausedByFailures(s, callbacks) ==
  IF queue.flushing
  THEN /\ store' = s
       /\ queue' = [queue EXCEPT !.callbacks = @ \o callbacks,
                                 !.owed = @ \cup Called(callbacks)]
       /\ UNCHANGED <<stack, wire>>
  ELSE CASE ~online -> Answer(s, "SkippedOffline", callbacks)
         [] online /\ queue.failures > 0 -> Answer(s, "Paused", callbacks)
         [] OTHER ->
              GenerationFree /\ ContinueFlush(Started(s, callbacks), s, wire)

Flush(s, callbacks) ==
  IF queue.flushing
  THEN /\ store' = s
       /\ queue' = [queue EXCEPT !.callbacks = @ \o callbacks,
                                 !.owed = @ \cup Called(callbacks)]
       /\ UNCHANGED <<stack, wire>>
  ELSE CASE ~online -> Answer(s, "SkippedOffline", callbacks)
         [] online /\ queue.pause > 0 -> Answer(s, "Paused", callbacks)
         [] OTHER ->
              GenerationFree /\ ContinueFlush(Started(s, callbacks), s, wire)

-----------------------------------------------------------------------------
(* Calls by the program: from the game loop, or from a running callback.   *)
(* The consent controller calls Clear once consent is withdrawn, and lets  *)
(* no call through to the queue while Clear runs.                          *)

Frames(at) == {i \in DOMAIN stack : stack[i].at = at}

CanCall ==
  \/ stack = <<>>
  \/ /\ 1 \in Frames("notify")
     /\ Frames("clear") = {}
     /\ Len(stack) < MaxNesting

RequestFlush ==
  /\ CanCall
  /\ \/ Flush(store, <<>>)
     \/ \E c \in Callbacks \ queue.owed : Flush(store, <<c>>)
  /\ UNCHANGED <<accepted, late, delivered, online>>

(* The id of an event is taken when the event is created.  A capture made  *)
(* while the game looks at the event before it is sent gets a larger id    *)
(* and is enqueued first; a process that finds the clock set back starts   *)
(* with smaller ids than the ones on disk.                                 *)
Earliest(S) == {e \in S : \A f \in S : e <= f}

NewIds ==
  LET unused == Events \ accepted
  IN  IF "disorder" \in Environment THEN unused
      ELSE Earliest(unused)

Sent == delivered \cup UNION {r.batch : r \in wire}

(* Evict the oldest records that are not in flight until there is room.    *)
(* A failed deletion, or no candidate left, rejects the incoming event e.  *)
Accept(s, e) ==
  LET added == SaveEvent(s, e)
  IN  /\ accepted' = accepted \cup {e}
      /\ late' = IF \E f \in Sent : f > e THEN late \cup {e} ELSE late
      /\ IF Cardinality(added.index) >= queue.flushThreshold
         THEN Flush(added, <<>>)
         ELSE store' = added /\ UNCHANGED <<queue, stack, wire>>

(* Mutants: records in flight are evicted too; only one record is evicted. *)
EvictAnyThenAccept(w, stuck, incoming) ==
  LET oldest     == Earliest(store.index)
      candidates == oldest \cup w.index
      older(e)   == {f \in candidates : f < e}
      tried      == {e \in candidates :
                       \/ e \in oldest
                       \/ Cardinality(w.index \ older(e)) >= Capacity}
      evicted    == {e \in tried : \A f \in tried \cap stuck : e < f}
      left       == Discard(w, evicted)
  IN  /\ candidates # {}
      /\ IF tried \cap stuck = {} /\ Cardinality(left.index) < Capacity
         THEN Accept(left, incoming)
         ELSE store' = left /\ UNCHANGED <<accepted, late, queue, stack, wire>>

EvictOneThenAccept(w, stuck, incoming) ==
  LET oldest == Earliest(store.index \ queue.inFlight)
  IN  /\ oldest # {}
      /\ IF oldest \cap stuck = {} THEN Accept(Discard(w, oldest), incoming)
         ELSE store' = w /\ UNCHANGED <<accepted, late, queue, stack, wire>>

EvictThenAccept(w, stuck, incoming) ==
  LET oldest     == Earliest(store.index \ queue.inFlight)
      candidates == oldest \cup (w.index \ queue.inFlight)
      older(e)   == {f \in candidates : f < e}
      tried      == {e \in candidates :
                       \/ e \in oldest
                       \/ Cardinality(w.index \ older(e)) >= Capacity}
      evicted    == {e \in tried : \A f \in tried \cap stuck : e < f}
      left       == Discard(w, evicted)
  IN  /\ candidates # {}
      /\ IF tried \cap stuck = {} /\ Cardinality(left.index) < Capacity
         THEN Accept(left, incoming)
         ELSE store' = left /\ UNCHANGED <<accepted, late, queue, stack, wire>>

Enqueue ==
  /\ CanCall
  /\ \E e \in NewIds :
       IF Cardinality(store.index) < Capacity THEN Accept(store, e)
       ELSE \E failed \in SaveFailures(store), stuck \in DeleteFailures(store) :
            \E torn \in SUBSET failed :
              EvictThenAccept(WaitUntilEmpty(store, failed, torn), stuck, e)
  /\ UNCHANGED <<delivered, online>>

(* Cancelling unbinds the client's completion delegate.                    *)
Cancelled(requests, handle) ==
  {IF r.state = "open" /\ r.gen = handle THEN [r EXCEPT !.state = "cancelled"]
                                         ELSE r : r \in requests}

CancelThen(tail) ==
  /\ GenerationFree
  /\ wire' = Cancelled(wire, queue.handle)
  /\ CompleteFlush([queue EXCEPT !.generation = NextGeneration(@)],
                   "Cancelled", tail)

CancelInFlightRequest ==
  /\ "cancel" \in Environment
  /\ CanCall
  /\ queue.flushing \/ queue.handle # NoHandle
  /\ CancelThen(<<>>)
  /\ UNCHANGED <<store, accepted, late, delivered, online>>

ClearStorage ==
  \E failed \in SaveFailures(store), stuck \in DeleteFailures(store) :
  \E torn \in SUBSET failed :
    store' = ClearEvents(WaitUntilEmpty(store, failed, torn), stuck)

(* The records are cleared once the cancelled flush's callbacks are done.  *)
Clear ==
  /\ "clear" \in Environment
  /\ CanCall
  /\ IF queue.flushing \/ queue.handle # NoHandle
     THEN CancelThen(Rest("clear", 0))
     ELSE UNCHANGED <<queue, stack, wire>>
  /\ IF queue.callbacks = <<>> THEN ClearStorage ELSE UNCHANGED store
  /\ UNCHANGED <<accepted, late, delivered, online>>

-----------------------------------------------------------------------------
(* The game thread returns from what it was doing.                         *)

CallNext ==
  /\ stack # <<>> /\ Head(stack).at = "notify"
  /\ LET left == Head(stack).rest
     IN  /\ stack' = Notify(Head(stack).result, left, <<>>) \o Tail(stack)
         /\ queue' = [queue EXCEPT !.owed = @ \ Called(left)]
  /\ UNCHANGED <<store, accepted, late, wire, delivered, online>>

(* SendBatch looks again at the flush it belongs to before it uses the     *)
(* null handle: the callbacks may have started another one.                *)
(* Mutant of it: the null handle is used without looking.                  *)
ReturnToSendBatchUnchecked ==
  /\ stack # <<>> /\ Head(stack).at = "sent"
  /\ queue' = [queue EXCEPT !.handle = NoHandle]
  /\ stack' = Tail(stack)
  /\ UNCHANGED <<store, accepted, late, wire, delivered, online>>

ReturnToSendBatch ==
  /\ stack # <<>> /\ Head(stack).at = "sent"
  /\ IF queue.flushing /\ queue.generation = Head(stack).gen
     THEN /\ queue' = Closed(RetryState(queue, "none"))
          /\ stack' = Notify("Failed", queue.callbacks, <<>>) \o Tail(stack)
     ELSE stack' = Tail(stack) /\ UNCHANGED queue
  /\ UNCHANGED <<store, accepted, late, wire, delivered, online>>

ReturnToClear ==
  /\ stack # <<>> /\ Head(stack).at = "clear"
  /\ stack' = Tail(stack)
  /\ ClearStorage
  /\ UNCHANGED <<accepted, late, queue, wire, delivered, online>>

-----------------------------------------------------------------------------
(* The HTTP client reports the outcome of a request on the game thread.    *)
(* A success and a rejection are answers of the server; anything else may  *)
(* also be a lost answer or a timeout.                                     *)

SentRecords(s, batch, failed, torn, stuck) ==
  LET w     == WaitUntilEmpty(s, failed, torn)
      stops == {e \in batch : e \in stuck \/ e \notin s.index}
  IN  [kept |-> stops # {}, store |-> w,
       gone |-> {e \in batch : \A f \in stops : e < f}]

(* The sent records are deleted one by one, up to the first that cannot    *)
(* be; a rejected batch is given up, and what is kept of it is ignored.    *)
(* Mutant of it: one batch per flush.                                      *)
HandleSuccessOnce(q, batch, requests) ==
  \E failed \in SaveFailures(store), stuck \in DeleteFailures(store) :
  \E torn \in SUBSET failed :
    LET sent == SentRecords(store, batch, failed, torn, stuck)
    IN  /\ store' = DeleteEvents(sent.store, sent.gone)
        /\ CompleteFlush([q EXCEPT !.failures = 0, !.pause = 0],
                         IF sent.kept THEN "ProgressBlocked" ELSE "Drained", <<>>)
        /\ wire' = requests

HandleSuccess(q, batch, requests) ==
  \E failed \in SaveFailures(store), stuck \in DeleteFailures(store) :
  \E torn \in SUBSET failed :
    LET sent == SentRecords(store, batch, failed, torn, stuck)
        left == DeleteEvents(sent.store, sent.gone)
        p    == [q EXCEPT !.failures = 0, !.pause = 0]
    IN  IF sent.kept
        THEN /\ store' = left
             /\ CompleteFlush(p, "ProgressBlocked", <<>>)
             /\ wire' = requests
        ELSE ContinueFlush(p, left, requests)

HandleRejection(q, batch, requests) ==
  \E failed \in SaveFailures(store), stuck \in DeleteFailures(store) :
  \E torn \in SUBSET failed :
    LET sent == SentRecords(store, batch, failed, torn, stuck)
    IN  /\ store' = Discard(sent.store, sent.gone)
        /\ CompleteFlush(q, "Failed", <<>>)
        /\ wire' = requests

(* Mutant: a retryable failure does not end the flush.                     *)
HandleRetryableSilently(q, status, requests) ==
  /\ queue' = RetryState(q, status)
  /\ wire' = requests
  /\ UNCHANGED <<store, stack>>

HandleRetryable(q, status, requests) ==
  /\ CompleteFlush(RetryState(q, status), "Failed", <<>>)
  /\ wire' = requests
  /\ UNCHANGED store

(* Mutant: a lost answer counts as a success.                              *)
HandleBatchCompleteOptimistic(r, status) ==
  LET q        == [queue EXCEPT !.handle = NoHandle, !.inFlight = @ \ r.batch]
      requests == wire \ {r}
  IN  IF ~queue.flushing \/ queue.generation # r.gen
      THEN wire' = requests /\ UNCHANGED <<store, queue, stack>>
      ELSE IF status = "rejected" THEN HandleRejection(q, r.batch, requests)
           ELSE HandleSuccess(q, r.batch, requests)

HandleBatchComplete(r, status) ==
  LET q        == [queue EXCEPT !.handle = NoHandle, !.inFlight = @ \ r.batch]
      requests == wire \ {r}
  IN  IF ~queue.flushing \/ queue.generation # r.gen
      THEN wire' = requests /\ UNCHANGED <<store, queue, stack>>
      ELSE CASE status = "success"  -> HandleSuccess(q, r.batch, requests)
             [] status = "rejected" -> HandleRejection(q, r.batch, requests)
             [] OTHER               -> HandleRetryable(q, status, requests)

RequestComplete(r, status) ==
  /\ stack = <<>>
  /\ r.state = "open" \/ (LateCompletions /\ r.state = "cancelled")
  /\ status = "success" => r.ingested
  /\ status \in {"rejected", "tooLarge"} => ~r.ingested
  /\ HandleBatchComplete(r, status)
  /\ UNCHANGED <<accepted, late, delivered, online>>

Statuses == {"success", "rejected", "tooLarge", "none"}

-----------------------------------------------------------------------------
(* The world around the game thread.                                       *)

ServerIngests(r) ==
  /\ ~r.ingested
  /\ wire' = (wire \ {r}) \cup {[r EXCEPT !.ingested = TRUE]}
  /\ delivered' = delivered \cup r.batch
  /\ UNCHANGED <<store, accepted, late, queue, stack, online>>

Vanish(r) ==
  /\ r.state # "open"
  /\ wire' = wire \ {r}
  /\ UNCHANGED <<store, accepted, late, queue, stack, delivered, online>>

BackgroundWrite ==
  /\ WriteTask
  /\ UNCHANGED <<accepted, late, queue, stack, wire, delivered, online>>

Tick ==
  /\ queue.pause > 0
  /\ queue' = [queue EXCEPT !.pause = @ - 1]
  /\ UNCHANGED <<store, accepted, late, stack, wire, delivered, online>>

ReachabilityChanges ==
  /\ "offline" \in Environment
  /\ online' = ~online
  /\ UNCHANGED <<store, accepted, late, queue, stack, wire, delivered>>

(* The process dies, at any point, and the next one starts.                *)
Restart ==
  /\ "restart" \in Environment
  /\ Cardinality({r \in wire : r.state = "orphan"}) <= MaxOrphans
  /\ \E torn \in SUBSET BeingWritten(store) :
       store' = LoadEventIndexFromDisk(store, torn)
  /\ queue' = NewQueue
  /\ stack' = <<>>
  /\ wire' = {[r EXCEPT !.state = "orphan"] : r \in wire}
  /\ UNCHANGED <<accepted, late, delivered, online>>

-----------------------------------------------------------------------------
GameThread ==
  \/ Enqueue
  \/ RequestFlush
  \/ CancelInFlightRequest
  \/ Clear
  \/ CallNext
  \/ ReturnToSendBatch
  \/ ReturnToClear
  \/ \E r \in wire, status \in Statuses : RequestComplete(r, status)

Next ==
  \/ GameThread
  \/ \E r \in wire : ServerIngests(r)
  \/ \E r \in wire : Vanish(r)
  \/ BackgroundWrite
  \/ Tick
  \/ ReachabilityChanges
  \/ Restart

Spec == Init /\ [][Next]_vars

(* The engine ticks the HTTP manager and the subsystem's flush timer in    *)
(* every frame, between handlers: strong fairness, since a handler may be  *)
(* running at any single moment.  The server is up again and again, and so *)
(* is the network.  Nobody has to capture events or to request a flush.    *)
TimerFlush == stack = <<>> /\ RequestFlush /\ queue'.owed = queue.owed

Fairness ==
  /\ WF_vars(BackgroundWrite) /\ WF_vars(Tick)
  /\ WF_vars(CallNext) /\ WF_vars(ReturnToSendBatch) /\ WF_vars(ReturnToClear)
  /\ SF_vars(stack = <<>> /\ ~online /\ ReachabilityChanges)
  /\ SF_vars(queue.pause = 0 /\ online /\ ~queue.flushing /\ TimerFlush)
  /\ SF_vars(\E r \in wire : r.state = "open" /\ ServerIngests(r))
  /\ SF_vars(\E r \in wire : r.state = "open" /\ RequestComplete(r, "success"))

FairSpec == Spec /\ Fairness

-----------------------------------------------------------------------------
(* Properties.                                                             *)

OpenRequests == {r \in wire : r.state = "open"}

(* Active batch records are never removed beneath a request: while a       *)
(* request is open, capacity eviction, late completions and failed writes  *)
(* leave every record of its batch indexed and whole on disk.              *)
ActiveBatchPersisted ==
  \A r \in OpenRequests :
    \A e \in r.batch : e \in store.index /\ store.file[e] = "whole"

(* No event is sent concurrently: at most one request is open, it belongs  *)
(* to the flush in progress, and the queue still holds its handle, so that *)
(* a shutdown or an opt-out can cancel it, whatever callbacks did.         *)
SingleActiveRequest ==
  /\ \A r, s \in OpenRequests : r = s
  /\ \A r \in OpenRequests :
       /\ queue.flushing
       /\ queue.handle = r.gen /\ queue.generation = r.gen
       /\ queue.inFlight = r.batch

(* Every registered completion is resolved exactly once: a callback that   *)
(* is owed waits in exactly one place, the queue or a frame of the game    *)
(* thread, and one that has been called waits nowhere.                     *)
Waiting(c) ==
  {<<0, i>> : i \in {k \in DOMAIN queue.callbacks : queue.callbacks[k] = c}}
    \cup UNION {{<<j, i>> : i \in {k \in DOMAIN stack[j].rest :
                                    stack[j].rest[k] = c}} : j \in DOMAIN stack}

CallbacksResolveOnce ==
  \A c \in Callbacks :
    Cardinality(Waiting(c)) = IF c \in queue.owed THEN 1 ELSE 0

(* No event is deleted before its successful response: an accepted event   *)
(* is persisted, or the server has it, or it was given up for a reason the *)
(* code states (unsaved, evicted, unreadable, rejected, cleared).          *)
NothingLostSilently ==
  accepted \subseteq store.index \cup delivered \cup store.lost

(* Delivery is in the order of the ids: the server never gets an event     *)
(* while an older one that it has not got is still held in a good record,  *)
(* through failures, deaths and orphaned requests.  The one exception is   *)
(* an event that was enqueued too late, after a younger one had been sent. *)
NeverOvertaken ==
  \A e \in store.index \ late, f \in delivered :
    e < f /\ store.file[e] = "whole" => e \in delivered

(* A retryable failure pauses delivery: no request is open while the       *)
(* back-off lasts, though captures and callers keep asking for flushes.    *)
NoRequestWhilePaused == queue.pause > 0 => OpenRequests = {}

(* Accepting an event never leaves more than MaxQueueSize records, even    *)
(* when a restart found more of them than the index had held before.       *)
CapacityAfterEnqueue ==
  [][accepted' # accepted => Cardinality(store'.index) <= Capacity]_vars

(* A flush reported as drained has emptied the queue, records captured     *)
(* while its batches were under way included.                              *)
DrainedMeansEmpty ==
  [][Len(stack') > Len(stack) /\ Head(stack').result = "Drained"
     => store'.index = {}]_vars

(* A caller that registered a callback hears of the outcome.               *)
CallbacksAreCalled == \A c \in Callbacks : c \in queue.owed ~> c \notin queue.owed

(* Every record leaves the disk in the end: delivered, unless given up.    *)
RecordsLeave == \A e \in Events : e \in store.index ~> e \notin store.index
=============================================================================
