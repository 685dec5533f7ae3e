# UnrealHog: TLA+ models, checks and proofs

UnrealHog is an Unreal Engine plugin that sends consent-gated analytics events to
PostHog. This directory holds TLA+ models of its logic, TLC configurations that check
them on small instances, and proofs that TLAPS checks for every value of the constants.
All paths below are relative to `src/UnrealHog/Source/UnrealHog/`.

## 1. The system

| Component | State it keeps | Operations |
|---|---|---|
| Event storage (`Private/Storage`) | index of event ids, one file per event, pipe of pending writes; small state files | SaveEvent, LoadEvent, DeleteEvent, ClearEvents, FlushPendingWrites, LoadEventIndexFromDisk; SaveState, LoadState, DeleteState |
| Event queue (`Private/Events/PostHogEventQueue.cpp`) | flush in progress, its generation, request handle, ids in flight, pending callbacks, batch limits, back-off | Enqueue, Flush, HandleBatchComplete, CancelInFlightRequest, Clear |
| HTTP client (`Private/Http`) | one completion per request | SendBatch, Cancel |
| Consent controller (`Private/Consent`) | opted in, shutting down; owns the queue, the storage, the transport and the managers | Initialize, SetOptIn, Shutdown, Capture and its variants, Identify, Reset, Group, RequestFlush, background and terminate handlers |
| Runtime subsystem (`Private/Subsystems`) | controller, exception capture, quit coordinator, flush timer | Initialize, Deinitialize, pre-exit, window close, SetAnalyticsOptIn, timer |
| Quit flush coordinator, lifecycle handler (`Private/Lifecycle`) | in progress, finalized, timeout; delegate bindings, stored version | BeginFlushAndQuit, FinalizeQuit; Start, Stop, foreground, background |
| Session manager (`Private/Session`) | session id, start, last activity, foreground, permission | GetSessionId, Touch, OnForeground, OnBackground, EndSession |
| Identity, super properties | anonymous and distinct id, groups; a map; both persisted | LoadOrCreate, Identify, Reset, SetGroup; Register, Unregister, Clear |
| Exception capture | handlers, debounce | Register, Unregister, HandleEnsureFailed |
| UUIDv7 generator | last timestamp and counter | New |

Interactions. The controller calls the queue, the queue calls the storage and the
transport. The transport calls back on the game thread; a flush that ends calls the
completion callbacks registered with it, and these are arbitrary code that may call the
queue or the controller again before the interrupted handler has returned. Storage
writes run on a background pipe. Everything else runs on the game thread.

What is hard: re-entrant callbacks; requests that outlive their flush; failed or torn
writes behind a call that already returned success; eviction while a batch is in flight;
death of the process between any two steps; back-off and 413 answers; opt-out and
shutdown in the middle of a flush. `PROJECT.json` lists these hazards at their lines.

What makes each component correct:

- storage and queue: no event is lost unaccounted for, none removed beneath a request,
  one request at a time, delivery in the order of the ids, each callback once, the capacity bound, and
  in the end an empty queue;
- controller: nothing is captured or sent without consent, consent survives a restart,
  nothing is started during teardown;
- quit coordinator: shutdown and exit exactly once, within the timeout;
- session: an expired session is never reported again, none exists without consent;
- identifiers: strictly increasing.

## 2. Plan and state of it

1. `FileStorage`, `EventQueue`: the core. Done, proofs in `EventQueueProofs`.
2. `SessionManager`, `ApplicationLifecycle`: sessions under the delegates, consent and a
   clock that steps back. Done, proofs in `ApplicationLifecycleProofs`.
3. `ConsentController`, `RuntimeSubsystem`, with `QuitContract` as the abstract
   specification of FlushAndQuit. Done, proofs in `RuntimeSubsystemProofs`.
4. `UuidV7`, with `IncreasingIds` as its abstract specification, and `EventOrder`, which
   composes it with the eviction and the batches. Done, proofs in `EventOrderProofs`.
5. `IdentityManager`, `EventProperties`, `EventCapture`: who an event is attributed to and
   what it carries. `PropertyJson`: nested values through both conversions. Done, proofs in
   `EventCaptureProofs` and `PropertyJsonProofs`.
6. `ExceptionCapture`, `HttpClient`. Done.
7. `EngineAdapters`: the two adapters under the engine's delegates in one run. Done, proofs
   of all three in `EngineAdaptersProofs`.
8. Proofs of what was first only model-checked: the callbacks and the back-off of the queue,
   its order, capacity and drained flushes (`EventQueueDeliveryProofs`), the lifecycle events,
   and the attribution of events to any number of players (`EventCaptureProofs`). Done.
9. Proofs of what `RuntimeSubsystem` promises (`RuntimeSubsystemProofs`), of the order in
   which the queue gives events up (`EventOrderProofs`), and of the precedence of an event's
   properties (`EventCaptureProofs`). Done.
10. Proofs about the conversions of nested properties and the super properties that pass
   them at every restart (`PropertyJsonProofs`). Done. With them every safety property that a
   passing run checks is a theorem.
11. Left: a composition of `RuntimeSubsystem` with the whole of `EventQueue` (today the first
   knows the second as a count of records and one request), which TLC does not reach with
   callbacks in both.

How the modules fit together:

    RuntimeSubsystem  EXTENDS  ConsentController       implements  QuitContract
    EventCapture      EXTENDS  IdentityManager, EventProperties
    ApplicationLifecycle  EXTENDS  SessionManager
    EventQueue        EXTENDS  FileStorage
    EventOrder        EXTENDS  UuidV7                  implements  IncreasingIds
    EngineAdapters    EXTENDS  ExceptionCapture, HttpClient
    PropertyJson      on its own
    MCEventQueue, MCEventCapture                       definitions for TLC
    EventQueueProofs, EventQueueDeliveryProofs, RuntimeSubsystemProofs,
    ApplicationLifecycleProofs, EventOrderProofs, EngineAdaptersProofs,
    EventCaptureProofs, PropertyJsonProofs             theorems

Each module takes from its neighbours what their properties establish: `EventQueue` takes
from `HttpClient` that a request completes at most once, never after its cancellation, and
before SendBatch returns when there is no handle; and from `UuidV7` that no two ids are the
same; it takes nothing about their order, see below. `RuntimeSubsystem` takes from
`EventQueue` that every flush ends with its callbacks called once, and `EventCapture` from
`ApplicationLifecycle` when a session ends.

## 3. Modules

### FileStorage

The persisted queue of `FPostHogFileStorageProvider`. `store` has the index of ids
(`EventIdIndex`), the state of each file (absent, whole, or corrupt: a torn or unparsable
file) and the ids whose write is still on `WritePipe`. The history `lost` collects the
events whose write failed and those whose record was given up on purpose. The calls are
operators on the record, so that a handler chains several of them; `WriteTask` is the
background step. Ids are UUIDv7 strings of which only the lexical order counts: natural
numbers here. The index is kept sorted, so it is a set; the pipe is a FIFO in the order of the
calls of SaveEvent, which need not be that of the ids, so it is a sequence, and a death of
the process may tear the file of its first event only (`BeingWritten`).

A wait for the pipe takes place inside LoadEvent, DeleteEvent and ClearEvents. On the one
thread that issues writes, all pending ones settle at the first of these calls of a
handler and none is added before the handler saves again, so a handler settles the pipe
once, choosing which writes fail (`failed`) and which of those leave a partial file
(`torn`).

### EventQueue

`queue` has the fields of `FPostHogEventQueue` and the history `owed` (callbacks
registered and not yet called). `wire` is the set of requests handed to the HTTP client,
`delivered` what the server has ingested, `online` what the reachability provider says. The
histories `accepted` and `late` are the ids that were enqueued, and those of them that were
enqueued when an event of a larger id had been sent already.

One action is one handler with everything it calls: `Enqueue` includes the eviction loop
and the flush a threshold starts; `RequestComplete` includes the deletion of the sent
records and the whole next turn of the flush. A handler that completes a flush calls the
callbacks, and a callback may call the queue again. `stack` therefore holds what the game
thread still has to return to: *notify* frames (callbacks left to call), a *sent* frame
(SendBatch after a request that failed to start, which line 331 guards) and a *clear*
frame (Clear has cancelled and has yet to delete the records). Callbacks may nest
`MaxNesting` deep.

Choices worth knowing:

- The id of an event is taken in its constructor, before the before-send callback and
  Enqueue. A capture nested in that callback takes a larger id and is enqueued first, and a
  process that finds the clock set back starts with smaller ids than those on disk
  (`EventOrder` has both in full). With "disorder" in `Environment` an event may therefore
  arrive with any unused id (`NewIds`); without it, ids arrive in their order.
- The queue sends by id whatever the order of arrival, and can only do so for what it holds:
  hence `NeverOvertaken` leaves out the `late` events. That ids are the order of
  *creation* is not its claim but that of `OldestFirst`, with its condition on the clock.
- `LateCompletions`: `FPostHogHttpClient::FRequestHandle::Cancel` unbinds the delegate, so
  the real client never completes a cancelled request (FALSE). The seam
  `IPostHogBatchTransport` does not demand it and the generation check exists for it, so
  `queue_core` runs with TRUE.
- A completion runs only when the game thread is idle (`stack = <<>>`), except for the
  request that fails to start, which completes inside SendBatch. A transport that
  completes a *successful* request synchronously is not modelled: the real one cannot.
- The recursive call at line 253 is unreachable on one thread (an empty batch with
  records left needs a save in between) and `TryBuildNextBatch` says so: no batch and no
  stop means that every record was removed.
- The pause is the time left, the count of failures saturates at the cap of the back-off,
  the generation wraps at `Generations` and `GenerationFree` keeps a step from reusing one
  that is still in use, which 2^64 generations rule out.
- While Clear runs, the controller has withdrawn consent (`bIsOptedIn` is false before
  `EventQueue->Clear()`), so no call reaches the queue from a callback. Opting in again
  there is in `RuntimeSubsystem`, see `runtime_clear`.
- `Restart` may happen in any state, so also between any two handlers and with writes on
  the pipe; a death inside a handler is covered by the deletions and writes that fail.
- Definitions commented as mutants are not part of the model: each is a plausible bug that
  a property of some run must detect.

### SessionManager

`FPostHogSessionManager` as operators on a record of its fields at a time of its clock;
only whether an id is empty, or the same as before, matters, so ids alternate between 1
and 2. Times count in units; the limits are CONSTANTS.

### ApplicationLifecycle

The session manager (`session`), the lifecycle handler (`handler`: started, its setting
`bCaptureLifecycleEvents`, `bIsInForeground`), the consent that creates and destroys the
handler (`collecting`), and around them what the operating system does (`app`, the running
`version`, the clock `now`) and the saved lifecycle state (`seen`). One action is one
public call or one broadcast of a delegate on the game thread, with every callback it
makes: a delegate to the background updates the session manager, then captures
Backgrounded, which reads the session and, once accepted, touches it. `stamp` and `said`
are histories of what was captured.

Choices worth knowing:

- Two delegates report the way to the background and two the way back. The model lets the
  application skip the inactive state in both directions, as some platforms do.
- The announced end calls the handler and `Shutdown` in either order, since the engine
  does not define one. If Shutdown comes first the handler is unbound unheard.
- The state file may fail to be read or written, or end up torn; `reliable` remembers that
  it never did. A death between the capture of Installed and the save is a failed save.
  `heard` remembers that consent changed only in an active application.
- The application version is never empty. The code takes an empty one that it has saved for
  no version at all, and captures Installed in every process.
- Whether an event is accepted (before-send, the queue) is a free choice here, and decides only
  whether the session is touched.
- The session lock is not modelled: in this plugin every caller is on the game thread.

### ConsentController and RuntimeSubsystem

`controller` has the two flags of `FPostHogConsentController`, whether its storage and
managers exist, and whether its delegates are bound; `queue` and `disk` are the event
queue and its records as the controller sees them (a count, those still on the pipe, a
flush in progress with its callbacks); `saved` is the state file of the consent.
`ConsentController` has the calls as operators; `RuntimeSubsystem` adds the subsystem
object (`runtime`), the quit coordinator (`quit`), the game and the engine, and has the
actions. Again `stack` is what the game thread has still to return to, so a callback may
capture, flush, quit, opt in or out at every point where the code calls out: inside Clear
of an opt-out, inside Shutdown, inside FinalizeQuit, and inside a capture.

A capture is two steps: up to the before-send callback (`Capture`, which leaves a *capture*
frame), and the record after it (`ReturnToCapture`), for which the controller looks at the
consent again. The captures that starting the lifecycle handler makes inside EnableCollection
are one step with it: a before-send callback that changes the consent there destroys the
handler whose `Start` is running, which C++ leaves undefined, and one that
captures or flushes meets a queue that is already complete. A quit begun there, whose
unbinding the end of EnableCollection undoes until the next Shutdown, is not represented.

- `exits` and `wish` (the last choice of the player that came to its end) are histories.
- `ProcessEnds` is both the crash and the orderly end.
- `troubles` is chosen once and says what may happen beyond the ordinary: a `disk` that
  fails, callbacks that opt in again (`optIn`), `settings` that differ in the next process,
  the way a game is updated, a `world` that is missing now and then: without one
  StartFlushTimer sets no timer and StopFlushTimer leaves the one that is set
  (`StartFlushTimer` and `StopFlushTimer` give the values the timer may have afterwards).
- A frame is `stale` when its queue has been destroyed by a nested call: its remaining
  callbacks belong to it and are still called. What C++ makes of a member function whose
  object has been destroyed is undefined; the model goes on with the local copies the code
  has made by then, and touches nothing else.
- `CallbackCalls` is what the game does in its callbacks. Opting in there is one of the
  `troubles`, so `CallAssumption` keeps it out of the set.
- The destructors end with `ReturnToDestroy`: the controller is gone, and with it its queue,
  storage and consent. `ConsentHasCollaborators` speaks of a controller that exists.
- `EnsureFailed` is a report that captures an event. Its own life is in
  `ExceptionCapture`.

`QuitContract` is the promise of FlushAndQuit: open, quitting, leaving, exited, or
abandoned. `RuntimeSubsystem` maps its phase, its coordinator and its exits to `stage`; a
second request to exit would be a stage the contract does not have.

### UuidV7, IncreasingIds, EventOrder

`Choose` is the section of `FGenerator::Generate` under the lock, `Return` the packing
outside it: threads overtake each other between the two. An identifier is the number
spelled by its first 64 bits. `IncreasingIds` is a source of growing numbers;
`IdsIncrease` says that the generator's own fields are one.

`EventOrder` gives the identifiers to events and lets the queue evict and send by them.
`Threads` are the calls of CaptureEvent under way, whether on threads or nested in each
other's before-send callback: `CreateEvent` takes the identifier, `SaveEvent` enqueues the
event afterwards, `DropEvent` is the refusal. SaveEvent evicts in a loop, down to
`MaxQueueSize` of the running process (`capacity`, which differs from build to build), the
oldest records that are not in flight, and stops where a deletion fails (`Evictions`).
`TryBuildNextBatch` deletes unreadable records as it comes to them and puts a batch in
flight; `HandleBatchComplete` deletes the batch as far as it can. Evictions may come in
between. A new process keeps the records and forgets the generator's time.

### IdentityManager, EventProperties, EventCapture

Players use the game one after the other: 1, 2, 3. All that matters of an identifier, a
group key or a session id is whose it is, so its value is the number of the player during
whose time it was made, 0 for none. `IdentityManager` has the manager's operations and the
state files: a save may leave the old file, the new one or a torn one, and nobody looks at
the result; a load may fail for once. `EventProperties` composes an event: each property is
represented by the name of the source that set it. `EventCapture` has the calls: a call
that changes the identity writes the file and sets `call`; `CaptureComposedEvent` captures
it, so the process may die in between. A change in memory and the write of its file are one
step: a death in the middle of the write is the file that failed, of which any outcome is
allowed. Captures are one step here, before-send included; what the game may call from that
callback is in `RuntimeSubsystem`. `last`, `linked` and `loadedFor` are histories.

### PropertyJson

Property trees, the builders of the game, both conversions, and the super properties that
pass both at every restart. Numbers and texts are tokens: the JSON reader and writer of the
engine are assumed to give back what they got.

- The code converts a child with a recursive call. Here `ToJson[n]` and `FromJson[n]` convert
  what is nested less than n deep, and each converts the children with the function one
  below; a call to a builder nests at most one deeper, so the bound `MaxCalls` on these calls
  gives the height that is enough (`MaxHeight`). The bound is one of the model, not of the
  code, and the proofs are for every value of it.
- The fields of a JSON object are a function of the possible names, `None` where there is
  none. `Named` reads them in an order that the model leaves open, as the map of the engine
  does.
- The histories `fields`, `items` and `meant` are computed along the calls without the
  conversions: what a JSON map would hold if each call wrote its value at once. The
  properties compare them with what the builders and the manager convert to.
- Failing state files are the business of `IdentityManager`, and reserved keys that of
  `EventProperties`; here every save succeeds and every key may be registered.

### ExceptionCapture

The ensure adapter and its registration. `stack` has the calls under way: a *report* runs
the whole capture pipeline, a *choice* is a SetAnalyticsOptIn, and either may contain the
other, as before-send and flush callbacks are the game's code.

### HttpClient, EngineAdapters

`HttpClient` has one completion record per request over an engine that may call its
delegate late, twice, or inside ProcessRequest. `EngineAdapters` puts it and
`ExceptionCapture` under one engine that calls them in any order; they share nothing.

## 4. Runs

| Run | Question | Bounds |
|---|---|---|
| `queue_core` | Re-entrancy: one request at a time, its handle held; each callback exactly once; no request during the back-off; Drained means empty | 3 events (one left by an earlier process), 2 callbacks (symmetric), frames 3 deep, requests that fail to start, cancellation, late completions |
| `queue_disk` | Storage and death: the batch of an open request stays whole on disk, nothing is lost silently, delivery follows the ids, the capacity holds | 5 events that arrive in any order, 3 of them left by an earlier process with files that may be torn, capacity 2, failing writes and deletions, any number of restarts at any point |
| `queue_live` | Every callback is called, every record leaves the disk | 2 events (one left by an earlier process), failing writes and loads, network off and on |
| `lifecycle_all` | No session without consent, none too old on an event, no lifecycle event twice, Installed once; with consent changed only in an active application, a session on all its events, and expired sessions go on only at OnBackground | 2 versions, timeout 1, maximum length 2, clock 0 to 4 in both directions, a state file that may fail |
| `lifecycle_unheard` | A documented sentence about sessions. Violated, see below | the same |
| `runtime_all` | No request without consent; nothing kept after an opt-out; consent on disk; nothing unsaved at exit; silent destructors; each callback once; timer and handlers follow the consent; after Shutdown only captures send; `QuitContract` implemented, its liveness included | 2 records, threshold 2, 3 nested calls that capture, flush, quit, opt out and opt in, from the callbacks of a flush and from before-send; without troubles, with disk, opt-in and settings, or without a World; any number of processes, no answer need ever come |
| `runtime_teardown`, `runtime_clear` | Two documented sentences about teardown and consent. Violated, see below | the same, 4 nested calls; callbacks that capture, or opt in |
| `ids` | Identifiers are unique and in order per thread; a refinement of `IncreasingIds`; what is evicted or sent was created before all that waits, if the clock of a new process is past the old identifiers | 2 calls under way, counter of 2, times to 2 (the clock in both directions), capacity 1 or 2 in each process, batches of 1, 5 events |
| `capture` | No event carries another player's identifiers, groups or session; one link per anonymous id; precedence of the sources; an identity that a restart restores | three families of builds: 3 players with refused events and a process that dies in a call; 2 players, contended keys and every profile policy; 2 players with failing state files, before-send and resets while opted out |
| `json` | A super property is sent as registered through any number of restarts and of saves of loaded values; a builder converts to what its calls stand for | 3 calls on 2 builders and an array, 3 keys (one empty), nulls as scalars, 2 registered |
| `adapters` | No report in a report, and exactly the repeats left out; what the queue assumes of the client, and that every request ends | calls 4 deep, intervals 0 and 2, time 0 to 5; 1 request whose delegate is called twice |

Why these bounds suffice: with a capacity of 2 and three events the queue overflows while
a batch is in flight; a batch limit of 2 can be halved, to 1 and then not further; three
generations let a cancelled request meet two newer flushes; three frames let a callback of
a callback start a flush inside SendBatch. In `queue_disk` three stored records exceed the
capacity when the process starts, and the two new ones, of the smallest and the largest id,
may arrive before, during and after a batch, in either order; failing loads and Clear are in
`queue_live` and `queue_core` instead, which keeps the run within minutes, and the proofs
have all of them together. A clock of 4 reaches both limits of a
session, several sessions in a row, and a session kept active past its maximum length; two
versions give an update.
Three calls on builders nest three deep, put an object into itself, or change a builder after
it was nested; the scalar is null, whose value tells nothing, so that only its place and its
key matter; the second registered property makes the next process save a loaded one.
Three players let a reset follow a reset, and the properties compare neighbours. Two
threads and a counter of 2 overflow the counter while the other thread holds an older
choice. Four frames put a report into a choice into a report into a choice; an interval of
2 within a time of 5 gives repeats and reports after them. Requests share nothing, so one
is enough in the runs; the proofs are for any number. Two records with a threshold of
2 start a flush from a capture. `runtime_all` has builds with exception capture; those without
it never register a handler, and are in the proofs. With a capacity of 1 a process that
follows one with 2 evicts twice for one event, and a batch of 1 in flight leaves another
record to be evicted beside it. Deadlock is checked in every run.

Liveness. `FairSpec` assumes: background writes, the clock and the rest of an interrupted
handler make progress (weak fairness: nothing disables them); the flush timer fires again
and again at a moment when a flush can start, the network comes back, and the server
ingests and answers open requests again and again (strong fairness, since each of these is
disabled now and then by a running handler, by an offline spell or by a failed attempt).
Nobody is assumed to capture or to ask for a flush. Without a network that comes back
nothing can be delivered, and the code keeps everything on disk for that case. In
`queue_live` callbacks do not call the queue again: a callback that asks for another flush
while offline is answered at once, and can do so forever.

`LiveSpec` of `RuntimeSubsystem` assumes that the game thread returns from its calls
(`WF(Continue)`) and that its loop comes back to a due ticker (`SF(QuitTimeout)`: callbacks
may make the thread busy again and again, but the engine ticks between them). No answer to
the request and no further call of the game is assumed; the timeout alone ends the quit.
`HttpFairness` assumes that ProcessRequest returns and that the engine ends every request it
has started, by the timeout the client sets.

### Disagreements between code and documents

Three have a run that ends in a counterexample.

`lifecycle_unheard`: opting out destroys the lifecycle handler, the session manager stays.
If the application was inactive then, the manager keeps `bIsInForeground` false; nobody
tells it of the reactivation, and a later opt-in assumes the foreground for the handler
alone. Until the next trip to the background the events of the active application carry no
session, though the header says the id is empty only in the background or without consent.

`runtime_teardown`: a comment in Shutdown, and EP-027, say that the path never initiates
network I/O. Shutdown cancels the flush, whose callbacks may capture; a capture that
reaches the threshold starts a request, while Shutdown is still on the stack beneath it. `OnlyCapturesSendAfterShutdown` says that nothing
else does, and `NothingUnsavedAtExit` that their events still reach the disk.

`runtime_clear`: an opt-in from a callback of the flush that an opt-out cancels sets up new
collaborators, which the rest of the opt-out then tears down: the controller, still in
use, stays opted in without a queue, and captures nothing.

Others are built into the models, where the properties are stated so that they allow them:

- `OnBackground` refreshes the last activity of a session without looking at its expiry, so
  an idle session goes on and is stamped on Application Backgrounded, though EP-009 rotates
  it after 30 minutes. `RevivedOnlyOnBackground` says that nothing else does so.
- `Reset` starts a session in the background too; EP-009 starts them in the foreground.
- EP-021 says that a corrupt first record is deleted and the later ones sent in the same
  flush. If a pending write fails while a flush waits for it, its id leaves the index, the
  deletion does not lower the count, and `DeleteCorruptPersistedEvent` takes that for a lack
  of progress: the flush ends as ProgressBlocked. The next one goes on (`RecordsLeave`).
- An opt-out while collection is not running returns at once and is not persisted.
  `ConsentIsOnDisk` is about choices that came to their end.
- The oldest event is the one with the least identifier, whose time starts again in every
  process: with the clock set back the newest stored event is evicted. Hence `ahead` in
  `OldestFirst`. A capture inside a before-send callback is likewise stored before the event
  whose callback it is, though it has the larger identifier; once it has been sent, the
  older event is `late`.
- While opted out Reset does nothing, and the identity file waits for the next opt-in.
  Hence the exception in `PlayersSeparated`.
- Identify persists first and captures afterwards: if the event is refused, the link is
  never made. `LinkedOnce` says at most once.
- The announced end calls the lifecycle handler and Shutdown in an order the engine does not
  define; if Shutdown comes first, the last Backgrounded is not captured.
- Without a World an opt-out leaves the flush timer running, and an opt-in has none until the
  next one. Hence `HandlersFollowConsent` claims the timer only where there always was a World,
  and `NothingKeptAfterOptOut` holds for reliable storage and a World (`troubles` empty). The
  timer's flush without consent is skipped, so `NoRequestWithoutConsent` needs neither.
- The result of deleting a rejected batch is ignored, and a clock set back extends the
  back-off. The first may send a record again; the second only delays it.

## 5. Proofs

`EventQueueProofs` proves, for every value of the constants that satisfies the stated
assumptions (any number of events, callbacks, generations, any depth of nesting, any
faults): `TypeCorrect`, `NothingLost`, `SingleActive`, `BatchPersisted`.

None of the invariants is inductive alone. The inductive invariant `IInv` adds

- `StoreOK`: what the index holds is on disk or on the pipe, a pending write has no file
  yet, unused ids leave no trace. A restart rebuilds the index from the files, so without
  it a record could be forgotten; and a background write could touch a record in flight;
- `RequestsOK`: what a request carried and the server ingested is in `delivered`, so
  deleting the records after a success loses nothing; a cancelled request has another
  generation than the current one, so its late completion is ignored;
- `FramesOK`: the flush in progress is not the one an interrupted SendBatch or Clear will
  return to, so returning there leaves it alone.

The lemmas go bottom up: storage calls, the end of a flush, one turn of a flush
(`ContinueFacts`), Flush, one lemma per action, then `InitHolds`, `StepHolds` and the
theorems. `IInv` was model-checked on the instances of the runs before it was proved.

`ApplicationLifecycleProofs` proves, for every limit, version set and schedule:
`LifecycleTypes`, `SessionNeedsConsent`, `SessionsAreLive`. Their invariant is `Core`: the
manager's permission is the controller's consent and the handler runs only under it;
without that nothing would stop a delegate from starting a session. `ActiveEvents` and
`ExpiredSessions` follow from `Synced`: as long as every change of consent was `heard`,
handler and manager agree on the foreground, and without a handler the manager believes in
it. `lifecycle_unheard` shows that the condition is needed. `InstalledAtMostOnce` is proved
while the state file is `reliable`: what was captured has been saved. `EventsAlternate`
needs one more fact, that the event captured last agrees with what the handler believes.
The lemmas go from the manager's operations over the capture of an event and the delegates
to one case per action.

`EventOrderProofs` proves `IdTypes`, `InOrder` and the refinement `Increasing` for
any number of threads, any size of the counter and every movement of the clock. The
invariant says that what is chosen or returned lies at most at the generator's own fields,
and that `Pack` keeps the order of (time, counter); the 48-bit limit needs nothing more,
since a call beyond it returns nothing. `OldestGoesFirst` is about the queue on top, for any
capacity and number of events. It speaks of the records at the moment one goes: those that are evicted or
put in flight have lower identifiers than all that stay and are not in flight (`LowestGo`).
That a lower identifier is an older event needs
the same of everything that may become a record: `Items` are the stored ones and those
whose call has an identifier and has not saved yet. Each event has a number of its own
(`BornApart`). `AgeInv` says that among them the
younger has the larger identifier as long as every process found the clock past the
identifiers before it (`ahead`), that all lie at most at the generator's fields, and, before
the first call of a process, below whatever that call can return. `QueueIdsInOrder` and
`QueueIdsIncrease` carry the generator's theorems over to the composition, which the run
checks.

`EngineAdaptersProofs` proves `ExceptionTypes`, `Debounced` and `Bound` for every
interval, duration and depth. The flag, the time and the binding are copies of what the
stack, the history and the settings say; the invariant says that the copies agree. `Bound`
says that the handlers are bound when settings and consent ask for it, which
`HandlersFollowConsent` of `runtime_all` checks in the whole program. It proves
`ContractKept` and `CancelledIsSilent` for any number of requests and any number of calls of
their delegates. The flag `bCompleted` is all the code has; the invariant ties to it the
count of completions, what SendBatch returned and what was reported, and says that a
cancelled request has no delegate. `EventQueue` assumes exactly these two. Since the two
adapters share nothing, each step of the composition is a step of one and a stutter of the
other, and so the three properties hold of it too (`AdaptersDebounced`, `AdaptersContract`,
`AdaptersSilent`).

`RuntimeSubsystemProofs` proves every safety property of `runtime_all` for any number of
records, any threshold, any callbacks and any depth of nested calls. All of them are broken
or saved by what a callback does in the middle of a call, so the inductive invariant `IInv`
is mostly about the frames of the game thread:

- `WellNested` says what lies on what: an opt-out cleans up on its own frame, nothing but
  the drain of the disk comes before the exit, only frames of callbacks have callbacks.
  `EachOnce` says that the callbacks of the queue and of all frames are distinct, disjoint,
  and exactly those owed; `AnsweredOnce` counts places, so one more lemma turns the sets
  into cardinalities (`PlacesAbove`);
- `QueueInv`: a request is out only for a live queue with consent, and only such a queue has
  callbacks. It is what makes the cancellation in an opt-out leave nothing behind;
- `PhaseInv` and `QuitInv` tie the phases of the subsystem and the coordinator to the
  frames: without them a frame of a quit could come back to a coordinator that is gone, and
  the destructors could find a callback waiting;
- `ExitInv`: at most one frame asks for the exit, it lies on a finalized quit, and when it
  is on top the disk has been drained. `QuitAtMostOnce`, the safety half of `QuitContract`,
  follows step by step: every action moves `stage` along one edge of the contract or leaves
  it;
- `HandlersInv`: the handlers, and the timer while there always is a World, agree with the
  consent whenever no opt-in or opt-out is
  on the stack, since each of these calls looks at the consent again when it returns;
- `SteadyInv`, `ConsentInv` and `PlainInv` hold under fewer and fewer `troubles` and tie the
  saved consent, the records and the player's wish to the frames of an opt-out. A crash in
  any state leaves what is on disk, so `PlainInv` must say at every point of an opt-out
  which of the two a restart will find.

The lemmas go from one frame pushed or popped (`Pushed`, `Popped`, and what they mean for
each part of the invariant) over the completion of a flush, the cancellation and the
teardown to one lemma per action. `IInv` was model-checked with two nested calls before it
was proved.

`EventQueueDeliveryProofs` stands on `EventQueueProofs`. Its first half proves `ResolvedOnce`
and `QuietWhilePaused`. Each handler makes one of a few moves with the callbacks: it registers
one, moves those of the queue to a new frame, or shortens or leaves the frame on top. One
lemma per move keeps that the callbacks of the queue and of all frames are distinct,
disjoint and exactly the owed ones; one lemma per handler says which moves it makes. That
no request is open during the back-off follows from `SingleActive` and from the fact that
the queue is never paused and flushing.

Its second half proves `Ordered`, `CapacityKept` and `Emptied`. `NeverOvertaken` is not inductive: it must also speak of the
requests on the wire, which the server may ingest at any later time, and of the records on
the pipe, which may still become good ones (`Held`). A batch is a prefix of the held records
when it is built, since the visited records are a prefix of the index (`VisitedPrefix`, a
fact about cardinalities) and those that are not usable are deleted or stop the flush; from
then on, storage calls only remove records (`Reduced`), and an event that is accepted with a
smaller id than one on the wire is exempt as `late` from its first moment. A flush that builds no batch has
visited the whole index (`NothingUsable`: the oldest usable record is always visited).

`EventCaptureProofs` proves `Separated`, `OneLink`, `Survives` and `LaterSourceWins` for any
number of players, kinds of groups, keys and builds. The invariant: the identity in memory
is the player's own, because every Reset makes a new one; so is that in the file, as long as
files can be trusted and every Reset is heard; a file that does not fail holds what is in
memory; and the anonymous id of a player who has not identified has not been linked. The
first three need each other across a restart, and `OneLink` is the step form of the last
one. `LaterSourceWins` goes through the layers of an event (`GameFacts`, `ComposedFacts`,
`BeforeSendFacts`) and needs of the state that no super property has a reserved key, in
memory or in the file it is loaded from (`SuperUnreserved`): nothing filters them when they
are applied.

`PropertyJsonProofs` proves `ThereAndBack`, `SuperPropertiesSurvive` and `BuildersConvert` for
any keys, builders, nesting and number of calls. What the conversions compute is a fact about
data of any depth. The library's induction rules cannot be applied by the installed provers,
so the induction is one over sets: a set of natural numbers that has 0, and with each number
the next, has them all (`Induction`, from the well-foundedness of the natural numbers), and
each fact is the set of the heights it holds at. That way the two recursions are shown to
have a solution (`ToJsonUnfolds`, `FromJsonUnfolds`), a conversion to give the same at every
height that is enough, and a JSON value to come back as it was (`ThereAndBack`): an object
read in any order converts to the same fields because its names differ. The converse does not
hold, and is not needed: a property read back has lost the children that a later one under
the same key had hidden. The invariant has two parts. `BuildersAgree` says that the children
of each builder are nested no deeper than the calls so far, and that each builder and the
array convert to their histories; appending overwrites, since the last child under a key is
that of the appended part if it has one there. `SuperAgree` says that the registered
properties convert to `meant`, which is also what the file holds; a restart keeps it by
`ThereAndBack`, and the next save writes the same JSON again.

The assumptions on the constants are the named ones of the modules: limits and bounds are
numbers, a capacity, a retry delay and the size of a counter are positive where the code
relies on it, and the settings are of their types; the keys are finitely many, with the empty one among them. None restricts how many events, callbacks, players, threads or
nested calls there are.

Only model-checked:

- liveness (`CallbacksAreCalled`, `RecordsLeave`, `AlwaysCompleted`, and the liveness half of
  `QuitContractKept`), which is out of the prover's reach; the safety half is
  `QuitAtMostOnce`.

The theorems about `RuntimeSubsystem` are about `Spec`; the run checks `LiveSpec`, which is
`Spec` with fairness and so has fewer behaviours.

## 6. Not modelled

See `PROJECT.json` for every component. Left out for good: the texts of JSON, of the
exception adapters and of the event context, logging, settings (they are the CONSTANTS, or
a choice at the start of a process), SDK information, the forwarding part of the Blueprint
facade, the documentation site and the scripts. The lifetime of C++ objects is below the
models (a callback that destroys the queue whose member function is running). Ensures that
fail on other threads depend on the engine. Left for a next step: section 2, point 11.
