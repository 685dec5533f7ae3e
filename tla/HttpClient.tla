----------------------------- MODULE HttpClient -----------------------------
(***************************************************************************)
(* FPostHogHttpClient: one HTTP request per SendBatch and one completion   *)
(* per request, over an engine that may call its delegate late, twice, or  *)
(* while ProcessRequest still runs.  EventQueue takes from this module     *)
(* what its variable wire assumes of a request.                            *)
(***************************************************************************)
EXTENDS Naturals

CONSTANTS
  Requests,   \* the calls of SendBatch
  MaxFires    \* bound on the calls of a request's delegate by the engine

ASSUME FiresAssumption == MaxFires \in Nat

VARIABLES
  call,        \* where SendBatch is, and what it returned (Places)
  bound,       \* whether OnProcessRequestComplete is bound
  bCompleted,  \* FCompletionState::bCompleted
  fires,       \* how often the engine has called the delegate
  calls,       \* history: how often OnComplete was called
  answer,      \* what the engine has got for the request (Answers)
  reported     \* history: the bSuccess of the first call of OnComplete

httpVars == <<call, bound, bCompleted, fires, calls, answer, reported>>

(* starting: inside ProcessRequest.  handle, null: what was returned.      *)
Places == {"unused", "starting", "handle", "cancelled", "null"}

(* none: no valid response, for want of a connection.  refused: a response *)
(* with another status than 2xx.  cut: a response, and then the request    *)
(* failed.                                                                 *)
Answers == {"none", "cut", "refused", "ok"}

HttpInit ==
  /\ call = [r \in Requests |-> "unused"]
  /\ bound = [r \in Requests |-> FALSE]
  /\ bCompleted = [r \in Requests |-> FALSE]
  /\ fires = [r \in Requests |-> 0]
  /\ calls = [r \in Requests |-> 0]
  /\ answer = [r \in Requests |-> "none"]
  /\ reported = [r \in Requests |-> FALSE]

-----------------------------------------------------------------------------

(* Mutant of the next: the flag is not looked at.                          *)
CompleteUnchecked(r, success) ==
  /\ bCompleted' = [bCompleted EXCEPT ![r] = TRUE]
  /\ calls' = [calls EXCEPT ![r] = @ + 1]
  /\ reported' = [reported EXCEPT ![r] = IF calls[r] = 0 THEN success ELSE @]

CompleteOnce(r, success) ==
  IF bCompleted[r] THEN UNCHANGED <<bCompleted, calls, reported>>
  ELSE /\ bCompleted' = [bCompleted EXCEPT ![r] = TRUE]
       /\ calls' = [calls EXCEPT ![r] = @ + 1]
       /\ reported' = [reported EXCEPT ![r] = success]

IsSuccessfulResponse(got) == got = "ok"

(* A payload that does not serialise is completed before SendBatch returns.*)
SerializeFails(r) ==
  /\ call[r] = "unused"
  /\ CompleteOnce(r, FALSE)
  /\ call' = [call EXCEPT ![r] = "null"]
  /\ UNCHANGED <<bound, fires, answer>>

(* Mutant of the next: the delegate is not bound.                          *)
SendBatchUnbound(r) ==
  /\ call[r] = "unused"
  /\ call' = [call EXCEPT ![r] = "starting"]
  /\ UNCHANGED <<bound, bCompleted, fires, calls, answer, reported>>

SendBatch(r) ==
  /\ call[r] = "unused"
  /\ bound' = [bound EXCEPT ![r] = TRUE]
  /\ call' = [call EXCEPT ![r] = "starting"]
  /\ UNCHANGED <<bCompleted, fires, calls, answer, reported>>

ProcessRequestReturns(r, started) ==
  /\ call[r] = "starting"
  /\ call' = [call EXCEPT ![r] = IF started THEN "handle" ELSE "null"]
  /\ IF started THEN UNCHANGED <<bCompleted, calls, reported>>
     ELSE CompleteOnce(r, FALSE)
  /\ UNCHANGED <<bound, fires, answer>>

(* The engine calls what is bound: nothing, once the handle was cancelled. *)
EngineCompletes(r) ==
  /\ call[r] # "unused"
  /\ fires[r] < MaxFires
  /\ fires' = [fires EXCEPT ![r] = @ + 1]
  /\ \E got \in Answers :
       /\ answer' = [answer EXCEPT ![r] = IF bCompleted[r] THEN @ ELSE got]
       /\ IF bound[r] THEN CompleteOnce(r, IsSuccessfulResponse(got))
          ELSE UNCHANGED <<bCompleted, calls, reported>>
  /\ UNCHANGED <<call, bound>>

(* Mutant of the next: the delegate stays bound.                           *)
CancelBound(r) ==
  /\ call[r] = "handle"
  /\ call' = [call EXCEPT ![r] = "cancelled"]
  /\ UNCHANGED <<bound, bCompleted, fires, calls, answer, reported>>

(* FRequestHandle::Cancel.  CancelRequest may call the delegate at once,   *)
(* or later, or not: EngineCompletes stands for it.                        *)
Cancel(r) ==
  /\ call[r] = "handle"
  /\ call' = [call EXCEPT ![r] = "cancelled"]
  /\ bound' = [bound EXCEPT ![r] = FALSE]
  /\ UNCHANGED <<bCompleted, fires, calls, answer, reported>>

HttpNext ==
  \E r \in Requests :
    \/ SerializeFails(r)
    \/ SendBatch(r)
    \/ \E started \in BOOLEAN : ProcessRequestReturns(r, started)
    \/ EngineCompletes(r)
    \/ Cancel(r)

HttpSpec == HttpInit /\ [][HttpNext]_httpVars

(* ProcessRequest returns, and the engine ends every request it has        *)
(* started, by its timeout at the latest (SetTimeout).                     *)
HttpFairness ==
  \A r \in Requests :
    /\ WF_httpVars(\E started \in BOOLEAN : ProcessRequestReturns(r, started))
    /\ WF_httpVars(call[r] = "handle" /\ EngineCompletes(r))

-----------------------------------------------------------------------------

(* CompletedAtMostOnce: the queue hears of a request once, though the      *)
(* serialisation, the start and the delegate may each end it, and the      *)
(* delegate late or twice (CompleteOnce).                                  *)
CompletedAtMostOnce == \A r \in Requests : calls[r] <= 1

(* NoHandleWhenDone: SendBatch returns no handle only for a request whose  *)
(* completion has been called, which is how the queue can tell that no     *)
(* completion is to come (SendBatch, and PostHogEventQueue.cpp:331).       *)
NoHandleWhenDone == \A r \in Requests : call[r] = "null" => calls[r] = 1

(* SilentAfterCancel: a cancelled request is not heard of again, whatever  *)
(* CancelRequest and the platform do (FRequestHandle::Cancel).             *)
SilentAfterCancel ==
  [][\A r \in Requests : call[r] = "cancelled" => calls'[r] = calls[r]]_httpVars

(* SuccessWasAnswered: a success, for which the queue deletes the batch,   *)
(* is reported only for a complete response with a 2xx status, and never   *)
(* for a later response than the one that counted (IsSuccessfulResponse).  *)
SuccessWasAnswered == \A r \in Requests : reported[r] => answer[r] = "ok"

(* RequestContract: what the queue relies on: one completion, which has    *)
(* come when there is no handle, and a success only for an answer          *)
(* (SendBatch).                                                            *)
RequestContract == CompletedAtMostOnce /\ NoHandleWhenDone /\ SuccessWasAnswered

(* AlwaysCompleted: every request ends in a completion, unless the queue   *)
(* cancels it (SendBatch): a flush does not wait for ever.                 *)
AlwaysCompleted ==
  \A r \in Requests :
    call[r] \in {"starting", "handle"} ~> (calls[r] = 1 \/ call[r] = "cancelled")

=============================================================================
