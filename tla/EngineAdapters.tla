--------------------------- MODULE EngineAdapters ---------------------------
(***************************************************************************)
(* The two adapters of the plugin that live on delegates of the engine:    *)
(* the exception capture on that of the failed ensures, the HTTP client on *)
(* that of a request's completion.  They share nothing; the engine calls   *)
(* them in any order, also while a call of the other one is under way.     *)
(***************************************************************************)
EXTENDS ExceptionCapture, HttpClient

AdaptersInit == Init /\ HttpInit

ExceptionStep == Next /\ UNCHANGED httpVars

HttpStep == HttpNext /\ UNCHANGED vars

AdaptersSpec ==
  /\ AdaptersInit
  /\ [][ExceptionStep \/ HttpStep]_<<vars, httpVars>>
  /\ HttpFairness

=============================================================================
