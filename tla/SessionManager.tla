--------------------------- MODULE SessionManager ---------------------------
(***************************************************************************)
(* FPostHogSessionManager: the rotating in-memory session id.              *)
(*                                                                         *)
(* The operators work on the manager's fields, in a record, at a time t of *)
(* its clock.  Only whether an id is empty (0) and whether it is still the *)
(* same matters, so the generator alternates between two.                  *)
(***************************************************************************)
EXTENDS Integers

CONSTANTS SessionTimeout, MaxSessionLength

ASSUME SessionLimitsAssumption ==
  SessionTimeout \in Nat /\ MaxSessionLength \in Nat

Session ==
  [id: 0..2, start: Int, last: Int, foreground: BOOLEAN, permitted: BOOLEAN]

(* ClearSessionInternal resets the times with the id.                      *)
TimesOnlyInSession(s) == s.id = 0 => s.start = 0 /\ s.last = 0

(* A process starts without a session, taken to be in the foreground.      *)
NewSession ==
  [id |-> 0, start |-> 0, last |-> 0, foreground |-> TRUE, permitted |-> FALSE]

(* SessionIdGenerator.                                                     *)
NextId(s) == IF s.id = 1 THEN 2 ELSE 1

WithSession(s, id, t) ==
  [id |-> id, start |-> t, last |-> t,
   foreground |-> s.foreground, permitted |-> s.permitted]

(* Also ClearSessionInternal: without a session both times are zero.       *)
EndSession(s) == WithSession(s, 0, 0)

(* Mutant: sessions start without regard to the permission.                *)
StartNewSessionUnasked(s, t) == WithSession(s, NextId(s), t)

StartNewSession(s, t) ==
  IF s.permitted THEN WithSession(s, NextId(s), t) ELSE EndSession(s)

(* Mutant: no bound on the length of a session.                            *)
HasExpiredWhenIdle(s, t) == s.id # 0 /\ t - s.last > SessionTimeout

HasExpired(s, t) ==
  /\ s.id # 0
  /\ t - s.start > MaxSessionLength \/ t - s.last > SessionTimeout

HandleExpired(s, t) ==
  IF s.foreground THEN StartNewSession(s, t) ELSE EndSession(s)

(* GetSessionId: the state after it, whose id it returns.                  *)
GetSessionId(s, t) ==
  IF s.id = 0 /\ s.foreground THEN StartNewSession(s, t)
  ELSE IF HasExpired(s, t) THEN HandleExpired(s, t) ELSE s

Touch(s, t) ==
  IF s.id = 0 THEN s
  ELSE IF HasExpired(s, t) THEN HandleExpired(s, t) ELSE [s EXCEPT !.last = t]

(* Mutant: coming to the foreground counts as activity, whatever went on.  *)
OnForegroundUnchecked(s, t) ==
  LET f == [s EXCEPT !.foreground = TRUE]
  IN  IF s.id = 0 THEN StartNewSession(f, t) ELSE [f EXCEPT !.last = t]

OnForeground(s, t) ==
  LET f == [s EXCEPT !.foreground = TRUE]
  IN  IF s.id = 0 THEN StartNewSession(f, t)
      ELSE IF HasExpired(s, t) THEN HandleExpired(f, t) ELSE [f EXCEPT !.last = t]

(* Mutant: the time of the last activity is set without a session, too.    *)
OnBackgroundUnchecked(s, t) == [[s EXCEPT !.foreground = FALSE] EXCEPT !.last = t]

OnBackground(s, t) ==
  LET b == [s EXCEPT !.foreground = FALSE]
  IN  IF s.id = 0 THEN b ELSE [b EXCEPT !.last = t]

SetCollectionPermitted(s, permitted) == [s EXCEPT !.permitted = permitted]

=============================================================================
