---------------------------- MODULE EventCapture ----------------------------
(***************************************************************************)
(* Who an event is attributed to: the identity, the session, the groups    *)
(* and the super properties of FPostHogConsentController, the calls that   *)
(* change them, and the capture that puts them on an event.                *)
(*                                                                         *)
(* A call of the game changes the identity and its file first and captures *)
(* an event afterwards; the process may die in between.  When the game is  *)
(* used by the next player it calls Reset (see IdentityManager for what    *)
(* the numbers stand for).  The consent itself, and what becomes of an     *)
(* accepted event, belong to RuntimeSubsystem and EventQueue; the times of *)
(* a session to SessionManager.                                            *)
(***************************************************************************)
EXTENDS IdentityManager, EventProperties

CONSTANTS
  Profiles,  (* the PersonProfiles settings a build may have                *)
  CallKeys,  (* keys of the properties the game passes to a call            *)
  Builds     (* the builds of the game, and what may happen to them         *)

(* files: state files may fail to load or to save.  beforeSend: the game   *)
(* has installed a before-send callback.  refusals: that callback or the   *)
(* queue may refuse an event.  crashes: the process may die in the middle  *)
(* of a call.  optedOut: the players may change while opted out.           *)
Trouble == {"files", "beforeSend", "refusals", "crashes", "optedOut"}

(* bReuseAnonymousId, PersonProfiles, the keys the game uses in its calls, *)
(* how many players there are, and the troubles they meet.                 *)
Build ==
  [reuse: BOOLEAN, profiles: Profiles, keys: SUBSET CallKeys,
   players: 1 .. MaxPlayers, troubles: SUBSET Trouble]

ASSUME BuildAssumption == Profiles \subseteq Policies /\ Builds \subseteq Build

VARIABLES
  player,        (* history: whose time it is                               *)
  settings,      (* the build that runs; it never changes                   *)
  optedIn,       (* bIsOptedIn, with the collaborators in place             *)
  identity, identityFile,
  super, superFile,
  session,       (* the player the session id was generated for, or 0       *)
  foreground,    (* the session manager's bIsInForeground                   *)
  call,          (* the event the running call is about to capture          *)
  last,          (* history: the event the last step captured, if any       *)
  linked,        (* history: the anonymous ids a $identify has linked       *)
  loadedFor      (* history: the player at the last LoadOrCreate            *)

memory == <<identity, super>>
files == <<identityFile, superFile>>
vars == <<player, settings, optedIn, memory, files, session, foreground,
          call, last, linked, loadedFor>>

Call == [kind: Kinds, given: SUBSET CallKeys, link: Owner]

NoCall == [kind |-> "none"]
NoEvent == [kind |-> "none"]

Meets(trouble) == trouble \in settings.troubles

NoneCaptured == last' = NoEvent /\ UNCHANGED <<linked, loadedFor>>

Idle == call.kind = "none"

TypeOK ==
  /\ player \in 1 .. MaxPlayers
  /\ settings \in Builds
  /\ {optedIn, foreground} \subseteq BOOLEAN
  /\ identity \in Identity
  /\ identity.isIdentified = (identity.distinctId # 0)
  /\ optedIn = (identity.anonymousId # 0)
  /\ identityFile \in StateFile(Identity)
  /\ super \in SUBSET SuperKeys
  /\ superFile \in StateFile(SUBSET SuperKeys)
  /\ session \in Owner
  /\ Idle \/ call \in Call
  /\ last.kind \in Kinds => {last.properties[key] : key \in DOMAIN last.properties}
                            \subseteq Sources
  /\ linked \subseteq Owner /\ loadedFor \in Owner

Init ==
  /\ player = 1
  /\ settings \in Builds
  /\ optedIn = FALSE /\ foreground = TRUE
  /\ identity = NoIdentity /\ identityFile = Empty("absent", NoIdentity)
  /\ super = {} /\ superFile = Empty("absent", {})
  /\ session = 0
  /\ call = NoCall /\ last = NoEvent
  /\ linked = {} /\ loadedFor = 0

-----------------------------------------------------------------------------
(* The consent.                                                            *)

(* EnableCollection, from Initialize or SetOptIn.                          *)
EnableCollection ==
  /\ Idle /\ ~optedIn
  /\ optedIn' = TRUE
  /\ \E loaded \in LoadOrCreate(identityFile, player, Meets("files")) :
       identity' = loaded[1] /\ identityFile' = loaded[2]
  /\ super' \in LoadSuper(superFile, Meets("files"))
  /\ loadedFor' = player
  /\ last' = NoEvent
  /\ UNCHANGED <<player, settings, superFile, session, foreground, call, linked>>

DisableCollection ==
  /\ Idle /\ optedIn
  /\ optedIn' = FALSE
  /\ identity' = NoIdentity /\ super' = {}
  /\ session' = 0
  /\ UNCHANGED <<player, settings, files, foreground, call>>
  /\ NoneCaptured

-----------------------------------------------------------------------------
(* The calls that change the identity.                                     *)

Persist ==
  identityFile' \in SaveState(identityFile, identity', NoIdentity, Meets("files"))

Capture(kind, given, link) ==
  call' = [kind |-> kind, given |-> given, link |-> link]

(* Mutant of it: nothing is written.                                       *)
IdentifyUnsaved ==
  /\ Idle /\ optedIn
  /\ identity' = Identified(identity, player)
  /\ Capture("$identify", {}, PreviousAnonymousId(identity))
  /\ UNCHANGED <<player, settings, optedIn, super, files, session,
                 foreground>>
  /\ NoneCaptured

Identify ==
  /\ Idle /\ optedIn
  /\ identity' = Identified(identity, player)
  /\ Persist
  /\ Capture("$identify", {}, PreviousAnonymousId(identity))
  /\ UNCHANGED <<player, settings, optedIn, super, superFile, session,
                 foreground>>
  /\ NoneCaptured

(* The next player takes over.  Without consent the call does nothing.     *)
(* Mutant of it: an identity that could not be saved is taken back.        *)
ResetIfSaved ==
  /\ Idle /\ player < settings.players
  /\ optedIn \/ Meets("optedOut")
  /\ player' = player + 1
  /\ IF optedIn
     THEN LET new == Reset(identity, player', settings.reuse) IN
          /\ identityFile' \in SaveState(identityFile, new, NoIdentity, Meets("files"))
          /\ identity' = IF identityFile' = Whole(new) THEN new ELSE identity
          /\ session' = player'
     ELSE UNCHANGED <<identity, identityFile, session>>
  /\ UNCHANGED <<settings, optedIn, super, superFile, foreground, call>>
  /\ NoneCaptured

ResetForNextPlayer ==
  /\ Idle /\ player < settings.players
  /\ optedIn \/ Meets("optedOut")
  /\ player' = player + 1
  /\ IF optedIn
     THEN /\ identity' = Reset(identity, player', settings.reuse)
          /\ Persist
          /\ session' = player'
     ELSE UNCHANGED <<identity, identityFile, session>>
  /\ UNCHANGED <<settings, optedIn, super, superFile, foreground, call>>
  /\ NoneCaptured

Group(type) ==
  /\ Idle /\ optedIn
  /\ identity' = SetGroup(identity, type, player)
  /\ Persist
  /\ Capture("$groupidentify", {}, 0)
  /\ UNCHANGED <<player, settings, optedIn, super, superFile, session,
                 foreground>>
  /\ NoneCaptured

ResetGroups ==
  /\ Idle /\ optedIn
  /\ identity' = ClearGroups(identity)
  /\ Persist
  /\ UNCHANGED <<player, settings, optedIn, super, superFile, session,
                 foreground, call>>
  /\ NoneCaptured

-----------------------------------------------------------------------------
(* The calls that change the super properties.                             *)

SuperSaved(saves) ==
  IF saves THEN superFile' \in SaveState(superFile, super', {}, Meets("files"))
  ELSE UNCHANGED superFile

RegisterSuperProperty(key) ==
  /\ Idle /\ optedIn
  /\ super' = Register(super, key, GetReservedPropertyKeys)
  /\ SuperSaved(RegisterSaves(key, GetReservedPropertyKeys))
  /\ UNCHANGED <<player, settings, optedIn, identity, identityFile, session,
                 foreground, call>>
  /\ NoneCaptured

UnregisterSuperProperty(key) ==
  /\ Idle /\ optedIn
  /\ super' = super \ {key}
  /\ SuperSaved(UnregisterSaves(super, key))
  /\ UNCHANGED <<player, settings, optedIn, identity, identityFile, session,
                 foreground, call>>
  /\ NoneCaptured

ClearSuperProperties ==
  /\ Idle /\ optedIn
  /\ super' = {}
  /\ SuperSaved(TRUE)
  /\ UNCHANGED <<player, settings, optedIn, identity, identityFile, session,
                 foreground, call>>
  /\ NoneCaptured

-----------------------------------------------------------------------------
(* Capturing an event.                                                     *)

(* CaptureEvent, CaptureScreen, CaptureException, Alias.                   *)
CaptureEvent(kind, given) ==
  /\ Idle /\ optedIn
  /\ Capture(kind, given, 0)
  /\ UNCHANGED <<player, settings, optedIn, memory, files, session,
                 foreground>>
  /\ NoneCaptured

(* What the session manager answers at some time: an expired session gives *)
(* way to a new one in the foreground, to none in the background.          *)
Renewed == IF foreground THEN player ELSE 0
SessionAt(s) == IF s = 0 THEN {Renewed} ELSE {s, Renewed}

Event(properties, s) ==
  [kind |-> call.kind, player |-> player, given |-> call.given,
   super |-> super,
   distinctId |-> GetEffectiveDistinctId(identity),
   isIdentified |-> identity.isIdentified,
   session |-> s, groups |-> identity.groups,
   link |-> IF "$anon_distinct_id" \in DOMAIN properties THEN call.link ELSE 0,
   properties |-> properties]

ComposedEvent(s) ==
  Composed(call.kind, call.given, call.link # 0, super,
           ShouldProcessPersonProfile(settings.profiles, identity.isIdentified),
           s # 0, identity.groups # NoGroups)

(* CaptureEventWithProducerProperties; Touch may renew the session again.  *)
CaptureComposedEvent ==
  /\ ~Idle
  /\ call' = NoCall
  /\ \E s \in SessionAt(session) :
       \/ /\ \E properties \in IF Meets("beforeSend")
                               THEN AfterBeforeSend(ComposedEvent(s))
                               ELSE {ComposedEvent(s)} :
               last' = Event(properties, s)
          /\ linked' = linked \cup ({last'.link} \ {0})
          /\ session' \in IF s = 0 THEN {0} ELSE SessionAt(s)
       \/ Meets("refusals") /\ session' = s /\ last' = NoEvent /\ UNCHANGED linked
  /\ UNCHANGED <<player, settings, optedIn, memory, files, foreground, loadedFor>>

-----------------------------------------------------------------------------
(* The application, and the process.                                       *)

(* OnForeground and OnBackground, from the lifecycle handler.              *)
OnForeground ==
  /\ Idle /\ optedIn /\ ~foreground
  /\ foreground' = TRUE
  /\ session' \in {player} \cup ({session} \ {0})
  /\ UNCHANGED <<player, settings, optedIn, memory, files, call>>
  /\ NoneCaptured

OnBackground ==
  /\ Idle /\ optedIn /\ foreground
  /\ foreground' = FALSE
  /\ UNCHANGED <<player, settings, optedIn, memory, files, session, call>>
  /\ NoneCaptured

(* The process exits or dies; the next starts with what is on disk.        *)
ProcessEnds ==
  /\ Idle \/ Meets("crashes")
  /\ optedIn' = FALSE /\ foreground' = TRUE
  /\ identity' = NoIdentity /\ super' = {} /\ session' = 0
  /\ call' = NoCall
  /\ UNCHANGED <<player, settings, files>>
  /\ NoneCaptured

Next ==
  \/ EnableCollection \/ DisableCollection
  \/ Identify \/ ResetForNextPlayer \/ ResetGroups
  \/ \E type \in GroupTypes : Group(type)
  \/ \E key \in SuperKeys :
       RegisterSuperProperty(key) \/ UnregisterSuperProperty(key)
  \/ ClearSuperProperties
  \/ \E kind \in {"custom", "$screen", "$exception"}, given \in SUBSET settings.keys :
       CaptureEvent(kind, given)
  \/ CaptureEvent("$create_alias", {})
  \/ CaptureComposedEvent
  \/ OnForeground \/ OnBackground \/ ProcessEnds

Spec == Init /\ [][Next]_vars

-----------------------------------------------------------------------------
(* Properties.                                                             *)

Captured == last.kind # "none"

(* The event carries the session, the groups and, unless the anonymous id  *)
(* is to be reused, the identifiers of the player who was there.           *)
OwnEvent ==
  /\ last.session \in {0, last.player}
  /\ \A type \in GroupTypes : last.groups[type] \in {0, last.player}
  /\ settings.reuse \/ last.link \in {0, last.player}
  /\ last.distinctId = last.player \/ (settings.reuse /\ ~last.isIdentified)

(* Reset separates the players, through opt-outs, restarts, calls that are *)
(* cut off by a crash and sessions that expire.  State files that fail,    *)
(* and a Reset without consent, which does nothing, can mix them up only   *)
(* by an identity that is loaded: never across a Reset within one run of   *)
(* the collection (Reset, LoadOrCreate, PersistState, EndSession).         *)
PlayersSeparated ==
  /\ Captured
  /\ ~(Meets("files") \/ Meets("optedOut")) \/ last.player > loadedFor
  => OwnEvent

(* A restart finds the identity, the groups and the super properties the   *)
(* way they were, also in the middle of a call (PersistState).             *)
SurvivesRestart ==
  optedIn /\ ~Meets("files") =>
    /\ identityFile = Whole(identity)
    /\ superFile = IF superFile.state = "whole" THEN Whole(super) ELSE superFile
    /\ superFile.state # "whole" => super = {}

(* An anonymous id is linked to a user at most once between two resets: a  *)
(* $identify that carries a link is followed by none (Identify).           *)
LinkedOnce ==
  [][(Captured' /\ last'.kind = "$identify" /\ last'.link # 0)
       => last'.link \notin linked \/ settings.reuse \/ Meets("files")]_vars

(* Of two sources of a property the later one in this list has its way:    *)
(* super properties, the call, the producer, the SDK with the session and  *)
(* the groups; no reserved key comes from the game, and one the SDK does   *)
(* not set this time is absent (ApplyToEvent, Register,                    *)
(* CaptureEventWithProducerProperties).                                    *)
Expected(key) ==
  IF key \in GetReservedPropertyKeys
  THEN CASE key = "$session_id" -> "session"
         [] key = "$groups" -> "groups"
         [] key = "$screen_name" -> "producer"
         [] OTHER -> "sdk"
  ELSE IF key \in Built(last.kind, last.link # 0) THEN "built"
  ELSE IF key \in last.given THEN "call" ELSE "super"

ComposedInOrder ==
  Captured =>
    \A key \in DOMAIN last.properties :
      last.properties[key] \in {Expected(key), "callback"}

=============================================================================
