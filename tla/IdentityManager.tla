-------------------------- MODULE IdentityManager --------------------------
(***************************************************************************)
(* FPostHogIdentityManager and FPostHogSuperPropertiesManager: what they   *)
(* hold, and the state files they load from and save to.                   *)
(*                                                                         *)
(* Players use the game one after the other, 1, 2, 3 ...  What matters of  *)
(* an identifier or of a group key is whose it is, so its value is the     *)
(* player during whose time it was generated or given; 0 is the empty one. *)
(***************************************************************************)
EXTENDS Integers

CONSTANTS
  MaxPlayers,   (* bound on the players                                     *)
  GroupTypes,   (* the kinds of groups                                      *)
  SuperKeys     (* keys the game registers super properties under           *)

ASSUME PlayerAssumption == MaxPlayers \in Nat

Owner == 0 .. MaxPlayers

Identity ==
  [anonymousId: Owner, distinctId: Owner, isIdentified: BOOLEAN,
   groups: [GroupTypes -> Owner]]

NoGroups == [type \in GroupTypes |-> 0]

NewIdentity(player) ==
  [anonymousId |-> player, distinctId |-> 0, isIdentified |-> FALSE,
   groups |-> NoGroups]

(* The manager does not exist, or nothing could be parsed.                 *)
NoIdentity == NewIdentity(0)

-----------------------------------------------------------------------------
(* State files: absent, a whole document, or what a failed write left.     *)
(* fails if they may fail to load or to save.                              *)

StateFile(contents) ==
  [state: {"absent", "whole", "torn"}, content: contents]

Whole(content) == [state |-> "whole", content |-> content]

Empty(state, nothing) == [state |-> state, content |-> nothing]

(* SaveState; every caller ignores its result.                             *)
SaveState(file, content, nothing, fails) ==
  {Whole(content)}
  \cup (IF fails THEN {file, Empty("torn", nothing)} ELSE {})

(* LoadState and the parsing: whether a document of this schema was read.  *)
LoadState(file, fails) ==
  IF fails THEN {FALSE, file.state = "whole"} ELSE {file.state = "whole"}

-----------------------------------------------------------------------------
(* The identity.                                                           *)

GetEffectiveDistinctId(i) ==
  IF i.distinctId = 0 THEN i.anonymousId ELSE i.distinctId

(* What LoadOrCreate leaves in memory and on disk.                         *)
LoadOrCreate(file, player, fails) ==
  {<<file.content, file>> : read \in LoadState(file, fails) \cap {TRUE}}
  \cup
  {<<NewIdentity(player), saved>> :
     saved \in IF FALSE \in LoadState(file, fails)
               THEN SaveState(file, NewIdentity(player), NoIdentity, fails) ELSE {}}

(* Identify, and the anonymous id it returns for the link.                 *)
Identified(i, player) == [i EXCEPT !.distinctId = player, !.isIdentified = TRUE]

(* Mutant of the next: every call links.                                   *)
PreviousAnonymousIdAlways(i) == i.anonymousId

PreviousAnonymousId(i) == IF i.isIdentified THEN 0 ELSE i.anonymousId

Reset(i, player, bReuseAnonymousId) ==
  NewIdentity(IF bReuseAnonymousId THEN i.anonymousId ELSE player)

SetGroup(i, type, player) == [i EXCEPT !.groups[type] = player]

ClearGroups(i) == [i EXCEPT !.groups = NoGroups]

-----------------------------------------------------------------------------
(* The super properties: the keys that are registered.                     *)

(* A file that cannot be read gives an empty map, and is left as it is.    *)
LoadSuper(file, fails) ==
  {IF read THEN file.content ELSE {} : read \in LoadState(file, fails)}

Register(super, key, reserved) ==
  IF key \in reserved THEN super ELSE super \cup {key}

(* Whether Register and Unregister write the file.                         *)
RegisterSaves(key, reserved) == key \notin reserved

UnregisterSaves(super, key) == key \in super

=============================================================================
