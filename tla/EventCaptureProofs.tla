------------------------- MODULE EventCaptureProofs -------------------------
(***************************************************************************)
(* Proofs about EventCapture, for any number of players, any kinds of      *)
(* groups, any keys and builds, and any schedule of calls, failures and    *)
(* restarts.                                                               *)
(*                                                                         *)
(* An event is the player's own because the identity in memory is; that is *)
(* so because every Reset makes a new one, and because what a restart      *)
(* loads, if files can be trusted and every Reset is heard, is the         *)
(* identity of the moment before.                                          *)
(***************************************************************************)
EXTENDS EventCapture, TLAPS

(* The identity is the player's; the anonymous id may be reused.           *)
Own(i) ==
  /\ settings.reuse = TRUE \/ i.anonymousId = player
  /\ i.distinctId \in {0, player}
  /\ \A type \in GroupTypes : i.groups[type] \in {0, player}

(* The flag says whether there is a distinct id, and no anonymous id is    *)
(* from the future.                                                        *)
Sound(i) ==
  /\ i.isIdentified = TRUE <=> i.distinctId # 0
  /\ i.anonymousId \in 0 .. player

Types ==
  /\ player \in 1 .. MaxPlayers
  /\ settings \in Builds
  /\ optedIn \in BOOLEAN
  /\ identity \in Identity /\ Sound(identity)
  /\ identityFile \in StateFile(Identity) /\ Sound(identityFile.content)
  /\ Idle \/ call.link \in 0 .. player
  /\ linked \subseteq 0 .. player /\ loadedFor \in 0 .. player

(* A call captures within the consent; the session is the player's.        *)
Consented ==
  /\ ~Idle => optedIn = TRUE
  /\ session \in {0, player}
  /\ optedIn = FALSE => session = 0

(* Files that do not fail, and players who change only with consent.       *)
Tame == ~(Meets("files") \/ Meets("optedOut"))

(* The identity in memory is the player's own, if nothing went wrong or it *)
(* has been reset since it was loaded; so is the link of a running call.   *)
MemoryOwned ==
  optedIn = TRUE /\ (Tame \/ player > loadedFor) =>
    /\ Own(identity)
    /\ ~Idle => settings.reuse = TRUE \/ call.link \in {0, player}

(* So is what is on disk, if nothing went wrong.                           *)
FileOwned ==
  Tame /\ identityFile.state = "whole" => Own(identityFile.content)

(* Files that do not fail are written whole, and hold what is in memory.   *)
Mirrored ==
  ~Meets("files") =>
    /\ identityFile.state # "torn"
    /\ identityFile.state = "absent" => linked = {}
    /\ optedIn = TRUE => identityFile = Whole(identity)

(* An anonymous id that no call has linked yet.                            *)
Unlinked(i) == i.isIdentified = TRUE \/ i.anonymousId \notin linked

LinkFresh ==
  ~Meets("files") /\ ~(settings.reuse = TRUE) =>
    /\ optedIn = TRUE => Unlinked(identity)
    /\ identityFile.state = "whole" => Unlinked(identityFile.content)
    /\ ~Idle /\ call.link # 0 =>
         call.link \notin linked /\ identity.isIdentified = TRUE

CaptureInv ==
  Types /\ Consented /\ MemoryOwned /\ FileOwned /\ Mirrored /\ LinkFresh

-----------------------------------------------------------------------------
(* State files.                                                            *)

(* A save succeeds, or fails and leaves the old file or a torn one.        *)
LEMMA SaveFacts ==
  ASSUME NEW file \in StateFile(Identity), NEW content \in Identity, NEW fails,
         NEW saved \in SaveState(file, content, NoIdentity, fails)
  PROVE  \/ saved = Whole(content)
         \/ fails /\ saved = file
         \/ fails /\ saved = Empty("torn", NoIdentity)
BY DEF SaveState

(* A load gives the content of a whole file, or makes a new identity.      *)
LEMMA LoadFacts ==
  ASSUME NEW file \in StateFile(Identity), NEW p, NEW fails,
         NEW loaded \in LoadOrCreate(file, p, fails)
  PROVE  \/ loaded = <<file.content, file>> /\ file.state = "whole"
         \/ /\ fails \/ file.state # "whole"
            /\ \E saved \in SaveState(file, NewIdentity(p), NoIdentity, fails) :
                 loaded = <<NewIdentity(p), saved>>
BY DEF LoadOrCreate, LoadState

(* Players and new identities are typed.                                   *)
LEMMA NewTypes ==
  ASSUME NEW p \in 0 .. MaxPlayers
  PROVE  /\ NewIdentity(p) \in Identity
         /\ NewIdentity(p).anonymousId = p /\ NewIdentity(p).distinctId = 0
         /\ NewIdentity(p).isIdentified = FALSE
         /\ \A type \in GroupTypes : NewIdentity(p).groups[type] = 0
         /\ 0 \in Owner /\ p \in Owner
BY PlayerAssumption DEF NewIdentity, Identity, NoGroups, Owner

(* So is that of a manager that does not exist.                            *)
LEMMA NoIdentityFacts ==
  ASSUME player \in 1 .. MaxPlayers
  PROVE  NoIdentity \in Identity /\ Sound(NoIdentity)
<1>1. 0 \in 0 .. MaxPlayers /\ 0 \in 0 .. player
  BY PlayerAssumption
<1>2. /\ NoIdentity \in Identity /\ NoIdentity.anonymousId = 0
      /\ NoIdentity.distinctId = 0 /\ NoIdentity.isIdentified = FALSE
  BY <1>1, NewTypes DEF NoIdentity
<1> QED
  BY <1>1, <1>2 DEF Sound

(* What files hold.                                                        *)
LEMMA FileTypes ==
  ASSUME NEW i \in Identity
  PROVE  /\ Whole(i) \in StateFile(Identity)
         /\ Whole(i).state = "whole" /\ Whole(i).content = i
         /\ Empty("torn", i) \in StateFile(Identity)
         /\ Empty("torn", i).state = "torn" /\ Empty("torn", i).content = i
         /\ Empty("absent", i) \in StateFile(Identity)
         /\ Empty("absent", i).state = "absent" /\ Empty("absent", i).content = i
BY DEF Whole, Empty, StateFile

-----------------------------------------------------------------------------
(* The calls.                                                              *)

(* The identity of the running player changes, is saved, and perhaps an    *)
(* event with a link is about to be captured.                              *)
LEMMA ChangeKeeps ==
  ASSUME CaptureInv, Idle, optedIn = TRUE, Persist,
         identity' \in Identity, identity'.anonymousId = identity.anonymousId,
         identity'.isIdentified = TRUE <=> identity'.distinctId # 0,
         identity.isIdentified = TRUE => identity'.isIdentified = TRUE,
         Own(identity) => Own(identity'),
         \/ Idle' \/ call'.link = 0
         \/ /\ identity'.isIdentified = TRUE
            /\ call'.link = PreviousAnonymousId(identity),
         UNCHANGED <<player, settings, optedIn, session, linked, loadedFor>>
  PROVE  CaptureInv'
<1>0. /\ player \in 1 .. MaxPlayers /\ player \in Nat
      /\ identity \in Identity /\ Sound(identity)
      /\ identityFile \in StateFile(Identity) /\ Sound(identityFile.content)
  BY PlayerAssumption DEF CaptureInv, Types
<1>1. \/ identityFile' = Whole(identity')
      \/ Meets("files") /\ identityFile' = identityFile
      \/ Meets("files") /\ identityFile' = Empty("torn", NoIdentity)
  BY <1>0, SaveFacts DEF Persist
<1>2. NoIdentity \in Identity /\ Sound(NoIdentity)
  BY <1>0, NoIdentityFacts
<1>3. /\ Sound(identity') /\ Sound(identity)'
      /\ identityFile' \in StateFile(Identity) /\ Sound(identityFile.content)'
  BY <1>0, <1>1, <1>2, FileTypes DEF Sound
<1>4. PreviousAnonymousId(identity) \in {0, identity.anonymousId}
  BY DEF PreviousAnonymousId
<1>5. Idle' \/ call'.link \in {0, identity.anonymousId}
  BY <1>4
<1>6. Types'
  BY <1>0, <1>3, <1>5 DEF Types, CaptureInv, Sound
<1>7. Consented'
  BY DEF Consented, CaptureInv
<1>8. MemoryOwned'
  <2>1. Own(identity)' <=> Own(identity')
    BY DEF Own
  <2>2. (Tame \/ player > loadedFor)' => Own(identity)
    BY DEF CaptureInv, MemoryOwned, Tame, Meets
  <2>3. Own(identity) => settings.reuse = TRUE \/ identity.anonymousId = player
    BY DEF Own
  <2> QED
    BY <1>5, <2>1, <2>2, <2>3 DEF MemoryOwned
<1>9. FileOwned'
  <2>1. Tame' => Own(identity') /\ identityFile' = Whole(identity')
    BY <1>1 DEF CaptureInv, MemoryOwned, Tame, Meets
  <2>2. Tame' => identityFile'.content = identity'
    BY <2>1, FileTypes
  <2> QED
    BY <2>1, <2>2 DEF FileOwned, Own
<1>10. Mirrored'
  BY <1>1, FileTypes DEF Mirrored, Meets
<1>11. LinkFresh'
  <2> SUFFICES ASSUME ~Meets("files"), ~(settings.reuse = TRUE)
               PROVE  /\ Unlinked(identity)' /\ Unlinked(identityFile.content)'
                      /\ (~Idle /\ call.link # 0)' =>
                           call'.link \notin linked /\ identity'.isIdentified = TRUE
    BY DEF LinkFresh, Meets
  <2>1. Unlinked(identity)
    BY DEF CaptureInv, LinkFresh
  <2>2. Unlinked(identity)' /\ identityFile'.content = identity'
    BY <1>1, <2>1, FileTypes DEF Unlinked
  <2>3. (~Idle /\ call.link # 0)' =>
          call'.link \notin linked /\ identity'.isIdentified = TRUE
    BY <2>1 DEF PreviousAnonymousId, Unlinked
  <2> QED
    BY <2>2, <2>3 DEF Unlinked
<1> QED
  BY <1>6, <1>7, <1>8, <1>9, <1>10, <1>11 DEF CaptureInv

(* Nothing of the identity changes, and an event without a link may be     *)
(* about to be captured, or has been.                                      *)
LEMMA RestKeeps ==
  ASSUME CaptureInv,
         Idle' \/ (call'.link = 0 /\ optedIn = TRUE),
         session' \in {0, player}, optedIn = FALSE => session' = 0,
         UNCHANGED <<player, settings, optedIn, identity, identityFile,
                     linked, loadedFor>>
  PROVE  CaptureInv'
<1>0. player \in Nat
  BY PlayerAssumption DEF CaptureInv, Types
<1>1. Types'
  BY <1>0 DEF CaptureInv, Types, Sound
<1>2. Consented'
  BY DEF CaptureInv, Consented
<1>3. MemoryOwned' /\ FileOwned'
  BY DEF CaptureInv, MemoryOwned, FileOwned, Tame, Meets, Own
<1>4. Mirrored'
  BY DEF CaptureInv, Mirrored, Meets
<1>5. LinkFresh'
  BY DEF CaptureInv, LinkFresh, Meets, Unlinked
<1> QED
  BY <1>1, <1>2, <1>3, <1>4, <1>5 DEF CaptureInv

(* Opting in loads the identity, or makes one.                             *)
LEMMA EnableKeeps ==
  ASSUME CaptureInv, EnableCollection
  PROVE  CaptureInv'
<1>0. /\ player \in 1 .. MaxPlayers /\ player \in Nat /\ player \in 0 .. MaxPlayers
      /\ identityFile \in StateFile(Identity) /\ Sound(identityFile.content)
      /\ player \in 0 .. player
      /\ Idle /\ optedIn = FALSE /\ optedIn' = TRUE /\ loadedFor' = player
      /\ UNCHANGED <<player, settings, session, call, linked>>
  BY PlayerAssumption DEF CaptureInv, Types, EnableCollection
<1>1. PICK loaded \in LoadOrCreate(identityFile, player, Meets("files")) :
        identity' = loaded[1] /\ identityFile' = loaded[2]
  BY DEF EnableCollection
<1>2. CASE loaded = <<identityFile.content, identityFile>> /\ identityFile.state = "whole"
  <2>1. /\ identity' = identityFile.content /\ identityFile' = identityFile
        /\ identity' \in Identity
    BY <1>0, <1>1, <1>2 DEF StateFile
  <2>2. Types'
    BY <1>0, <2>1 DEF CaptureInv, Types, Sound, Idle
  <2>3. Consented'
    BY <1>0 DEF CaptureInv, Consented, Idle
  <2>4. MemoryOwned' /\ FileOwned'
    <3>1. Tame => Own(identityFile.content)
      BY <1>2 DEF CaptureInv, FileOwned
    <3>2. ~(player > loadedFor)'
      BY <1>0
    <3> QED
      BY <1>0, <2>1, <3>1, <3>2 DEF MemoryOwned, FileOwned, Tame, Meets, Own, Idle
  <2>5. Mirrored'
    <3>1. identityFile = Whole(identityFile.content)
      BY <1>0, <1>2 DEF StateFile, Whole
    <3> QED
      BY <1>0, <2>1, <3>1 DEF CaptureInv, Mirrored, Meets
  <2>6. LinkFresh'
    BY <1>0, <1>2, <2>1 DEF CaptureInv, LinkFresh, Meets, Unlinked, Idle
  <2> QED
    BY <2>2, <2>3, <2>4, <2>5, <2>6 DEF CaptureInv
<1>3. CASE /\ Meets("files") \/ identityFile.state # "whole"
           /\ \E saved \in SaveState(identityFile, NewIdentity(player), NoIdentity,
                                     Meets("files")) :
                loaded = <<NewIdentity(player), saved>>
  <2> DEFINE new == NewIdentity(player)
  <2>0. PICK saved \in SaveState(identityFile, new, NoIdentity, Meets("files")) :
          loaded = <<new, saved>>
    BY <1>3
  <2>1. /\ new \in Identity /\ new.anonymousId = player /\ new.distinctId = 0
        /\ new.isIdentified = FALSE /\ \A type \in GroupTypes : new.groups[type] = 0
        /\ NoIdentity \in Identity /\ Sound(NoIdentity)
    BY <1>0, NewTypes, NoIdentityFacts
  <2>2. identity' = new /\ identityFile' = saved
    BY <1>1, <2>0
  <2> HIDE DEF new
  <2>3. \/ identityFile' = Whole(new)
        \/ Meets("files") /\ identityFile' = identityFile
        \/ Meets("files") /\ identityFile' = Empty("torn", NoIdentity)
    BY <1>0, <2>0, <2>1, <2>2, SaveFacts
  <2>4. Sound(new) /\ Own(new)
    BY <1>0, <2>1 DEF Sound, Own
  <2>5. identityFile' \in StateFile(Identity) /\ Sound(identityFile'.content)
    BY <1>0, <2>1, <2>3, <2>4, FileTypes
  <2>6. Types'
    BY <1>0, <2>1, <2>2, <2>4, <2>5 DEF CaptureInv, Types, Sound, Idle
  <2>7. Consented'
    BY <1>0 DEF CaptureInv, Consented, Idle
  <2>8. MemoryOwned' /\ FileOwned'
    <3>1. Own(identity)'
      BY <1>0, <2>2, <2>4 DEF Own, EnableCollection
    <3>2. Tame' => identityFile'.content = identity'
      BY <1>0, <2>1, <2>2, <2>3, FileTypes DEF Tame, Meets
    <3> QED
      BY <1>0, <3>1, <3>2 DEF MemoryOwned, FileOwned, Own, Idle
  <2>9. Mirrored'
    BY <1>0, <2>1, <2>2, <2>3, FileTypes DEF Mirrored, Meets
  <2>10. LinkFresh'
    <3> SUFFICES ASSUME ~Meets("files")
                 PROVE  Unlinked(identity)' /\ Unlinked(identityFile.content)'
      BY <1>0 DEF LinkFresh, Meets, Idle
    <3>1. linked = {}
      BY <1>3, <1>0 DEF CaptureInv, Mirrored, StateFile
    <3> QED
      BY <1>0, <3>1 DEF Unlinked
  <2> QED
    BY <2>6, <2>7, <2>8, <2>9, <2>10 DEF CaptureInv
<1> QED
  BY <1>0, <1>2, <1>3, LoadFacts

(* Opting out, and the end of the process, leave the file alone.           *)
LEMMA DroppedKeeps ==
  ASSUME CaptureInv, optedIn' = FALSE, identity' = NoIdentity, session' = 0,
         Idle', UNCHANGED <<player, settings, identityFile, linked, loadedFor>>
  PROVE  CaptureInv'
<1>0. player \in 1 .. MaxPlayers /\ player \in Nat
  BY PlayerAssumption DEF CaptureInv, Types
<1>1. Types'
  BY <1>0, NoIdentityFacts DEF CaptureInv, Types, Sound
<1>2. Consented' /\ MemoryOwned'
  BY DEF Consented, MemoryOwned
<1>3. FileOwned' /\ Mirrored'
  BY DEF CaptureInv, FileOwned, Mirrored, Tame, Meets, Own
<1>4. LinkFresh'
  BY DEF CaptureInv, LinkFresh, Meets, Unlinked
<1> QED
  BY <1>1, <1>2, <1>3, <1>4 DEF CaptureInv

(* The next player gets a new identity, or is not noticed.                 *)
LEMMA ResetKeeps ==
  ASSUME CaptureInv, ResetForNextPlayer
  PROVE  CaptureInv'
<1>0. /\ player \in 1 .. MaxPlayers /\ player \in Nat
      /\ settings \in Build
      /\ identity \in Identity /\ Sound(identity)
      /\ identityFile \in StateFile(Identity) /\ Sound(identityFile.content)
      /\ linked \subseteq 0 .. player /\ loadedFor \in 0 .. player
      /\ Idle /\ Idle' /\ player' = player + 1 /\ player < settings.players
      /\ UNCHANGED <<settings, optedIn, linked, loadedFor>>
  BY PlayerAssumption, BuildAssumption
     DEF CaptureInv, Types, ResetForNextPlayer, NoneCaptured, Idle
<1>1. settings.players \in 1 .. MaxPlayers
  BY <1>0 DEF Build
<1>2. /\ player' \in 1 .. MaxPlayers /\ player' \in 0 .. MaxPlayers /\ player' > loadedFor
      /\ 0 .. player \subseteq 0 .. player' /\ player' \in 0 .. player'
      /\ player' \notin 0 .. player
  BY <1>0, <1>1, PlayerAssumption
<1>3. CASE optedIn = TRUE
  <2> DEFINE new == Reset(identity, player', settings.reuse)
  <2>1. identity' = new /\ session' = player' /\ Persist
    BY <1>3 DEF ResetForNextPlayer
  <2>2. /\ new \in Identity /\ new.distinctId = 0 /\ new.isIdentified = FALSE
        /\ new.anonymousId = IF settings.reuse = TRUE THEN identity.anonymousId ELSE player'
        /\ \A type \in GroupTypes : new.groups[type] = 0
    <3>1. identity.anonymousId \in 0 .. MaxPlayers
      BY <1>0 DEF Identity, Owner
    <3>2. settings.reuse \in BOOLEAN
      BY <1>0 DEF Build
    <3> QED
      BY <1>2, <3>1, <3>2, NewTypes DEF Reset
  <2> HIDE DEF new
  <2>4. \/ identityFile' = Whole(new)
        \/ Meets("files") /\ identityFile' = identityFile
        \/ Meets("files") /\ identityFile' = Empty("torn", NoIdentity)
    BY <1>0, <2>1, <2>2, SaveFacts DEF Persist
  <2>5. NoIdentity \in Identity
    BY <1>0, NoIdentityFacts
  <2>6. /\ Sound(identity)' /\ identityFile' \in StateFile(Identity)
        /\ Sound(identityFile.content)'
    <3>1. Sound(identity)' /\ 0 \in 0 .. player'
      BY <1>0, <1>2, <2>1, <2>2 DEF Sound
    <3>2. CASE identityFile' = Whole(new)
      BY <2>1, <2>2, <3>1, <3>2, FileTypes DEF Sound
    <3>3. CASE identityFile' = identityFile
      BY <1>0, <1>2, <3>1, <3>3 DEF Sound
    <3>4. CASE identityFile' = Empty("torn", NoIdentity)
      <4>1. NoIdentity.anonymousId = 0 /\ NoIdentity.distinctId = 0
            /\ NoIdentity.isIdentified = FALSE
        <5>1. 0 \in 0 .. MaxPlayers
          BY PlayerAssumption
        <5> QED
          BY <5>1, NewTypes DEF NoIdentity
      <4> QED
        BY <2>5, <3>1, <3>4, <4>1, FileTypes DEF Sound
    <3> QED
      BY <2>4, <3>1, <3>2, <3>3, <3>4
  <2>7. Types'
    BY <1>0, <1>2, <2>1, <2>2, <2>6 DEF CaptureInv, Types
  <2>8. Consented'
    BY <1>0, <1>3, <2>1 DEF Consented
  <2>9. MemoryOwned' /\ FileOwned'
    <3>1. Own(identity)'
      BY <1>0, <2>1, <2>2 DEF Own
    <3>2. Tame' => identityFile'.content = identity'
      BY <1>0, <2>1, <2>2, <2>4, FileTypes DEF Tame, Meets
    <3> QED
      BY <1>0, <3>1, <3>2 DEF MemoryOwned, FileOwned, Own
  <2>10. Mirrored'
    BY <1>0, <2>1, <2>2, <2>4, FileTypes DEF Mirrored, Meets
  <2>11. LinkFresh'
    <3> SUFFICES ASSUME ~Meets("files"), ~(settings.reuse = TRUE)
                 PROVE  Unlinked(identity)' /\ Unlinked(identityFile.content)'
      BY <1>0 DEF LinkFresh, Meets
    <3>1. identity'.anonymousId = player' /\ player' \notin linked
      BY <1>0, <1>2, <2>1, <2>2
    <3>2. identityFile'.content = identity'
      BY <2>1, <2>2, <2>4, FileTypes
    <3> QED
      BY <1>0, <3>1, <3>2 DEF Unlinked
  <2> QED
    BY <2>7, <2>8, <2>9, <2>10, <2>11 DEF CaptureInv
<1>4. CASE optedIn = FALSE
  <2>1. UNCHANGED <<identity, identityFile, session>> /\ Meets("optedOut")
    BY <1>4 DEF ResetForNextPlayer
  <2>2. Types'
    BY <1>0, <1>2, <2>1 DEF CaptureInv, Types, Sound
  <2>3. Consented' /\ MemoryOwned' /\ FileOwned'
    BY <1>0, <1>4, <2>1 DEF CaptureInv, Consented, MemoryOwned, FileOwned, Tame, Meets
  <2>4. Mirrored' /\ LinkFresh'
    BY <1>0, <1>4, <2>1 DEF CaptureInv, Mirrored, LinkFresh, Meets, Unlinked
  <2> QED
    BY <2>2, <2>3, <2>4 DEF CaptureInv
<1> QED
  BY <1>3, <1>4 DEF CaptureInv, Types
-----------------------------------------------------------------------------
(* The capture.                                                            *)

(* Reading the session of the player gives a session of the player.        *)
LEMMA SessionFacts ==
  ASSUME NEW s \in {0, player}
  PROVE  SessionAt(s) \subseteq {0, player}
BY DEF SessionAt, Renewed

(* What is captured is the player's own, and the link is used up.          *)
LEMMA CaptureKeeps ==
  ASSUME CaptureInv, CaptureComposedEvent
  PROVE  /\ CaptureInv' /\ PlayersSeparated'
         /\ ~Meets("files") /\ ~(settings.reuse = TRUE) /\ Captured' /\ last'.link # 0
              => last'.link \notin linked
<1>0. /\ ~Idle /\ Idle' /\ optedIn = TRUE /\ player \in Nat /\ player \in 1 .. MaxPlayers
      /\ call.link \in 0 .. player /\ identity \in Identity /\ Sound(identity)
      /\ UNCHANGED <<player, settings, optedIn, identity, identityFile, loadedFor>>
  BY PlayerAssumption
     DEF CaptureComposedEvent, CaptureInv, Types, Consented, Idle, NoCall, memory, files
<1>1. PICK s \in SessionAt(session) :
        \/ /\ \E properties \in IF Meets("beforeSend")
                                THEN AfterBeforeSend(ComposedEvent(s))
                                ELSE {ComposedEvent(s)} :
                last' = Event(properties, s)
           /\ linked' = linked \cup ({last'.link} \ {0})
           /\ session' \in IF s = 0 THEN {0} ELSE SessionAt(s)
        \/ session' = s /\ last' = NoEvent /\ UNCHANGED linked
  BY DEF CaptureComposedEvent
<1>2. s \in {0, player} /\ session' \in {0, player}
  <2>1. s \in {0, player}
    BY SessionFacts DEF CaptureInv, Consented
  <2> QED
    BY <1>1, <2>1, SessionFacts
<1>3. CASE last' = NoEvent /\ UNCHANGED linked
  <2>1. ~Captured'
    BY <1>3 DEF Captured, NoEvent
  <2>2. CaptureInv'
    BY <1>0, <1>2, <1>3, RestKeeps
  <2> QED
    BY <2>1, <2>2 DEF PlayersSeparated
<1>4. CASE /\ \E properties : last' = Event(properties, s)
           /\ linked' = linked \cup ({last'.link} \ {0})
  <2>1. PICK properties : last' = Event(properties, s)
    BY <1>4
  <2>2. /\ last'.player = player /\ last'.session = s
        /\ last'.groups = identity.groups
        /\ last'.distinctId = GetEffectiveDistinctId(identity)
        /\ last'.isIdentified = identity.isIdentified
        /\ last'.link \in {0, call.link}
    BY <2>1 DEF Event
  <2>3. CaptureInv'
    <3>1. linked' \subseteq linked \cup {call.link} /\ linked \subseteq linked'
      BY <1>4, <2>2
    <3>2. Types'
      BY <1>0, <3>1 DEF CaptureInv, Types, Sound
    <3>3. Consented' /\ MemoryOwned' /\ FileOwned'
      BY <1>0, <1>2 DEF CaptureInv, Consented, MemoryOwned, FileOwned, Tame, Meets, Own
    <3>4. Mirrored'
      BY <1>0, FileTypes DEF CaptureInv, Mirrored, Meets
    <3>5. LinkFresh'
      <4> SUFFICES ASSUME ~Meets("files"), ~(settings.reuse = TRUE)
                   PROVE  Unlinked(identity)' /\ Unlinked(identityFile.content)'
        BY <1>0 DEF LinkFresh, Meets
      <4>1. identityFile.content = identity
        BY <1>0, FileTypes DEF CaptureInv, Mirrored
      <4>2. identity.isIdentified = TRUE \/ linked' = linked
        <5>1. CASE call.link = 0
          BY <1>4, <2>2, <5>1
        <5>2. CASE call.link # 0
          BY <1>0, <5>2 DEF CaptureInv, LinkFresh
        <5> QED
          BY <5>1, <5>2
      <4>3. Unlinked(identity)
        BY <1>0 DEF CaptureInv, LinkFresh
      <4> QED
        BY <1>0, <4>1, <4>2, <4>3 DEF Unlinked
    <3> QED
      BY <3>2, <3>3, <3>4, <3>5 DEF CaptureInv
  <2>4. PlayersSeparated'
    <3> SUFFICES ASSUME (~(Meets("files") \/ Meets("optedOut")) \/ last.player > loadedFor)'
                 PROVE  OwnEvent'
      BY DEF PlayersSeparated
    <3>1. Tame \/ player > loadedFor
      BY <1>0, <2>2 DEF Tame, Meets
    <3>2. Own(identity) /\ (settings.reuse = TRUE \/ call.link \in {0, player})
      BY <1>0, <3>1 DEF CaptureInv, MemoryOwned
    <3>3. /\ last'.distinctId = player
             \/ (settings.reuse = TRUE /\ ~(identity.isIdentified = TRUE))
      BY <1>0, <2>2, <3>2 DEF Own, Sound, GetEffectiveDistinctId
    <3>4. identity.isIdentified \in BOOLEAN
      BY <1>0 DEF Identity
    <3> QED
      BY <1>0, <1>2, <2>2, <3>2, <3>3, <3>4 DEF OwnEvent, Own
  <2>5. ~Meets("files") /\ ~(settings.reuse = TRUE) /\ last'.link # 0
          => last'.link \notin linked
    BY <1>0, <2>2 DEF CaptureInv, LinkFresh
  <2> QED
    BY <2>3, <2>4, <2>5
<1> QED
  BY <1>1, <1>3, <1>4

-----------------------------------------------------------------------------
(* All steps.                                                              *)

(* Initially nobody has been there.                                        *)
LEMMA Initially ==
  ASSUME Init
  PROVE  CaptureInv /\ PlayersSeparated
<1>0. /\ player = 1 /\ optedIn = FALSE /\ settings \in Builds
      /\ identity = NoIdentity /\ identityFile = Empty("absent", NoIdentity)
      /\ session = 0 /\ Idle /\ linked = {} /\ loadedFor = 0 /\ ~Captured
  BY DEF Init, Idle, Captured, NoCall, NoEvent
<1>1. player \in 1 .. MaxPlayers
  <2>1. settings.players \in 1 .. MaxPlayers
    BY <1>0, BuildAssumption DEF Build
  <2> QED
    BY <1>0, <2>1, PlayerAssumption
<1>2. /\ NoIdentity \in Identity /\ Sound(NoIdentity)
      /\ identityFile \in StateFile(Identity) /\ identityFile.state = "absent"
      /\ identityFile.content = NoIdentity
  BY <1>0, <1>1, NoIdentityFacts, FileTypes
<1>3. Types
  <2>1. 0 \in 0 .. player
    BY <1>0
  <2> QED
    BY <1>0, <1>1, <1>2, <2>1 DEF Types
<1>4. Consented /\ MemoryOwned /\ FileOwned /\ Mirrored /\ LinkFresh
  BY <1>0, <1>2 DEF Consented, MemoryOwned, FileOwned, Mirrored, LinkFresh
<1> QED
  BY <1>0, <1>3, <1>4 DEF CaptureInv, PlayersSeparated

(* The calls about the identity but Reset.                                 *)
LEMMA IdentityCallKeeps ==
  ASSUME CaptureInv, Identify \/ ResetGroups \/ \E type \in GroupTypes : Group(type)
  PROVE  CaptureInv'
<1>0. /\ player \in 1 .. MaxPlayers /\ player \in Owner /\ player # 0
      /\ identity \in Identity /\ Sound(identity)
  BY PlayerAssumption DEF CaptureInv, Types, Owner
<1>1. CASE Identify
  <2>1. /\ identity' = Identified(identity, player) /\ Persist /\ Idle /\ optedIn = TRUE
        /\ call'.link = PreviousAnonymousId(identity)
        /\ UNCHANGED <<player, settings, optedIn, session, linked, loadedFor>>
    BY <1>1 DEF Identify, Capture, NoneCaptured, CaptureInv, Types
  <2>2. /\ identity' \in Identity /\ identity'.anonymousId = identity.anonymousId
        /\ identity'.isIdentified = TRUE /\ identity'.distinctId = player
        /\ identity'.groups = identity.groups
    <3>1. identity' = [anonymousId |-> identity.anonymousId, distinctId |-> player,
                       isIdentified |-> TRUE, groups |-> identity.groups]
      BY <1>0, <2>1 DEF Identified, Identity
    <3>2. identity.anonymousId \in Owner /\ identity.groups \in [GroupTypes -> Owner]
      BY <1>0 DEF Identity
    <3>3. identity' \in Identity
      BY <1>0, <3>1, <3>2 DEF Identity
    <3> QED
      BY <3>1, <3>3
  <2>3. Own(identity) => Own(identity')
    BY <2>2 DEF Own
  <2> QED
    BY <1>0, <2>1, <2>2, <2>3, ChangeKeeps
<1>2. CASE ResetGroups
  <2>1. /\ identity' = ClearGroups(identity) /\ Persist /\ Idle /\ Idle' /\ optedIn = TRUE
        /\ UNCHANGED <<player, settings, optedIn, session, linked, loadedFor>>
    BY <1>2 DEF ResetGroups, Idle, NoneCaptured, CaptureInv, Types
  <2>2. /\ identity' \in Identity /\ identity'.anonymousId = identity.anonymousId
        /\ identity'.isIdentified = identity.isIdentified
        /\ identity'.distinctId = identity.distinctId
        /\ \A type \in GroupTypes : identity'.groups[type] = 0
    <3>1. 0 \in Owner
      BY PlayerAssumption DEF Owner
    <3>2. NoGroups \in [GroupTypes -> Owner] /\ \A type \in GroupTypes : NoGroups[type] = 0
      BY <3>1 DEF NoGroups
    <3> QED
      BY <1>0, <2>1, <3>2 DEF ClearGroups, Identity
  <2>3. Own(identity) => Own(identity')
    BY <2>2 DEF Own
  <2> QED
    BY <1>0, <2>1, <2>2, <2>3, ChangeKeeps DEF Sound
<1>3. CASE \E type \in GroupTypes : Group(type)
  <2>0. PICK type \in GroupTypes : Group(type)
    BY <1>3
  <2>1. /\ identity' = SetGroup(identity, type, player) /\ Persist /\ Idle /\ optedIn = TRUE
        /\ call'.link = 0
        /\ UNCHANGED <<player, settings, optedIn, session, linked, loadedFor>>
    BY <2>0 DEF Group, Capture, NoneCaptured, CaptureInv, Types
  <2>2. /\ identity' \in Identity /\ identity'.anonymousId = identity.anonymousId
        /\ identity'.isIdentified = identity.isIdentified
        /\ identity'.distinctId = identity.distinctId
        /\ \A t \in GroupTypes : identity'.groups[t] \in {player, identity.groups[t]}
    BY <1>0, <2>0, <2>1 DEF SetGroup, Identity
  <2>3. Own(identity) => Own(identity')
    BY <2>2 DEF Own
  <2> QED
    BY <1>0, <2>1, <2>2, <2>3, ChangeKeeps DEF Sound
<1> QED
  BY <1>1, <1>2, <1>3

(* The calls that leave the identity alone.                                *)
LEMMA OtherCallKeeps ==
  ASSUME CaptureInv,
         \/ \E key \in SuperKeys :
              RegisterSuperProperty(key) \/ UnregisterSuperProperty(key)
         \/ ClearSuperProperties
         \/ \E kind, given : CaptureEvent(kind, given)
         \/ OnForeground \/ OnBackground
  PROVE  CaptureInv'
<1>0. session \in {0, player} /\ optedIn \in BOOLEAN
  BY DEF CaptureInv, Consented, Types
<1>1. /\ optedIn = TRUE
      /\ Idle' \/ call'.link = 0
      /\ session' \in {0, player}
      /\ UNCHANGED <<player, settings, optedIn, identity, identityFile, linked, loadedFor>>
  <2>1. CASE \E key \in SuperKeys : RegisterSuperProperty(key) \/ UnregisterSuperProperty(key)
    BY <1>0, <2>1 DEF RegisterSuperProperty, UnregisterSuperProperty, NoneCaptured, Idle
  <2>2. CASE ClearSuperProperties
    BY <1>0, <2>2 DEF ClearSuperProperties, NoneCaptured, Idle
  <2>3. CASE \E kind, given : CaptureEvent(kind, given)
    BY <1>0, <2>3 DEF CaptureEvent, Capture, NoneCaptured, memory, files
  <2>4. CASE OnForeground
    BY <1>0, <2>4 DEF OnForeground, NoneCaptured, memory, files, Idle
  <2>5. CASE OnBackground
    BY <1>0, <2>5 DEF OnBackground, NoneCaptured, memory, files, Idle
  <2> QED
    BY <2>1, <2>2, <2>3, <2>4, <2>5
<1> QED
  BY <1>1, RestKeeps

(* Every step keeps the invariant.                                         *)
LEMMA Step ==
  ASSUME CaptureInv, PlayersSeparated, [Next]_vars
  PROVE  CaptureInv' /\ PlayersSeparated'
<1>1. CASE EnableCollection
  <2>1. ~Captured'
    BY <1>1 DEF EnableCollection, Captured, NoEvent
  <2> QED
    BY <1>1, <2>1, EnableKeeps DEF PlayersSeparated
<1>2. CASE DisableCollection \/ ProcessEnds
  <2>1. /\ optedIn' = FALSE /\ identity' = NoIdentity /\ session' = 0 /\ Idle' /\ ~Captured'
        /\ UNCHANGED <<player, settings, identityFile, linked, loadedFor>>
    BY <1>2 DEF DisableCollection, ProcessEnds, NoneCaptured, NoCall, Idle, files,
                Captured, NoEvent
  <2> QED
    BY <2>1, DroppedKeeps DEF PlayersSeparated
<1>3. CASE ResetForNextPlayer
  <2>1. ~Captured'
    BY <1>3 DEF ResetForNextPlayer, NoneCaptured, Captured, NoEvent
  <2> QED
    BY <1>3, <2>1, ResetKeeps DEF PlayersSeparated
<1>4. CASE Identify \/ ResetGroups \/ \E type \in GroupTypes : Group(type)
  <2>1. NoneCaptured
    <3>1. CASE Identify \/ ResetGroups
      BY <3>1 DEF Identify, ResetGroups
    <3>2. CASE \E type \in GroupTypes : Group(type)
      BY <3>2 DEF Group
    <3> QED
      BY <1>4, <3>1, <3>2
  <2>2. ~Captured'
    BY <2>1 DEF NoneCaptured, Captured, NoEvent
  <2> QED
    BY <1>4, <2>2, IdentityCallKeeps DEF PlayersSeparated
<1>5. CASE \/ \E key \in SuperKeys :
                RegisterSuperProperty(key) \/ UnregisterSuperProperty(key)
           \/ ClearSuperProperties
           \/ \E kind, given : CaptureEvent(kind, given)
           \/ OnForeground \/ OnBackground
  <2>1. NoneCaptured
    <3>1. CASE \E key \in SuperKeys :
                 RegisterSuperProperty(key) \/ UnregisterSuperProperty(key)
      BY <3>1 DEF RegisterSuperProperty, UnregisterSuperProperty
    <3>2. CASE \E kind, given : CaptureEvent(kind, given)
      BY <3>2 DEF CaptureEvent
    <3>3. CASE ClearSuperProperties \/ OnForeground \/ OnBackground
      BY <3>3 DEF ClearSuperProperties, OnForeground, OnBackground
    <3> QED
      BY <1>5, <3>1, <3>2, <3>3
  <2>2. ~Captured'
    BY <2>1 DEF NoneCaptured, Captured, NoEvent
  <2> QED
    BY <1>5, <2>2, OtherCallKeeps DEF PlayersSeparated
<1>6. CASE CaptureComposedEvent
  BY <1>6, CaptureKeeps
<1>7. CASE UNCHANGED vars
  <2>1. UNCHANGED <<player, settings, optedIn, identity, identityFile, session, call,
                    last, linked, loadedFor>>
    BY <1>7 DEF vars, memory, files
  <2>2. CaptureInv'
    BY <2>1 DEF CaptureInv, Types, Consented, MemoryOwned, FileOwned, Mirrored, LinkFresh,
                Sound, Own, Unlinked, Tame, Meets, Idle
  <2> QED
    BY <2>1, <2>2 DEF PlayersSeparated, OwnEvent, Captured, Meets
<1>8. CASE Next
  BY <1>1, <1>2, <1>3, <1>4, <1>5, <1>6, <1>8 DEF Next
<1> QED
  BY <1>7, <1>8

(* The inductive invariant holds in every reachable state.                 *)
THEOREM CaptureInvariant == Spec => [](CaptureInv /\ PlayersSeparated)
BY Initially, Step, PTL DEF Spec

(* An event is never another player's (Reset).                             *)
THEOREM Separated == Spec => []PlayersSeparated
BY CaptureInvariant, PTL

(* An anonymous id is linked once between two resets (Identify).           *)
THEOREM OneLink == Spec => LinkedOnce
<1>1. CaptureInv /\ PlayersSeparated /\ [Next]_vars
        => [(Captured' /\ last'.kind = "$identify" /\ last'.link # 0)
              => last'.link \notin linked \/ settings.reuse \/ Meets("files")]_vars
  <2> SUFFICES ASSUME CaptureInv, PlayersSeparated, Next, Captured', last'.link # 0,
                      ~settings.reuse, ~Meets("files")
               PROVE  last'.link \notin linked
    OBVIOUS
  <2>1. CASE CaptureComposedEvent
    BY <2>1, CaptureKeeps
  <2>2. CASE ~CaptureComposedEvent
    <3>1. last' = NoEvent
      BY <2>2 DEF Next, EnableCollection, DisableCollection, Identify, ResetForNextPlayer,
                  ResetGroups, Group, RegisterSuperProperty, UnregisterSuperProperty,
                  ClearSuperProperties, CaptureEvent, OnForeground, OnBackground,
                  ProcessEnds, NoneCaptured
    <3> QED
      BY <3>1 DEF Captured, NoEvent
  <2> QED
    BY <2>1, <2>2
<1> QED
  BY <1>1, CaptureInvariant, PTL DEF Spec, LinkedOnce
-----------------------------------------------------------------------------
(* The file of the super properties.                                       *)

(* It holds what is in memory, unless nothing was ever saved, or saving    *)
(* may fail.                                                               *)
SuperKept ==
  /\ superFile \in StateFile(SUBSET SuperKeys) /\ super \in SUBSET SuperKeys
  /\ optedIn \in BOOLEAN
  /\ ~Meets("files") =>
       /\ superFile.state # "torn"
       /\ optedIn = TRUE => super = IF superFile.state = "whole"
                                    THEN superFile.content ELSE {}

(* A change of the map, with or without a write.                           *)
LEMMA SuperChangeKeeps ==
  ASSUME SuperKept, super' \in SUBSET SuperKeys, NEW saves \in BOOLEAN, SuperSaved(saves),
         saves = FALSE => super' = super, UNCHANGED <<settings, optedIn>>
  PROVE  SuperKept'
<1>1. CASE saves = FALSE
  BY <1>1 DEF SuperKept, SuperSaved, Meets
<1>2. CASE saves = TRUE
  <2>1. \/ superFile' = Whole(super')
        \/ Meets("files") /\ superFile' = superFile
        \/ Meets("files") /\ superFile' = Empty("torn", {})
    BY <1>2 DEF SuperSaved, SaveState
  <2>2. /\ Whole(super') \in StateFile(SUBSET SuperKeys)
        /\ Whole(super').state = "whole" /\ Whole(super').content = super'
        /\ Empty("torn", {}) \in StateFile(SUBSET SuperKeys)
    BY DEF Whole, Empty, StateFile
  <2>3. superFile' \in StateFile(SUBSET SuperKeys)
    BY <2>1, <2>2 DEF SuperKept
  <2> QED
    BY <2>1, <2>2, <2>3 DEF SuperKept, Meets
<1> QED
  BY <1>1, <1>2

(* Every step keeps the file in line with the map.                         *)
LEMMA SuperStep ==
  ASSUME SuperKept, [Next]_vars
  PROVE  SuperKept'
<1>1. CASE EnableCollection
  <2>1. /\ UNCHANGED <<settings, superFile>> /\ optedIn' = TRUE
        /\ \/ superFile.state = "whole" /\ super' = superFile.content
           \/ (Meets("files") \/ superFile.state # "whole") /\ super' = {}
    BY <1>1 DEF EnableCollection, LoadSuper, LoadState
  <2>2. superFile.content \in SUBSET SuperKeys
    BY DEF SuperKept, StateFile
  <2> QED
    BY <2>1, <2>2 DEF SuperKept, Meets
<1>2. CASE DisableCollection \/ ProcessEnds
  BY <1>2 DEF DisableCollection, ProcessEnds, files, SuperKept, Meets
<1>3. CASE \E key \in SuperKeys : RegisterSuperProperty(key)
  <2>1. PICK key \in SuperKeys : RegisterSuperProperty(key)
    BY <1>3
  <2>2. /\ super' = Register(super, key, GetReservedPropertyKeys)
        /\ SuperSaved(RegisterSaves(key, GetReservedPropertyKeys))
        /\ UNCHANGED <<settings, optedIn>>
    BY <2>1 DEF RegisterSuperProperty
  <2>3. /\ super' \in SUBSET SuperKeys
        /\ RegisterSaves(key, GetReservedPropertyKeys) \in BOOLEAN
        /\ RegisterSaves(key, GetReservedPropertyKeys) = FALSE => super' = super
    BY <2>2 DEF SuperKept, Register, RegisterSaves
  <2> QED
    BY <2>2, <2>3, SuperChangeKeeps
<1>4. CASE \E key \in SuperKeys : UnregisterSuperProperty(key)
  <2>1. PICK key \in SuperKeys : UnregisterSuperProperty(key)
    BY <1>4
  <2>2. /\ super' = super \ {key} /\ SuperSaved(UnregisterSaves(super, key))
        /\ UNCHANGED <<settings, optedIn>>
    BY <2>1 DEF UnregisterSuperProperty
  <2>3. /\ super' \in SUBSET SuperKeys
        /\ UnregisterSaves(super, key) \in BOOLEAN
        /\ UnregisterSaves(super, key) = FALSE => super' = super
    BY <2>2 DEF SuperKept, UnregisterSaves
  <2> QED
    BY <2>2, <2>3, SuperChangeKeeps
<1>5. CASE ClearSuperProperties
  <2>1. super' = {} /\ SuperSaved(TRUE) /\ UNCHANGED <<settings, optedIn>>
    BY <1>5 DEF ClearSuperProperties
  <2> QED
    BY <2>1, SuperChangeKeeps
<1>6. CASE UNCHANGED <<settings, optedIn, super, superFile>>
  BY <1>6 DEF SuperKept, Meets
<1>7. CASE Identify \/ ResetForNextPlayer \/ ResetGroups \/ CaptureComposedEvent
           \/ OnForeground \/ OnBackground \/ UNCHANGED vars
  BY <1>6, <1>7 DEF Identify, ResetForNextPlayer, ResetGroups, CaptureComposedEvent,
                    OnForeground, OnBackground, vars, memory, files
<1>8. CASE (\E type \in GroupTypes : Group(type)) \/ \E kind, given : CaptureEvent(kind, given)
  <2>1. CASE \E type \in GroupTypes : Group(type)
    BY <1>6, <2>1 DEF Group
  <2>2. CASE \E kind, given : CaptureEvent(kind, given)
    BY <1>6, <2>2 DEF CaptureEvent, memory, files
  <2> QED
    BY <1>8, <2>1, <2>2
<1> QED
  BY <1>1, <1>2, <1>3, <1>4, <1>5, <1>7, <1>8 DEF Next

(* What is in memory is what a restart loads (PersistState).               *)
THEOREM Survives == Spec => []SurvivesRestart
<1>1. Init => SuperKept
  <2> SUFFICES ASSUME Init
               PROVE  SuperKept
    OBVIOUS
  <2>1. superFile = [state |-> "absent", content |-> {}] /\ super = {} /\ optedIn = FALSE
    BY DEF Init, Empty
  <2>2. superFile \in StateFile(SUBSET SuperKeys)
    BY <2>1 DEF StateFile
  <2> QED
    BY <2>1, <2>2 DEF SuperKept
<1>2. SuperKept /\ [Next]_vars => SuperKept'
  BY SuperStep
<1>3. CaptureInv /\ SuperKept => SurvivesRestart
  <2> SUFFICES ASSUME CaptureInv, SuperKept, optedIn, ~Meets("files")
               PROVE  /\ identityFile = Whole(identity)
                      /\ superFile = IF superFile.state = "whole"
                                     THEN Whole(super) ELSE superFile
                      /\ superFile.state # "whole" => super = {}
    BY DEF SurvivesRestart
  <2>1. identityFile = Whole(identity)
    BY DEF CaptureInv, Mirrored, Types
  <2>2. superFile = [state |-> superFile.state, content |-> superFile.content]
    BY DEF SuperKept, StateFile
  <2> QED
    BY <2>1, <2>2 DEF SuperKept, Whole
<1> QED
  BY <1>1, <1>2, <1>3, CaptureInvariant, PTL DEF Spec

-----------------------------------------------------------------------------
(* The properties of an event.                                             *)

(* Setting a property takes the place of what was set before.              *)
LEMMA OverFacts ==
  ASSUME NEW later, NEW earlier
  PROVE  /\ DOMAIN Over(later, earlier) = DOMAIN later \cup DOMAIN earlier
         /\ \A key \in DOMAIN later : Over(later, earlier)[key] = later[key]
         /\ \A key \in DOMAIN earlier \ DOMAIN later :
              Over(later, earlier)[key] = earlier[key]
BY DEF Over

(* The keys somebody sets, all of them to the same source.                 *)
LEMMA FromFacts ==
  ASSUME NEW keys, NEW source
  PROVE  /\ DOMAIN From(keys, source) = keys
         /\ \A key \in keys : From(keys, source)[key] = source
BY DEF From

(* Who has set a key, if anyone has: what ComposedInOrder expects.         *)
Setter(kind, given, links, key) ==
  IF key \in GetReservedPropertyKeys
  THEN CASE key = "$session_id" -> "session"
         [] key = "$groups" -> "groups"
         [] key = "$screen_name" -> "producer"
         [] OTHER -> "sdk"
  ELSE IF key \in Built(kind, links) THEN "built"
  ELSE IF key \in given THEN "call" ELSE "super"

(* Reserved keys come from the producer only, the others from the latest   *)
(* of the super properties and the two of the call.                        *)
LEMMA GameFacts ==
  ASSUME NEW kind, NEW given, NEW links, NEW supers,
         supers \cap GetReservedPropertyKeys = {},
         NEW key \in DOMAIN GameProperties(kind, given, links, supers)
  PROVE  /\ key \in GetReservedPropertyKeys => key = "$screen_name"
         /\ GameProperties(kind, given, links, supers)[key]
              = Setter(kind, given, links, key)
<1> DEFINE built == Built(kind, links)
           P == From(Producer(kind), "producer")
           B == From(built \ GetReservedPropertyKeys, "built")
           G == From(given \ GetReservedPropertyKeys, "call")
           S == From(supers, "super")
<1>1. /\ DOMAIN P = Producer(kind) /\ DOMAIN B = built \ GetReservedPropertyKeys
      /\ DOMAIN G = given \ GetReservedPropertyKeys /\ DOMAIN S = supers
  BY FromFacts
<1>2. /\ \A k \in DOMAIN P : P[k] = "producer"
      /\ \A k \in DOMAIN B : B[k] = "built"
      /\ \A k \in DOMAIN G : G[k] = "call"
      /\ \A k \in DOMAIN S : S[k] = "super"
  BY FromFacts
<1>3. GameProperties(kind, given, links, supers) = Over(P, Over(Over(B, G), S))
  BY DEF GameProperties, Applied
<1>4. Producer(kind) \subseteq {"$screen_name"}
      /\ "$screen_name" \in GetReservedPropertyKeys
      /\ "$screen_name" # "$session_id" /\ "$screen_name" # "$groups"
  BY DEF Producer, When, GetReservedPropertyKeys
<1> DEFINE Calls == Over(B, G)
           Below == Over(Calls, S)
           All == Over(P, Below)
<1> HIDE DEF P, B, G, S, built
<1>5. /\ DOMAIN Calls = DOMAIN B \cup DOMAIN G
      /\ \A k \in DOMAIN B : Calls[k] = B[k]
      /\ \A k \in DOMAIN G \ DOMAIN B : Calls[k] = G[k]
  BY OverFacts
<1>6. /\ DOMAIN Below = DOMAIN Calls \cup DOMAIN S
      /\ \A k \in DOMAIN Calls : Below[k] = Calls[k]
      /\ \A k \in DOMAIN S \ DOMAIN Calls : Below[k] = S[k]
  BY OverFacts
<1>7. /\ DOMAIN All = DOMAIN P \cup DOMAIN Below
      /\ \A k \in DOMAIN P : All[k] = P[k]
      /\ \A k \in DOMAIN Below \ DOMAIN P : All[k] = Below[k]
  BY OverFacts
<1>8. key \in DOMAIN All /\ GameProperties(kind, given, links, supers) = All
  BY <1>3
<1> HIDE DEF Calls, Below, All
<1>9. CASE key \in DOMAIN P
  <2>1. All[key] = "producer"
    BY <1>2, <1>7, <1>9
  <2> QED
    BY <1>1, <1>4, <1>8, <1>9, <2>1 DEF Setter
<1>10. CASE key \notin DOMAIN P /\ key \in DOMAIN B
  <2>1. All[key] = "built"
    BY <1>2, <1>5, <1>6, <1>7, <1>10
  <2> QED
    BY <1>1, <1>8, <1>10, <2>1 DEF Setter, built
<1>11. CASE key \notin DOMAIN P /\ key \notin DOMAIN B /\ key \in DOMAIN G
  <2>1. All[key] = "call"
    BY <1>2, <1>5, <1>6, <1>7, <1>11
  <2> QED
    BY <1>1, <1>8, <1>11, <2>1 DEF Setter, built
<1>12. CASE key \notin DOMAIN P /\ key \notin DOMAIN B /\ key \notin DOMAIN G
  <2>1. key \in DOMAIN S /\ All[key] = "super"
    BY <1>2, <1>5, <1>6, <1>7, <1>8, <1>12
  <2> QED
    BY <1>1, <1>8, <1>12, <2>1 DEF Setter, built
<1> QED
  BY <1>9, <1>10, <1>11, <1>12

(* The SDK, the session and the groups set reserved keys, each its own.    *)
LEMMA ComposedFacts ==
  ASSUME NEW kind, NEW given, NEW links, NEW supers,
         NEW processes, NEW inSession, NEW inGroups,
         supers \cap GetReservedPropertyKeys = {},
         NEW key \in DOMAIN Composed(kind, given, links, supers, processes,
                                     inSession, inGroups)
  PROVE  Composed(kind, given, links, supers, processes, inSession, inGroups)[key]
           = Setter(kind, given, links, key)
<1> DEFINE G == From(When(inGroups, "$groups"), "groups")
           S == From(When(inSession, "$session_id"), "session")
           K == SdkProperties(processes)
           R == GameProperties(kind, given, links, supers)
<1>1. /\ DOMAIN G \subseteq {"$groups"} /\ DOMAIN S \subseteq {"$session_id"}
      /\ DOMAIN K \subseteq {"$lib", "$process_person_profile"}
  BY FromFacts DEF When, SdkProperties
<1>2. /\ \A k \in DOMAIN G : G[k] = "groups"
      /\ \A k \in DOMAIN S : S[k] = "session"
      /\ \A k \in DOMAIN K : K[k] = "sdk"
  BY FromFacts DEF SdkProperties
<1>3. /\ \A k \in DOMAIN R : k \in GetReservedPropertyKeys => k = "$screen_name"
      /\ \A k \in DOMAIN R : R[k] = Setter(kind, given, links, k)
  BY GameFacts
<1>4. Composed(kind, given, links, supers, processes, inSession, inGroups)
        = Over(G, Over(S, Over(K, R)))
  BY DEF Composed
<1>5. /\ Setter(kind, given, links, "$groups") = "groups"
      /\ Setter(kind, given, links, "$session_id") = "session"
      /\ Setter(kind, given, links, "$lib") = "sdk"
      /\ Setter(kind, given, links, "$process_person_profile") = "sdk"
  BY DEF Setter, GetReservedPropertyKeys
<1> DEFINE Low == Over(K, R)
           Mid == Over(S, Low)
           All == Over(G, Mid)
<1> HIDE DEF G, S, K, R
<1>6. /\ DOMAIN Low = DOMAIN K \cup DOMAIN R
      /\ \A k \in DOMAIN K : Low[k] = K[k]
      /\ \A k \in DOMAIN R \ DOMAIN K : Low[k] = R[k]
  BY OverFacts
<1>7. /\ DOMAIN Mid = DOMAIN S \cup DOMAIN Low
      /\ \A k \in DOMAIN S : Mid[k] = S[k]
      /\ \A k \in DOMAIN Low \ DOMAIN S : Mid[k] = Low[k]
  BY OverFacts
<1>8. /\ DOMAIN All = DOMAIN G \cup DOMAIN Mid
      /\ \A k \in DOMAIN G : All[k] = G[k]
      /\ \A k \in DOMAIN Mid \ DOMAIN G : All[k] = Mid[k]
  BY OverFacts
<1>9. key \in DOMAIN All
      /\ Composed(kind, given, links, supers, processes, inSession, inGroups) = All
  BY <1>4
<1> HIDE DEF Low, Mid, All
<1>10. CASE key \in DOMAIN G
  BY <1>1, <1>2, <1>5, <1>8, <1>9, <1>10
<1>11. CASE key \notin DOMAIN G /\ key \in DOMAIN S
  BY <1>1, <1>2, <1>5, <1>7, <1>8, <1>9, <1>11
<1>12. CASE key \notin DOMAIN G /\ key \notin DOMAIN S /\ key \in DOMAIN K
  BY <1>1, <1>2, <1>5, <1>6, <1>7, <1>8, <1>9, <1>12
<1>13. CASE key \notin DOMAIN G /\ key \notin DOMAIN S /\ key \notin DOMAIN K
  BY <1>3, <1>6, <1>7, <1>8, <1>9, <1>13
<1> QED
  BY <1>10, <1>11, <1>12, <1>13

(* A before-send callback leaves a property, removes it, or sets it.       *)
LEMMA BeforeSendFacts ==
  ASSUME NEW properties, NEW sent \in AfterBeforeSend(properties),
         NEW key \in DOMAIN sent
  PROVE  \/ key \in DOMAIN properties /\ sent[key] = properties[key]
         \/ sent[key] = "callback"
<1>1. CASE sent = properties
  BY <1>1
<1>2. CASE \E removed \in DOMAIN properties :
             sent = [k \in DOMAIN properties \ {removed} |-> properties[k]]
  BY <1>2
<1>3. CASE sent = Over(From({"$lib"}, "callback"), properties)
  <2> DEFINE new == From({"$lib"}, "callback")
             all == Over(new, properties)
  <2>1. DOMAIN new = {"$lib"} /\ new["$lib"] = "callback"
    BY FromFacts
  <2> HIDE DEF new
  <2>2. /\ DOMAIN all = DOMAIN new \cup DOMAIN properties
        /\ \A k \in DOMAIN new : all[k] = new[k]
        /\ \A k \in DOMAIN properties \ DOMAIN new : all[k] = properties[k]
    BY OverFacts
  <2>3. sent = all
    BY <1>3 DEF new
  <2> HIDE DEF all
  <2> QED
    BY <2>1, <2>2, <2>3
<1> QED
  BY <1>1, <1>2, <1>3 DEF AfterBeforeSend

(* No super property has a reserved key, in memory or on disk.             *)
SuperUnreserved ==
  /\ super \cap GetReservedPropertyKeys = {}
  /\ superFile.content \cap GetReservedPropertyKeys = {}

(* Every step keeps it so: Register refuses such a key, and what is loaded *)
(* has been registered before.                                             *)
LEMMA UnreservedStep ==
  ASSUME SuperUnreserved, [Next]_vars
  PROVE  SuperUnreserved'
<1>1. CASE UNCHANGED superFile /\ super' \in {super, {}, superFile.content}
  BY <1>1 DEF SuperUnreserved
<1>2. CASE /\ super' \cap GetReservedPropertyKeys = {}
           /\ \E saves \in BOOLEAN : SuperSaved(saves)
  <2>1. superFile'.content \in {super', superFile.content, {}}
    BY <1>2 DEF SuperSaved, SaveState, Whole, Empty
  <2> QED
    BY <1>2, <2>1 DEF SuperUnreserved
<1>3. CASE EnableCollection
  BY <1>1, <1>3 DEF EnableCollection, LoadSuper
<1>4. CASE \E key \in SuperKeys : RegisterSuperProperty(key)
  <2>1. PICK key \in SuperKeys : RegisterSuperProperty(key)
    BY <1>4
  <2>2. super' \cap GetReservedPropertyKeys = {}
    BY <2>1 DEF RegisterSuperProperty, Register, SuperUnreserved
  <2>3. \E saves \in BOOLEAN : SuperSaved(saves)
    <3>1. RegisterSaves(key, GetReservedPropertyKeys) \in BOOLEAN
      BY DEF RegisterSaves
    <3> QED
      BY <2>1, <3>1 DEF RegisterSuperProperty
  <2> QED
    BY <1>2, <2>2, <2>3
<1>5. CASE \E key \in SuperKeys : UnregisterSuperProperty(key)
  <2>1. PICK key \in SuperKeys : UnregisterSuperProperty(key)
    BY <1>5
  <2>2. super' \cap GetReservedPropertyKeys = {}
    BY <2>1 DEF UnregisterSuperProperty, SuperUnreserved
  <2>3. \E saves \in BOOLEAN : SuperSaved(saves)
    <3>1. UnregisterSaves(super, key) \in BOOLEAN
      BY DEF UnregisterSaves
    <3> QED
      BY <2>1, <3>1 DEF UnregisterSuperProperty
  <2> QED
    BY <1>2, <2>2, <2>3
<1>6. CASE ClearSuperProperties
  <2>1. super' = {} /\ SuperSaved(TRUE)
    BY <1>6 DEF ClearSuperProperties
  <2> QED
    BY <1>2, <2>1
<1>7. CASE \/ DisableCollection \/ ProcessEnds \/ Identify \/ ResetForNextPlayer
           \/ ResetGroups \/ CaptureComposedEvent \/ OnForeground \/ OnBackground
           \/ UNCHANGED vars
  BY <1>1, <1>7 DEF DisableCollection, ProcessEnds, Identify, ResetForNextPlayer,
                    ResetGroups, CaptureComposedEvent, OnForeground, OnBackground,
                    vars, memory, files
<1>8. CASE (\E type \in GroupTypes : Group(type)) \/ \E kind, given : CaptureEvent(kind, given)
  <2>1. CASE \E type \in GroupTypes : Group(type)
    BY <1>1, <2>1 DEF Group
  <2>2. CASE \E kind, given : CaptureEvent(kind, given)
    BY <1>1, <2>2 DEF CaptureEvent, memory, files
  <2> QED
    BY <1>8, <2>1, <2>2
<1> QED
  BY <1>3, <1>4, <1>5, <1>6, <1>7, <1>8 DEF Next

(* What the event carries is what was composed, or the callback's doing;   *)
(* an event whose link was removed is not looked at for it.                *)
LEMMA CaptureComposes ==
  ASSUME SuperUnreserved, CaptureComposedEvent
  PROVE  ComposedInOrder'
<1>1. PICK s \in SessionAt(session) :
        \/ \E properties \in IF Meets("beforeSend")
                             THEN AfterBeforeSend(ComposedEvent(s))
                             ELSE {ComposedEvent(s)} :
             last' = Event(properties, s)
        \/ last' = NoEvent
  BY DEF CaptureComposedEvent
<1>2. CASE last' = NoEvent
  BY <1>2 DEF ComposedInOrder, Captured, NoEvent
<1>3. CASE last' # NoEvent
  <2>1. PICK properties \in AfterBeforeSend(ComposedEvent(s)) \cup {ComposedEvent(s)} :
          last' = Event(properties, s)
    BY <1>1, <1>3
  <2>2. /\ last'.properties = properties /\ last'.kind = call.kind
        /\ last'.given = call.given
        /\ last'.link = IF "$anon_distinct_id" \in DOMAIN properties
                        THEN call.link ELSE 0
    BY <2>1 DEF Event
  <2> SUFFICES ASSUME NEW key \in DOMAIN properties
               PROVE  properties[key] \in {Expected(key)', "callback"}
    BY <2>2 DEF ComposedInOrder
  <2>3. \/ key \in DOMAIN ComposedEvent(s) /\ properties[key] = ComposedEvent(s)[key]
        \/ properties[key] = "callback"
    BY <2>1, BeforeSendFacts
  <2>4. key \in DOMAIN ComposedEvent(s) =>
          ComposedEvent(s)[key] = Setter(call.kind, call.given, call.link # 0, key)
    BY ComposedFacts DEF ComposedEvent, SuperUnreserved
  <2>5. key \in Built(call.kind, call.link # 0)
          <=> key \in Built(last'.kind, last'.link # 0)
    <3>1. CASE key = "$anon_distinct_id"
      BY <2>2, <3>1
    <3>2. CASE key # "$anon_distinct_id"
      BY <2>2, <3>2 DEF Built, When
    <3> QED
      BY <3>1, <3>2
  <2>6. Setter(call.kind, call.given, call.link # 0, key) = Expected(key)'
    BY <2>2, <2>5 DEF Setter, Expected
  <2> QED
    BY <2>3, <2>4, <2>6
<1> QED
  BY <1>2, <1>3

(* Of two sources of a property the later one has its way                  *)
(* (CaptureEventWithProducerProperties, ApplyToEvent, Register).           *)
THEOREM LaterSourceWins == Spec => []ComposedInOrder
<1>1. Init => SuperUnreserved /\ ComposedInOrder
  BY DEF Init, Empty, NoEvent, SuperUnreserved, ComposedInOrder, Captured
<1>2. SuperUnreserved /\ [Next]_vars => SuperUnreserved'
  BY UnreservedStep
<1>3. SuperUnreserved /\ ComposedInOrder /\ [Next]_vars => ComposedInOrder'
  <2> SUFFICES ASSUME SuperUnreserved, ComposedInOrder, [Next]_vars
               PROVE  ComposedInOrder'
    OBVIOUS
  <2>1. CASE CaptureComposedEvent
    BY <2>1, CaptureComposes
  <2>2. CASE UNCHANGED vars
    BY <2>2 DEF vars, ComposedInOrder, Captured, Expected
  <2>3. CASE Next /\ ~CaptureComposedEvent
    <3>1. last' = NoEvent
      BY <2>3 DEF Next, EnableCollection, DisableCollection, Identify, ResetForNextPlayer,
                  ResetGroups, Group, RegisterSuperProperty, UnregisterSuperProperty,
                  ClearSuperProperties, CaptureEvent, OnForeground, OnBackground,
                  ProcessEnds, NoneCaptured
    <3> QED
      BY <3>1 DEF ComposedInOrder, Captured, NoEvent
  <2> QED
    BY <2>1, <2>2, <2>3
<1> QED
  BY <1>1, <1>2, <1>3, PTL DEF Spec

=============================================================================
