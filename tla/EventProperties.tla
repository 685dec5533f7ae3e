-------------------------- MODULE EventProperties --------------------------
(***************************************************************************)
(* The composition of an event's properties: UPostHogEventProperties,      *)
(* FPostHogEvent and PostHogCapturePolicy.                                 *)
(*                                                                         *)
(* What matters of a property is its key and who set it, so an event's     *)
(* properties are a function from keys to sources.  The reserved keys are  *)
(* represented by one the SDK always sets, those it sets only in some      *)
(* situations, and the one that belongs to a producer.                     *)
(***************************************************************************)
Kinds ==
  {"custom", "$screen", "$identify", "$create_alias", "$groupidentify",
   "$exception"}

Policies == {"always", "identifiedOnly", "never"}

GetReservedPropertyKeys ==
  {"$lib", "$screen_name", "$session_id", "$groups", "$process_person_profile"}

Sources ==
  {"super", "call", "built", "producer", "sdk", "session", "groups", "callback"}

ShouldProcessPersonProfile(policy, isIdentified) ==
  policy = "always" \/ (policy = "identifiedOnly" /\ isIdentified)

From(keys, source) == [key \in keys |-> source]

(* Setting the later properties on an event that has the earlier ones.     *)
Over(later, earlier) ==
  [key \in DOMAIN later \cup DOMAIN earlier |->
     IF key \in DOMAIN later THEN later[key] ELSE earlier[key]]

When(condition, key) == IF condition THEN {key} ELSE {}

(* PostHogExceptionPropertiesBuilder::Build sets more of them, alike.      *)
ExceptionProperties == {"$exception_list"}

(* The properties the calls of the controller add to the game's own.       *)
Built(kind, links) ==
  CASE kind = "$identify" -> When(links, "$anon_distinct_id")
    [] kind = "$create_alias" -> {"alias"}
    [] kind = "$groupidentify" -> {"$group_key"}
    [] kind = "$exception" -> ExceptionProperties
    [] OTHER -> {}

(* The producer's properties are applied to the event itself, after those  *)
(* of the call: the reserved keys do not stop them.                        *)
Producer(kind) == When(kind = "$screen", "$screen_name")

(* ApplyToEvent: later properties of a list win, reserved keys are left    *)
(* out.  Mutant of it: nothing is reserved.                                *)
AppliedUnfiltered(given, built) ==
  Over(From(built, "built"), From(given, "call"))

Applied(given, built) ==
  Over(From(built \ GetReservedPropertyKeys, "built"),
       From(given \ GetReservedPropertyKeys, "call"))

SdkProperties(processes) ==
  From({"$lib"} \cup When(~processes, "$process_person_profile"), "sdk")

(* What the game and the producer set, in the order of                     *)
(* CaptureEventWithProducerProperties.                                     *)
GameProperties(kind, given, links, super) ==
  Over(From(Producer(kind), "producer"),
       Over(Applied(given, Built(kind, links)), From(super, "super")))

(* The SDK, the session and the groups have the last word.                 *)
Composed(kind, given, links, super, processes, inSession, inGroups) ==
  Over(From(When(inGroups, "$groups"), "groups"),
       Over(From(When(inSession, "$session_id"), "session"),
            Over(SdkProperties(processes),
                 GameProperties(kind, given, links, super))))

(* A before-send callback may do as it likes with the properties: leave    *)
(* them, remove one, or set one.                                           *)
AfterBeforeSend(properties) ==
  {properties}
  \cup {[key \in DOMAIN properties \ {removed} |-> properties[key]] :
          removed \in DOMAIN properties}
  \cup {Over(From({"$lib"}, "callback"), properties)}

=============================================================================
