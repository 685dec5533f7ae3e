---------------------------- MODULE PropertyJson ----------------------------
(***************************************************************************)
(* Nested properties: the builders UPostHogEventProperties and             *)
(* UPostHogEventPropertyArray, their conversion to and from JSON           *)
(* (PostHogPropertyJson), and the super properties that go through both    *)
(* conversions at every restart.                                           *)
(*                                                                         *)
(* A property is a tree of FPostHogEventProperty records; a JSON value is  *)
(* a record tagged with its type.  Numbers and texts are tokens: the JSON  *)
(* reader and writer of the engine are assumed to give back what they got. *)
(***************************************************************************)
EXTENDS Naturals, SequencesExt

CONSTANTS
  Objects,       \* the UPostHogEventProperties builders of the game
  Keys,          \* keys, the empty one among them
  Types,         \* the scalar types in use
  MaxCalls,      \* bound on the calls that add to a builder
  MaxRegistered  \* bound on the super properties

ScalarTypes == {"String", "Number", "Boolean", "Null"}

ASSUME PropertyAssumption ==
  /\ "" \in Keys /\ IsFiniteSet(Keys)
  /\ Types \subseteq ScalarTypes
  /\ MaxCalls \in Nat

VARIABLES
  properties,  \* Properties of each object builder
  elements,    \* Elements of the one array builder
  registered,  \* Properties of FPostHogSuperPropertiesManager
  saved,       \* the "properties" object of the state file
  fields,      \* history: the JSON fields the calls on each builder stand for
  items,       \* history: the JSON items the calls on the array stand for
  meant,       \* history: the JSON of each super property when registered
  calls        \* the calls that added to a builder

builders == <<properties, elements, fields, items, calls>>
super == <<registered, saved, meant>>
vars == <<builders, super>>

-----------------------------------------------------------------------------
(* The records of a property, and the JSON types.                          *)

Scalar(key, type, value) ==
  [key |-> key, type |-> type, value |-> value, children |-> <<>>]

Parent(key, type, children) ==
  [key |-> key, type |-> type, value |-> "", children |-> children]

(* What AddString, AddNumber, AddBoolean and AddNull put under a key.      *)
Scalars(key) ==
  {scalar \in {Scalar(key, "String", "text"), Scalar(key, "Number", "1"),
                Scalar(key, "Boolean", "true"), Scalar(key, "Null", "")} :
     scalar.type \in Types}

Texts == {"", "text", "1", "true"}

(* The properties whose children are among these.                          *)
PropertiesOver(children) ==
  [key: Keys, type: ScalarTypes, value: Texts, children: {<<>>}]
    \cup [key: Keys, type: {"Object", "Array"}, value: {""},
          children: Seq(children)]

JsonScalar(type, value) == [json |-> type, value |-> value]
JsonObject(content) == [json |-> "Object", fields |-> content]
JsonArray(content) == [json |-> "Array", items |-> content]

Names == Keys \ {""}

(* A map from names: None is where it has no entry.                        *)
None == [json |-> "None"]

NoFields == [name \in Names |-> None]

Field(key, value) == [name \in Names |-> IF name = key THEN value ELSE None]

Over(below, above) ==
  [name \in Names |-> IF above[name] = None THEN below[name] ELSE above[name]]

NamesIn(content) == {name \in Names : content[name] # None}

(* The JSON values whose fields and items are among these.                 *)
ValuesOver(values) ==
  [json: ScalarTypes, value: Texts]
    \cup [json: {"Object"}, fields: [Names -> values \cup {None}]]
    \cup [json: {"Array"}, items: Seq(values)]

-----------------------------------------------------------------------------
(* The conversions.  Each layer converts the children with the function of *)
(* the layer below, as the code does with a recursive call; the functions  *)
(* of height n convert what is nested less than n deep.                    *)

(* Mutant of the next: a field that is there is kept.                      *)
FirstWith(key, children) ==
  CHOOSE i \in DOMAIN children :
    /\ children[i].key = key
    /\ \A j \in DOMAIN children : children[j].key = key => i <= j

LastWith(key, children) ==
  CHOOSE i \in DOMAIN children :
    /\ children[i].key = key
    /\ \A j \in DOMAIN children : children[j].key = key => j <= i

KeysOf(children) == {children[i].key : i \in DOMAIN children}

(* A child without a key is left out; SetField overwrites, so of several   *)
(* with a key the last one counts.                                         *)
FieldsOf(children, toJson) ==
  [name \in Names |-> IF name \in KeysOf(children)
                      THEN toJson[children[LastWith(name, children)]]
                      ELSE None]

ItemsOf(children, toJson) ==
  [i \in DOMAIN children |-> toJson[children[i]]]

ToJsonOver(toJson) ==
  [property \in PropertiesOver(DOMAIN toJson) |->
     CASE property.type = "Object" ->
            JsonObject(FieldsOf(property.children, toJson))
       [] property.type = "Array" ->
            JsonArray(ItemsOf(property.children, toJson))
       [] OTHER -> JsonScalar(property.type, property.value)]

ToJson[height \in Nat] ==
  IF height = 0 THEN <<>> ELSE ToJsonOver(ToJson[height - 1])

(* Mutant of the next: the fields of an inner object lose their keys, as   *)
(* the items of an array have none.                                        *)
NamedKeyless(content, fromJson) ==
  LET names == SetToSeq(NamesIn(content))
  IN  [i \in DOMAIN names |-> fromJson[content[names[i]]][""]]

(* The fields come in an order of their own; the keys of a JSON object     *)
(* differ, so the order is of no consequence.                              *)
Named(content, fromJson) ==
  LET names == SetToSeq(NamesIn(content))
  IN  [i \in DOMAIN names |-> fromJson[content[names[i]]][names[i]]]

FromJsonOver(fromJson) ==
  [value \in ValuesOver(DOMAIN fromJson) |-> [key \in Keys |->
     CASE value.json = "Object" ->
            Parent(key, "Object", Named(value.fields, fromJson))
       [] value.json = "Array" ->
            Parent(key, "Array", [i \in DOMAIN value.items |->
                                    fromJson[value.items[i]][""]])
       [] OTHER -> Scalar(key, value.json, value.value)]]

FromJson[height \in Nat] ==
  IF height = 0 THEN <<>> ELSE FromJsonOver(FromJson[height - 1])

(* Each call nests at most one deeper, and so does a super property.       *)
MaxHeight == MaxCalls + 1

ToJsonValue(property) == ToJson[MaxHeight][property]
FromJsonValue(key, value) == FromJson[MaxHeight][value][key]

-----------------------------------------------------------------------------
(* The builders.  A child is copied when it is added: what is added to it  *)
(* later does not reach its parents, and an object may be put into itself. *)

Init ==
  /\ properties = [object \in Objects |-> <<>>]
  /\ elements = <<>>
  /\ registered = NoFields
  /\ saved = NoFields
  /\ fields = [object \in Objects |-> NoFields]
  /\ items = <<>>
  /\ meant = NoFields
  /\ calls = 0

AppendTo(object, added, standing) ==
  /\ calls < MaxCalls
  /\ calls' = calls + 1
  /\ properties' = [properties EXCEPT ![object] = @ \o added]
  /\ fields' = [fields EXCEPT ![object] = Over(@, standing)]
  /\ UNCHANGED <<elements, items, super>>

AddScalar ==
  \E object \in Objects, key \in Keys :
    \E scalar \in Scalars(key) :
      AppendTo(object, <<scalar>>,
               Field(key, JsonScalar(scalar.type, scalar.value)))

AddObject ==
  \E object, child \in Objects, key \in Keys :
    AppendTo(object, <<Parent(key, "Object", properties[child])>>,
             Field(key, JsonObject(fields[child])))

AddArray ==
  \E object \in Objects, key \in Keys :
    AppendTo(object, <<Parent(key, "Array", elements)>>,
             Field(key, JsonArray(items)))

(* TArray::Append may not append an array to itself.                       *)
AppendFrom ==
  \E object, other \in Objects :
    /\ object # other
    /\ AppendTo(object, properties[other], fields[other])

AppendElement(element, standing) ==
  /\ calls < MaxCalls
  /\ calls' = calls + 1
  /\ elements' = Append(elements, element)
  /\ items' = Append(items, standing)
  /\ UNCHANGED <<properties, fields, super>>

AddElement ==
  \/ \E element \in Scalars("") :
       AppendElement(element, JsonScalar(element.type, element.value))
  \/ \E object \in Objects :
       AppendElement(Parent("", "Object", properties[object]),
                     JsonObject(fields[object]))
  \/ AppendElement(Parent("", "Array", elements), JsonArray(items))

-----------------------------------------------------------------------------
(* The super properties: RegisterSuperPropertyString and its five          *)
(* companions of the subsystem, each with consent, and the restart.        *)

SaveSuper(all) ==
  [name \in Names |-> IF all[name] = None THEN None ELSE ToJsonValue(all[name])]

(* An empty key is refused.                                                *)
Register(key, property, standing) ==
  /\ key # ""
  /\ Cardinality(NamesIn(registered) \cup {key}) <= MaxRegistered
  /\ registered' = Over(registered, Field(key, [property EXCEPT !.key = key]))
  /\ saved' = SaveSuper(registered')
  /\ meant' = Over(meant, Field(key, standing))
  /\ UNCHANGED builders

RegisterSuperProperty ==
  \E key \in Keys :
    \/ \E scalar \in Scalars("") :
         Register(key, scalar, JsonScalar(scalar.type, scalar.value))
    \/ \E object \in Objects :
         Register(key, Parent("", "Object", properties[object]),
                  JsonObject(fields[object]))
    \/ Register(key, Parent("", "Array", elements), JsonArray(items))

UnregisterSuperProperty ==
  \E key \in NamesIn(registered) :
    /\ registered' = [registered EXCEPT ![key] = None]
    /\ saved' = SaveSuper(registered')
    /\ meant' = [meant EXCEPT ![key] = None]
    /\ UNCHANGED builders

ClearSuperProperties ==
  /\ registered' = NoFields
  /\ saved' = SaveSuper(registered')
  /\ meant' = NoFields
  /\ UNCHANGED builders

LoadSuper(content) ==
  [name \in Names |-> IF content[name] = None THEN None
                      ELSE FromJsonValue(name, content[name])]

(* The process ends; the next one loads the file.  The next save writes    *)
(* what was loaded, so a value may go through any number of conversions.   *)
Restart ==
  /\ registered' = LoadSuper(saved)
  /\ properties' = [object \in Objects |-> <<>>]
  /\ elements' = <<>>
  /\ fields' = [object \in Objects |-> NoFields]
  /\ items' = <<>>
  /\ UNCHANGED <<saved, meant, calls>>

Next ==
  \/ AddScalar
  \/ AddObject
  \/ AddArray
  \/ AppendFrom
  \/ AddElement
  \/ RegisterSuperProperty
  \/ UnregisterSuperProperty
  \/ ClearSuperProperties
  \/ Restart

Spec == Init /\ [][Next]_vars

-----------------------------------------------------------------------------
(* The values an event gets from ApplyTo.                                  *)
ApplyTo == SaveSuper(registered)

(* SentAsRegistered: through any number of restarts and of saves of loaded *)
(* values, an event gets for each super property the JSON value it stood   *)
(* for when it was registered (FPostHogSuperPropertiesManager::LoadOrCreate*)
(* and PersistState): nested keys, nulls, empty objects and the order of   *)
(* an array included.                                                      *)
SentAsRegistered == ApplyTo = meant

(* ConvertedAsBuilt: a builder keeps a list of copies and converts it when *)
(* an event is captured; its JSON object is the one that a map, written at *)
(* each call with the JSON of that moment, would hold.  The later value of *)
(* a key wins, whether an Add call, a nested builder or AppendFrom brought *)
(* it (the order the controller relies on to put its own properties over   *)
(* the game's), and what is added to a builder after it was nested stays   *)
(* out of its parent.                                                      *)
ConvertedAsBuilt ==
  /\ \A object \in Objects :
       ToJsonValue(Parent("", "Object", properties[object]))
         = JsonObject(fields[object])
  /\ ToJsonValue(Parent("", "Array", elements)) = JsonArray(items)

=============================================================================
