------------------------- MODULE PropertyJsonProofs -------------------------
(***************************************************************************)
(* PropertyJson for every value of the constants: however deep the         *)
(* nesting, builders convert to what their calls stand for, and the super  *)
(* properties come back from the file as they were.                        *)
(*                                                                         *)
(* The conversions recurse on the height of what they convert, so most of  *)
(* the facts about them go by induction on it: the set of the heights a    *)
(* fact holds at contains 0 and, with each height, the next one.           *)
(***************************************************************************)
EXTENDS PropertyJson, FiniteSetTheorems, TLAPS

-----------------------------------------------------------------------------
(* Induction over the natural numbers, as a fact about sets of them.       *)

(* A set with 0 and with the successor of each of its members is Nat.      *)
LEMMA Induction ==
  ASSUME NEW T \in SUBSET Nat, 0 \in T, \A n \in T : n + 1 \in T
  PROVE  \A n \in Nat : n \in T
<1> DEFINE Less == {pair \in Nat \X Nat : pair[1] < pair[2]}
           Missing == Nat \ T
<1>1. IsWellFoundedOn(Less, Nat)
  BY NatLessThanWellFounded DEF OpToRel
<1>2. \A x, y \in Nat : x < y => <<x, y>> \in Less
  OBVIOUS
<1> HIDE DEF Less
<1>3. SUFFICES ASSUME Missing # {} PROVE FALSE
  OBVIOUS
<1>4. PICK n \in Missing : \A m \in Missing : ~(<<m, n>> \in Less)
  BY <1>1, <1>3, WFMin
<1>5. n # 0 /\ n \in Nat
  OBVIOUS
<1>6. n - 1 \in Nat /\ n - 1 < n /\ (n - 1) + 1 = n
  BY <1>5
<1>7. n - 1 \in T
  BY <1>2, <1>4, <1>5, <1>6
<1> QED
  BY <1>6, <1>7

(* A set of indexes that is not empty has a greatest one.                  *)
LEMMA Greatest ==
  ASSUME NEW n \in Nat, NEW T \in SUBSET (1..n), T # {}
  PROVE  \E i \in T : \A j \in T : j <= i
<1> DEFINE Good == {m \in Nat : \A R \in SUBSET (1..m) :
                      R # {} => \E i \in R : \A j \in R : j <= i}
<1>1. 0 \in Good
  <2>1. 1..0 = {}
    OBVIOUS
  <2> QED
    BY <2>1
<1>2. ASSUME NEW m \in Good PROVE m + 1 \in Good
  <2>1. ASSUME NEW R \in SUBSET (1..(m + 1)), R # {}
        PROVE  \E i \in R : \A j \in R : j <= i
    <3>1. CASE m + 1 \in R
      BY <3>1
    <3>2. CASE m + 1 \notin R
      <4>1. R \in SUBSET (1..m)
        BY <3>2
      <4> QED
        BY <4>1, <2>1
    <3> QED
      BY <3>1, <3>2
  <2> QED
    BY <2>1
<1>3. n \in Good
  <2> HIDE DEF Good
  <2>1. \A m \in Good : m + 1 \in Good
    BY <1>2
  <2>2. Good \in SUBSET Nat
    BY DEF Good
  <2> QED
    BY <1>1, <2>1, <2>2, Induction
<1> QED
  BY <1>3

-----------------------------------------------------------------------------
(* The two recursions have a solution.                                     *)

(* f is ToJson up to height n.                                             *)
ToJsonSteps(f, n) ==
  \A height \in 0..n :
    f[height] = IF height = 0 THEN <<>> ELSE ToJsonOver(f[height - 1])

(* ToJson is the function its definition recurses to: there is one up to   *)
(* each height, and any two agree.                                         *)
LEMMA ToJsonUnfolds ==
  ASSUME NEW height \in Nat
  PROVE  ToJson[height] = IF height = 0 THEN <<>> ELSE ToJsonOver(ToJson[height - 1])
<1> DEFINE Solved == {n \in Nat : \E f : ToJsonSteps(f, n)}
           Agreed == {n \in Nat : \A f, g : ToJsonSteps(f, n) /\ ToJsonSteps(g, n)
                                              => f[n] = g[n]}
<1>1. ASSUME NEW n \in Nat, NEW f, ToJsonSteps(f, n + 1)
      PROVE  ToJsonSteps(f, n) /\ f[n + 1] = ToJsonOver(f[n])
  BY <1>1 DEF ToJsonSteps
<1>2. \A n \in Nat : \E f : ToJsonSteps(f, n)
  <2>1. ToJsonSteps([m \in {0} |-> <<>>], 0)
    BY DEF ToJsonSteps
  <2>2. ASSUME NEW n \in Nat, NEW f, ToJsonSteps(f, n)
        PROVE  \E g : ToJsonSteps(g, n + 1)
    <3> DEFINE g == [m \in 0..(n + 1) |->
                       IF m = n + 1 THEN ToJsonOver(f[n]) ELSE f[m]]
    <3>1. g[n + 1] = ToJsonOver(g[n]) /\ \A m \in 0..n : g[m] = f[m]
      OBVIOUS
    <3>2. ASSUME NEW m \in 0..(n + 1)
          PROVE  g[m] = IF m = 0 THEN <<>> ELSE ToJsonOver(g[m - 1])
      <4> HIDE DEF g
      <4>1. CASE m = n + 1
        BY <3>1, <4>1
      <4>2. CASE m # n + 1
        <5>1. m \in 0..n /\ (m # 0 => m - 1 \in 0..n)
          BY <4>2
        <5>2. f[m] = IF m = 0 THEN <<>> ELSE ToJsonOver(f[m - 1])
          BY <2>2, <5>1 DEF ToJsonSteps
        <5> QED
          BY <3>1, <5>1, <5>2
      <4> QED
        BY <4>1, <4>2
    <3> HIDE DEF g
    <3>3. ToJsonSteps(g, n + 1)
      BY <3>2 DEF ToJsonSteps
    <3> QED
      BY <3>3
  <2>3. 0 \in Solved /\ \A n \in Solved : n + 1 \in Solved
    BY <2>1, <2>2
  <2>4. Solved \in SUBSET Nat
    OBVIOUS
  <2>5. \A n \in Nat : n \in Solved
    <3> HIDE DEF Solved
    <3> QED
      BY <2>3, <2>4, Induction
  <2> QED
    BY <2>5
<1>3. ASSUME NEW n \in Nat, NEW f, NEW g, ToJsonSteps(f, n), ToJsonSteps(g, n)
      PROVE  f[n] = g[n]
  <2>1. 0 \in Agreed
    BY DEF ToJsonSteps
  <2>2. \A m \in Agreed : m + 1 \in Agreed
    BY <1>1
  <2>3. Agreed \in SUBSET Nat
    OBVIOUS
  <2>4. n \in Agreed
    <3> HIDE DEF Agreed
    <3> QED
      BY <2>1, <2>2, <2>3, Induction
  <2> QED
    BY <1>3, <2>4
<1> DEFINE At(n) == CHOOSE f : ToJsonSteps(f, n)
           F == [n \in Nat |-> At(n)[n]]
<1>4. \A n \in Nat : ToJsonSteps(At(n), n)
  BY <1>2
<1> HIDE DEF At
<1>5. ASSUME NEW n \in Nat
      PROVE  F[n] = IF n = 0 THEN <<>> ELSE ToJsonOver(F[n - 1])
  <2>1. CASE n = 0
    BY <1>4, <2>1 DEF ToJsonSteps
  <2>2. CASE n # 0
    <3>1. n - 1 \in Nat /\ n = (n - 1) + 1
      BY <2>2
    <3>2. ToJsonSteps(At(n), n - 1) /\ At(n)[n] = ToJsonOver(At(n)[n - 1])
      BY <1>1, <1>4, <3>1
    <3>3. At(n)[n - 1] = At(n - 1)[n - 1]
      BY <1>3, <1>4, <3>1, <3>2
    <3> QED
      BY <2>2, <3>1, <3>2, <3>3
  <2> QED
    BY <2>1, <2>2
<1> DEFINE Is(f) ==
      f = [n \in Nat |-> IF n = 0 THEN <<>> ELSE ToJsonOver(f[n - 1])]
<1>6. Is(F)
  <2> DEFINE G == [n \in Nat |-> IF n = 0 THEN <<>> ELSE ToJsonOver(F[n - 1])]
  <2>1. \A n \in Nat : F[n] = G[n]
    BY <1>5
  <2> QED
    BY <2>1
<1> HIDE DEF F
<1>7. ToJson = CHOOSE f : Is(f)
  BY DEF ToJson
<1>8. Is(ToJson)
  BY <1>6, <1>7
<1> QED
  BY <1>8

(* f is FromJson up to height n.                                           *)
FromJsonSteps(f, n) ==
  \A height \in 0..n :
    f[height] = IF height = 0 THEN <<>> ELSE FromJsonOver(f[height - 1])

(* And so is FromJson.                                                     *)
LEMMA FromJsonUnfolds ==
  ASSUME NEW height \in Nat
  PROVE  FromJson[height] = IF height = 0 THEN <<>> ELSE FromJsonOver(FromJson[height - 1])
<1> DEFINE Solved == {n \in Nat : \E f : FromJsonSteps(f, n)}
           Agreed == {n \in Nat : \A f, g : FromJsonSteps(f, n) /\ FromJsonSteps(g, n)
                                              => f[n] = g[n]}
<1>1. ASSUME NEW n \in Nat, NEW f, FromJsonSteps(f, n + 1)
      PROVE  FromJsonSteps(f, n) /\ f[n + 1] = FromJsonOver(f[n])
  BY <1>1 DEF FromJsonSteps
<1>2. \A n \in Nat : \E f : FromJsonSteps(f, n)
  <2>1. FromJsonSteps([m \in {0} |-> <<>>], 0)
    BY DEF FromJsonSteps
  <2>2. ASSUME NEW n \in Nat, NEW f, FromJsonSteps(f, n)
        PROVE  \E g : FromJsonSteps(g, n + 1)
    <3> DEFINE g == [m \in 0..(n + 1) |->
                       IF m = n + 1 THEN FromJsonOver(f[n]) ELSE f[m]]
    <3>1. g[n + 1] = FromJsonOver(g[n]) /\ \A m \in 0..n : g[m] = f[m]
      OBVIOUS
    <3>2. ASSUME NEW m \in 0..(n + 1)
          PROVE  g[m] = IF m = 0 THEN <<>> ELSE FromJsonOver(g[m - 1])
      <4> HIDE DEF g
      <4>1. CASE m = n + 1
        BY <3>1, <4>1
      <4>2. CASE m # n + 1
        <5>1. m \in 0..n /\ (m # 0 => m - 1 \in 0..n)
          BY <4>2
        <5>2. f[m] = IF m = 0 THEN <<>> ELSE FromJsonOver(f[m - 1])
          BY <2>2, <5>1 DEF FromJsonSteps
        <5> QED
          BY <3>1, <5>1, <5>2
      <4> QED
        BY <4>1, <4>2
    <3> HIDE DEF g
    <3>3. FromJsonSteps(g, n + 1)
      BY <3>2 DEF FromJsonSteps
    <3> QED
      BY <3>3
  <2>3. 0 \in Solved /\ \A n \in Solved : n + 1 \in Solved
    BY <2>1, <2>2
  <2>4. Solved \in SUBSET Nat
    OBVIOUS
  <2>5. \A n \in Nat : n \in Solved
    <3> HIDE DEF Solved
    <3> QED
      BY <2>3, <2>4, Induction
  <2> QED
    BY <2>5
<1>3. ASSUME NEW n \in Nat, NEW f, NEW g, FromJsonSteps(f, n), FromJsonSteps(g, n)
      PROVE  f[n] = g[n]
  <2>1. 0 \in Agreed
    BY DEF FromJsonSteps
  <2>2. \A m \in Agreed : m + 1 \in Agreed
    BY <1>1
  <2>3. Agreed \in SUBSET Nat
    OBVIOUS
  <2>4. n \in Agreed
    <3> HIDE DEF Agreed
    <3> QED
      BY <2>1, <2>2, <2>3, Induction
  <2> QED
    BY <1>3, <2>4
<1> DEFINE At(n) == CHOOSE f : FromJsonSteps(f, n)
           F == [n \in Nat |-> At(n)[n]]
<1>4. \A n \in Nat : FromJsonSteps(At(n), n)
  BY <1>2
<1> HIDE DEF At
<1>5. ASSUME NEW n \in Nat
      PROVE  F[n] = IF n = 0 THEN <<>> ELSE FromJsonOver(F[n - 1])
  <2>1. CASE n = 0
    BY <1>4, <2>1 DEF FromJsonSteps
  <2>2. CASE n # 0
    <3>1. n - 1 \in Nat /\ n = (n - 1) + 1
      BY <2>2
    <3>2. FromJsonSteps(At(n), n - 1) /\ At(n)[n] = FromJsonOver(At(n)[n - 1])
      BY <1>1, <1>4, <3>1
    <3>3. At(n)[n - 1] = At(n - 1)[n - 1]
      BY <1>3, <1>4, <3>1, <3>2
    <3> QED
      BY <2>2, <3>1, <3>2, <3>3
  <2> QED
    BY <2>1, <2>2
<1> DEFINE Is(f) ==
      f = [n \in Nat |-> IF n = 0 THEN <<>> ELSE FromJsonOver(f[n - 1])]
<1>6. Is(F)
  <2> DEFINE G == [n \in Nat |-> IF n = 0 THEN <<>> ELSE FromJsonOver(F[n - 1])]
  <2>1. \A n \in Nat : F[n] = G[n]
    BY <1>5
  <2> QED
    BY <2>1
<1> HIDE DEF F
<1>7. FromJson = CHOOSE f : Is(f)
  BY DEF FromJson
<1>8. Is(FromJson)
  BY <1>6, <1>7
<1> QED
  BY <1>8

-----------------------------------------------------------------------------
(* One layer of each conversion.                                           *)

(* The properties, and the JSON values, of less than a height.             *)
PropertiesOf(height) == DOMAIN ToJson[height]
ValuesOf(height) == DOMAIN FromJson[height]

(* Nothing has height 0.                                                   *)
LEMMA NoLayer == PropertiesOf(0) = {} /\ ValuesOf(0) = {}
<1>1. ToJson[0] = <<>> /\ FromJson[0] = <<>>
  BY ToJsonUnfolds, FromJsonUnfolds
<1> QED
  BY <1>1 DEF PropertiesOf, ValuesOf

(* What ToJson does with a property of the next height.                    *)
LEMMA ToJsonLayer ==
  ASSUME NEW height \in Nat
  PROVE  /\ PropertiesOf(height + 1) = PropertiesOver(PropertiesOf(height))
         /\ \A property \in PropertiesOf(height + 1) :
              ToJson[height + 1][property]
                = CASE property.type = "Object" ->
                         JsonObject(FieldsOf(property.children, ToJson[height]))
                    [] property.type = "Array" ->
                         JsonArray(ItemsOf(property.children, ToJson[height]))
                    [] OTHER -> JsonScalar(property.type, property.value)
<1>1. height + 1 \in Nat /\ height + 1 # 0 /\ (height + 1) - 1 = height
  OBVIOUS
<1>2. ToJson[height + 1] = ToJsonOver(ToJson[height])
  BY ONLY <1>1, ToJsonUnfolds
<1> QED
  BY <1>2 DEF ToJsonOver, PropertiesOf

(* What FromJson does with a value of the next height.                     *)
LEMMA FromJsonLayer ==
  ASSUME NEW height \in Nat
  PROVE  /\ ValuesOf(height + 1) = ValuesOver(ValuesOf(height))
         /\ \A value \in ValuesOf(height + 1), key \in Keys :
              FromJson[height + 1][value][key]
                = CASE value.json = "Object" ->
                         Parent(key, "Object", Named(value.fields, FromJson[height]))
                    [] value.json = "Array" ->
                         Parent(key, "Array", [i \in DOMAIN value.items |->
                                    FromJson[height][value.items[i]][""]])
                    [] OTHER -> Scalar(key, value.json, value.value)
<1>1. height + 1 \in Nat /\ height + 1 # 0 /\ (height + 1) - 1 = height
  OBVIOUS
<1>2. FromJson[height + 1] = FromJsonOver(FromJson[height])
  BY ONLY <1>1, FromJsonUnfolds
<1>3. ValuesOf(height + 1) = ValuesOver(ValuesOf(height))
  BY <1>2 DEF FromJsonOver, ValuesOf
<1>4. ASSUME NEW value \in ValuesOf(height + 1)
      PROVE  FromJson[height + 1][value]
               = [key \in Keys |->
                   CASE value.json = "Object" ->
                          Parent(key, "Object", Named(value.fields, FromJson[height]))
                     [] value.json = "Array" ->
                          Parent(key, "Array", [i \in DOMAIN value.items |->
                                     FromJson[height][value.items[i]][""]])
                     [] OTHER -> Scalar(key, value.json, value.value)]
  BY <1>2, <1>4 DEF FromJsonOver, ValuesOf
<1> QED
  BY <1>3, <1>4

-----------------------------------------------------------------------------
(* Lists of children, of which the last with a key counts.                 *)

(* A key of a list has a last child.                                       *)
LEMMA LastExists ==
  ASSUME NEW S, NEW children \in Seq(S), NEW key \in KeysOf(children)
  PROVE  /\ LastWith(key, children) \in DOMAIN children
         /\ children[LastWith(key, children)].key = key
         /\ \A j \in DOMAIN children :
              children[j].key = key => j <= LastWith(key, children)
<1> DEFINE T == {i \in DOMAIN children : children[i].key = key}
<1>1. T # {}
  BY DEF KeysOf
<1>2. Len(children) \in Nat /\ T \in SUBSET (1..Len(children))
  OBVIOUS
<1>3. PICK i \in T : \A j \in T : j <= i
  BY <1>1, <1>2, Greatest
<1> QED
  BY <1>3 DEF LastWith

(* A child after which no other has its key is the last with it.           *)
LEMMA LastUnique ==
  ASSUME NEW S, NEW children \in Seq(S), NEW i \in DOMAIN children,
         \A j \in DOMAIN children : children[j].key = children[i].key => j <= i
  PROVE  LastWith(children[i].key, children) = i
<1> DEFINE key == children[i].key
           k == LastWith(key, children)
<1>1. key \in KeysOf(children)
  BY DEF KeysOf
<1>2. k \in DOMAIN children /\ children[k].key = key /\ i <= k
  BY <1>1, LastExists
<1>3. k <= i
  BY <1>2
<1>4. DOMAIN children = 1..Len(children) /\ Len(children) \in Nat
  OBVIOUS
<1> HIDE DEF k
<1> QED
  BY <1>2, <1>3, <1>4 DEF k

(* Where the elements of two lists are in their concatenation.             *)
LEMMA IndexOfConcat ==
  ASSUME NEW S, NEW s \in Seq(S), NEW t \in Seq(S)
  PROVE  /\ Len(s) \in Nat /\ Len(t) \in Nat /\ s \o t \in Seq(S)
         /\ DOMAIN s = 1..Len(s) /\ DOMAIN t = 1..Len(t)
         /\ DOMAIN (s \o t) = 1..(Len(s) + Len(t))
         /\ \A i \in 1..Len(s) : (s \o t)[i] = s[i]
         /\ \A i \in 1..Len(t) : (s \o t)[Len(s) + i] = t[i]
         /\ \A i \in DOMAIN (s \o t) : i \notin 1..Len(s) =>
              /\ i - Len(s) \in 1..Len(t)
              /\ (s \o t)[i] = t[i - Len(s)]
OBVIOUS

(* The keys of a concatenation.                                            *)
LEMMA KeysOfConcat ==
  ASSUME NEW S, NEW s \in Seq(S), NEW t \in Seq(S)
  PROVE  KeysOf(s \o t) = KeysOf(s) \cup KeysOf(t)
<1> DEFINE u == s \o t
<1>1. /\ DOMAIN s = 1..Len(s) /\ DOMAIN t = 1..Len(t)
      /\ Len(s) \in Nat /\ Len(t) \in Nat
      /\ DOMAIN u = 1..(Len(s) + Len(t))
      /\ \A i \in 1..Len(s) : u[i] = s[i]
      /\ \A i \in 1..Len(t) : u[Len(s) + i] = t[i]
      /\ \A i \in DOMAIN u : i \notin 1..Len(s) =>
           i - Len(s) \in 1..Len(t) /\ u[i] = t[i - Len(s)]
  BY IndexOfConcat
<1> HIDE DEF u
<1>2. ASSUME NEW i \in DOMAIN u PROVE u[i].key \in KeysOf(s) \cup KeysOf(t)
  BY <1>1 DEF KeysOf
<1>3. ASSUME NEW i \in DOMAIN s PROVE s[i].key \in KeysOf(u)
  <2>1. i \in DOMAIN u /\ u[i] = s[i]
    BY <1>1
  <2> QED
    BY <2>1 DEF KeysOf
<1>4. ASSUME NEW i \in DOMAIN t PROVE t[i].key \in KeysOf(u)
  <2>1. Len(s) + i \in DOMAIN u /\ u[Len(s) + i] = t[i]
    BY <1>1
  <2> QED
    BY <2>1 DEF KeysOf
<1>5. KeysOf(u) = KeysOf(s) \cup KeysOf(t)
  BY <1>2, <1>3, <1>4 DEF KeysOf
<1> QED
  BY <1>5 DEF u

(* A key of the second list: the last child with it is there.              *)
LEMMA LastInSecond ==
  ASSUME NEW S, NEW s \in Seq(S), NEW t \in Seq(S), NEW key \in KeysOf(t)
  PROVE  (s \o t)[LastWith(key, s \o t)] = t[LastWith(key, t)]
<1> DEFINE u == s \o t
           k == LastWith(key, t)
<1>1. /\ DOMAIN s = 1..Len(s) /\ DOMAIN t = 1..Len(t)
      /\ Len(s) \in Nat /\ Len(t) \in Nat /\ u \in Seq(S)
      /\ DOMAIN u = 1..(Len(s) + Len(t))
      /\ \A i \in 1..Len(t) : u[Len(s) + i] = t[i]
      /\ \A i \in DOMAIN u : i \notin 1..Len(s) =>
           i - Len(s) \in 1..Len(t) /\ u[i] = t[i - Len(s)]
  BY IndexOfConcat
<1>2. /\ k \in DOMAIN t /\ t[k].key = key
      /\ \A j \in DOMAIN t : t[j].key = key => j <= k
  BY LastExists
<1> HIDE DEF u, k
<1>3. Len(s) + k \in DOMAIN u /\ u[Len(s) + k] = t[k]
  BY <1>1, <1>2
<1>4. ASSUME NEW j \in DOMAIN u, u[j].key = key
      PROVE  j <= Len(s) + k
  <2>1. CASE j \in 1..Len(s)
    BY <2>1, <1>1, <1>2
  <2>2. CASE j \notin 1..Len(s)
    <3>1. j - Len(s) \in DOMAIN t /\ t[j - Len(s)].key = key
      BY <2>2, <1>4, <1>1
    <3>2. j - Len(s) <= k
      BY <3>1, <1>2
    <3> QED
      BY <3>2, <1>1, <1>2
  <2> QED
    BY <2>1, <2>2
<1>5. LastWith(key, u) = Len(s) + k
  BY <1>1, <1>2, <1>3, <1>4, LastUnique
<1> QED
  BY <1>3, <1>5 DEF u, k

(* A key of the first list only: the last child with it is there.          *)
LEMMA LastInFirst ==
  ASSUME NEW S, NEW s \in Seq(S), NEW t \in Seq(S), NEW key \in KeysOf(s),
         key \notin KeysOf(t)
  PROVE  (s \o t)[LastWith(key, s \o t)] = s[LastWith(key, s)]
<1> DEFINE u == s \o t
           k == LastWith(key, s)
<1>1. /\ DOMAIN s = 1..Len(s) /\ DOMAIN t = 1..Len(t)
      /\ Len(s) \in Nat /\ Len(t) \in Nat /\ u \in Seq(S)
      /\ DOMAIN u = 1..(Len(s) + Len(t))
      /\ \A i \in 1..Len(s) : u[i] = s[i]
      /\ \A i \in DOMAIN u : i \notin 1..Len(s) =>
           i - Len(s) \in 1..Len(t) /\ u[i] = t[i - Len(s)]
  BY IndexOfConcat
<1>2. /\ k \in DOMAIN s /\ s[k].key = key
      /\ \A j \in DOMAIN s : s[j].key = key => j <= k
  BY LastExists
<1> HIDE DEF u, k
<1>3. k \in DOMAIN u /\ u[k] = s[k]
  BY <1>1, <1>2
<1>4. ASSUME NEW j \in DOMAIN u, u[j].key = key
      PROVE  j <= k
  <2>1. CASE j \in 1..Len(s)
    BY <2>1, <1>1, <1>2, <1>4
  <2>2. CASE j \notin 1..Len(s)
    <3>1. j - Len(s) \in DOMAIN t /\ t[j - Len(s)].key = key
      BY <2>2, <1>4, <1>1
    <3> QED
      BY <3>1 DEF KeysOf
  <2> QED
    BY <2>1, <2>2
<1>5. LastWith(key, u) = k
  BY <1>1, <1>2, <1>3, <1>4, LastUnique
<1> QED
  BY <1>3, <1>5 DEF u, k

-----------------------------------------------------------------------------
(* The fields and the items that a list of children converts to.           *)

(* The fields of an object and the items of an array are of the values of  *)
(* the children.                                                           *)
LEMMA FieldsTyped ==
  ASSUME NEW P, NEW V, NEW children \in Seq(P), NEW toJson,
         \A property \in P : toJson[property] \in V
  PROVE  /\ FieldsOf(children, toJson) \in [Names -> V \cup {None}]
         /\ ItemsOf(children, toJson) \in Seq(V)
<1>1. ASSUME NEW name \in KeysOf(children)
      PROVE  toJson[children[LastWith(name, children)]] \in V
  BY LastExists
<1>2. FieldsOf(children, toJson) \in [Names -> V \cup {None}]
  BY <1>1 DEF FieldsOf
<1>3. /\ Len(children) \in Nat /\ DOMAIN children = 1..Len(children)
      /\ \A i \in DOMAIN children : children[i] \in P
  OBVIOUS
<1>4. ItemsOf(children, toJson) \in [1..Len(children) -> V]
  BY <1>3 DEF ItemsOf
<1>5. ItemsOf(children, toJson) \in Seq(V)
  BY <1>3, <1>4
<1> QED
  BY <1>2, <1>5

(* Functions that agree on the children give the same fields and items.    *)
LEMMA FieldsSame ==
  ASSUME NEW P, NEW children \in Seq(P), NEW f, NEW g,
         \A property \in P : f[property] = g[property]
  PROVE  /\ FieldsOf(children, f) = FieldsOf(children, g)
         /\ ItemsOf(children, f) = ItemsOf(children, g)
<1>1. ASSUME NEW name \in KeysOf(children)
      PROVE  f[children[LastWith(name, children)]]
               = g[children[LastWith(name, children)]]
  <2>1. children[LastWith(name, children)] \in P
    BY LastExists
  <2> QED
    BY <2>1
<1>2. FieldsOf(children, f) = FieldsOf(children, g)
  BY <1>1 DEF FieldsOf
<1>3. \A i \in DOMAIN children : f[children[i]] = g[children[i]]
  OBVIOUS
<1>4. ItemsOf(children, f) = ItemsOf(children, g)
  BY <1>3 DEF ItemsOf
<1> QED
  BY <1>2, <1>4

(* An empty list has no field and no item.                                 *)
LEMMA FieldsOfNone ==
  ASSUME NEW toJson
  PROVE  FieldsOf(<<>>, toJson) = NoFields /\ ItemsOf(<<>>, toJson) = <<>>
<1>1. KeysOf(<<>>) = {}
  BY DEF KeysOf
<1>2. FieldsOf(<<>>, toJson) = NoFields
  BY <1>1 DEF FieldsOf, NoFields
<1>3. ItemsOf(<<>>, toJson) = <<>>
  BY DEF ItemsOf
<1> QED
  BY <1>2, <1>3

(* A list of one child has at most one field.                              *)
LEMMA FieldsOfOne ==
  ASSUME NEW P, NEW property \in P, NEW toJson
  PROVE  FieldsOf(<<property>>, toJson)
           = Field(property.key, toJson[property])
<1> DEFINE one == <<property>>
<1>1. /\ one \in Seq(P) /\ DOMAIN one = {1} /\ one[1] = property
      /\ 1 \in DOMAIN one /\ \A j \in DOMAIN one : j <= 1
  OBVIOUS
<1> HIDE DEF one
<1>2. KeysOf(one) = {property.key}
  BY <1>1 DEF KeysOf
<1>3. LastWith(property.key, one) = 1
  BY <1>1, LastUnique
<1>4. FieldsOf(one, toJson) = Field(property.key, toJson[property])
  BY <1>1, <1>2, <1>3 DEF FieldsOf, Field
<1> QED
  BY <1>4 DEF one

(* The fields of a longer list are those of its second part over those of  *)
(* its first: what SetField does with a key that is there.                 *)
LEMMA FieldsOfConcat ==
  ASSUME NEW P, NEW s \in Seq(P), NEW t \in Seq(P), NEW toJson,
         \A property \in P : toJson[property] # None
  PROVE  FieldsOf(s \o t, toJson)
           = Over(FieldsOf(s, toJson), FieldsOf(t, toJson))
<1>1. ASSUME NEW name \in Names
      PROVE  FieldsOf(s \o t, toJson)[name]
               = Over(FieldsOf(s, toJson), FieldsOf(t, toJson))[name]
  <2>1. KeysOf(s \o t) = KeysOf(s) \cup KeysOf(t)
    BY KeysOfConcat
  <2>2. name \in KeysOf(t) => t[LastWith(name, t)] \in P
    BY LastExists
  <2>4. \A list : FieldsOf(list, toJson)[name]
                    = IF name \in KeysOf(list)
                      THEN toJson[list[LastWith(name, list)]] ELSE None
    BY DEF FieldsOf
  <2>5. \A c, d : Over(c, d)[name] = IF d[name] = None THEN c[name] ELSE d[name]
    BY DEF Over
  <2>6. CASE name \in KeysOf(t)
    <3>1. FieldsOf(t, toJson)[name] # None
      BY <2>2, <2>4, <2>6
    <3>2. FieldsOf(s \o t, toJson)[name] = FieldsOf(t, toJson)[name]
      BY <2>1, <2>4, <2>6, LastInSecond
    <3> QED
      BY <2>5, <3>1, <3>2
  <2>7. CASE name \notin KeysOf(t)
    <3>1. FieldsOf(t, toJson)[name] = None
      BY <2>4, <2>7
    <3>2. FieldsOf(s \o t, toJson)[name] = FieldsOf(s, toJson)[name]
      BY <2>1, <2>4, <2>7, LastInFirst
    <3> QED
      BY <2>5, <3>1, <3>2
  <2> QED
    BY <2>6, <2>7
<1> QED
  BY <1>1 DEF FieldsOf, Over

(* One more element, one more item.                                        *)
LEMMA ItemsOfAppend ==
  ASSUME NEW P, NEW s \in Seq(P), NEW property \in P, NEW toJson
  PROVE  ItemsOf(Append(s, property), toJson)
           = Append(ItemsOf(s, toJson), toJson[property])
<1> DEFINE a == ItemsOf(Append(s, property), toJson)
           i == ItemsOf(s, toJson)
           V == {toJson[p] : p \in P}
<1>1. Len(s) \in Nat /\ DOMAIN s = 1..Len(s)
  OBVIOUS
<1>2. i \in Seq(V) /\ Len(i) = Len(s)
  <2>1. i \in [1..Len(s) -> V]
    BY <1>1 DEF ItemsOf
  <2> QED
    BY <1>1, <2>1
<1>3. /\ DOMAIN a = 1..(Len(s) + 1) /\ a[Len(s) + 1] = toJson[property]
      /\ \A k \in 1..Len(s) : a[k] = toJson[s[k]] /\ i[k] = toJson[s[k]]
      /\ a = [k \in 1..(Len(s) + 1) |-> a[k]]
  BY <1>1 DEF ItemsOf
<1> DEFINE v == toJson[property]
           b == Append(i, v)
<1>4. v \in V
  OBVIOUS
<1> HIDE DEF a, i, v, V
<1>5. /\ b \in Seq(V) /\ Len(b) = Len(s) + 1 /\ b[Len(s) + 1] = v
      /\ \A k \in 1..Len(s) : b[k] = i[k]
  BY <1>1, <1>2, <1>4
<1> HIDE DEF b
<1>6. b = [k \in 1..(Len(s) + 1) |-> b[k]]
  BY <1>5
<1>7. ASSUME NEW k \in 1..(Len(s) + 1)
      PROVE  a[k] = b[k]
  <2>1. CASE k = Len(s) + 1
    BY <2>1, <1>3, <1>5 DEF v
  <2>2. CASE k # Len(s) + 1
    <3>1. k \in 1..Len(s)
      BY <2>2, <1>1
    <3> QED
      BY <3>1, <1>3, <1>5
  <2> QED
    BY <2>1, <2>2
<1>8. a = b
  BY <1>3, <1>6, <1>7
<1> QED
  BY <1>8 DEF a, b, i, v

-----------------------------------------------------------------------------
(* The fields of an object as children.                                    *)

(* SetToSeq lists each element of a finite set once.                       *)
LEMMA SetToSeqLists ==
  ASSUME NEW S, IsFiniteSet(S)
  PROVE  /\ SetToSeq(S) \in [1..Cardinality(S) -> S]
         /\ Cardinality(S) \in Nat
         /\ \A i, j \in 1..Cardinality(S) :
              SetToSeq(S)[i] = SetToSeq(S)[j] => i = j
         /\ \A x \in S : \E i \in 1..Cardinality(S) : SetToSeq(S)[i] = x
<1> DEFINE n == Cardinality(S)
           f == SetToSeq(S)
<1>1. n \in Nat /\ ExistsBijection(1..n, S)
  BY FS_CardinalityType
<1>2. PICK g \in Bijection(1..n, S) : TRUE
  BY <1>1 DEF ExistsBijection
<1>3. g \in [1..n -> S] /\ IsInjective(g)
  BY <1>2 DEF Bijection, Injection
<1>4. f \in [1..n -> S] /\ IsInjective(f)
  BY <1>3 DEF SetToSeq
<1> HIDE DEF f
<1>5. \A a, b \in 1..n : f[a] = f[b] => a = b
  BY <1>4 DEF IsInjective
<1>6. f \in Injection(1..n, S)
  BY <1>4 DEF Injection
<1>7. IsFiniteSet(1..n) /\ Cardinality(1..n) = n
  BY <1>1, FS_Interval
<1>8. f \in Surjection(1..n, S)
  BY <1>6, <1>7, FS_Injection
<1>9. \A x \in S : \E i \in 1..n : f[i] = x
  BY <1>4, <1>8 DEF Surjection
<1> QED
  BY <1>1, <1>4, <1>5, <1>9 DEF f

(* fromJson turns each of the values V into one of the properties P that   *)
(* toJson turns back.                                                      *)
GoesBack(V, P, fromJson, toJson) ==
  \A value \in V, key \in Keys :
    /\ fromJson[value][key] \in P
    /\ fromJson[value][key].key = key
    /\ toJson[fromJson[value][key]] = value

(* The fields of an object, made into children and converted again, are    *)
(* the same fields.                                                        *)
LEMMA NamedBack ==
  ASSUME NEW V, NEW P, NEW content \in [Names -> V \cup {None}],
         NEW fromJson, NEW toJson, GoesBack(V, P, fromJson, toJson)
  PROVE  /\ Named(content, fromJson) \in Seq(P)
         /\ FieldsOf(Named(content, fromJson), toJson) = content
<1> DEFINE S == NamesIn(content)
           n == Cardinality(S)
           names == SetToSeq(S)
           list == Named(content, fromJson)
<1>1. IsFiniteSet(S)
  BY PropertyAssumption, FS_Subset DEF NamesIn, Names
<1>2. /\ n \in Nat /\ names \in [1..n -> S]
      /\ \A i, j \in 1..n : names[i] = names[j] => i = j
      /\ \A x \in S : \E i \in 1..n : names[i] = x
  BY <1>1, SetToSeqLists
<1>3. \A x \in S : x \in Keys /\ x \in Names /\ content[x] \in V
  BY DEF NamesIn, Names
<1>4. list = [i \in 1..n |-> fromJson[content[names[i]]][names[i]]]
  BY <1>2 DEF Named
<1> HIDE DEF S, n, names, list
<1>5. ASSUME NEW i \in 1..n
      PROVE  /\ list[i] \in P /\ list[i].key = names[i]
             /\ names[i] \in S /\ toJson[list[i]] = content[names[i]]
  BY <1>2, <1>3, <1>4 DEF GoesBack
<1>6. list \in [1..n -> P] /\ DOMAIN list = 1..n
  BY <1>4, <1>5
<1>7. list \in Seq(P)
  BY <1>2, <1>6
<1>8. KeysOf(list) = S
  BY <1>2, <1>5, <1>6 DEF KeysOf
<1>9. ASSUME NEW name \in S
      PROVE  toJson[list[LastWith(name, list)]] = content[name]
  <2>1. /\ LastWith(name, list) \in 1..n
        /\ list[LastWith(name, list)].key = name
    BY <1>6, <1>7, <1>8, LastExists
  <2> QED
    BY <2>1, <1>5
<1>10. ASSUME NEW name \in Names
       PROVE  FieldsOf(list, toJson)[name] = content[name]
  <2>1. name \notin S => content[name] = None
    BY DEF S, NamesIn
  <2> QED
    BY <1>8, <1>9, <2>1 DEF FieldsOf
<1>11. FieldsOf(list, toJson) = content
  BY <1>10 DEF FieldsOf
<1> QED
  BY <1>7, <1>11 DEF list

-----------------------------------------------------------------------------
(* The records of properties and of JSON values.                           *)

(* A property is a scalar or has children.                                 *)
LEMMA PropertyCases ==
  ASSUME NEW C, NEW property \in PropertiesOver(C)
  PROVE  /\ property.key \in Keys
         /\ \/ /\ property.type \in ScalarTypes /\ property.value \in Texts
               /\ property.type # "Object" /\ property.type # "Array"
               /\ property.children = <<>>
            \/ /\ property.type \in {"Object", "Array"}
               /\ property.children \in Seq(C)
BY DEF PropertiesOver, ScalarTypes

(* And conversely.                                                         *)
LEMMA PropertyIntro ==
  ASSUME NEW C, NEW key \in Keys
  PROVE  /\ \A type \in ScalarTypes, value \in Texts :
              Scalar(key, type, value) \in PropertiesOver(C)
         /\ \A children \in Seq(C), type \in {"Object", "Array"} :
              Parent(key, type, children) \in PropertiesOver(C)
BY DEF PropertiesOver, Scalar, Parent

(* A JSON value is a scalar, an object or an array.                        *)
LEMMA ValueCases ==
  ASSUME NEW C, NEW value \in ValuesOver(C)
  PROVE  \/ /\ value.json \in ScalarTypes /\ value.value \in Texts
            /\ value.json # "Object" /\ value.json # "Array"
            /\ value = JsonScalar(value.json, value.value)
         \/ /\ value.json = "Object" /\ value.fields \in [Names -> C \cup {None}]
            /\ value = JsonObject(value.fields)
         \/ /\ value.json = "Array" /\ value.items \in Seq(C)
            /\ value = JsonArray(value.items)
<1>1. CASE value \in [json: ScalarTypes, value: Texts]
  BY <1>1 DEF JsonScalar, ScalarTypes
<1>2. CASE value \in [json: {"Object"}, fields: [Names -> C \cup {None}]]
  BY <1>2 DEF JsonObject
<1>3. CASE value \in [json: {"Array"}, items: Seq(C)]
  BY <1>3 DEF JsonArray
<1> QED
  BY <1>1, <1>2, <1>3 DEF ValuesOver

(* And conversely.                                                         *)
LEMMA ValueIntro ==
  ASSUME NEW C
  PROVE  /\ \A type \in ScalarTypes, value \in Texts :
              JsonScalar(type, value) \in ValuesOver(C)
         /\ \A content \in [Names -> C \cup {None}] :
              JsonObject(content) \in ValuesOver(C)
         /\ \A content \in Seq(C) : JsonArray(content) \in ValuesOver(C)
BY DEF ValuesOver, JsonScalar, JsonObject, JsonArray

(* A value is never taken for a missing field.                             *)
LEMMA ValueNotNone ==
  ASSUME NEW height \in Nat, NEW value \in ValuesOf(height)
  PROVE  value # None
<1>1. height # 0
  BY NoLayer
<1>2. height - 1 \in Nat /\ height = (height - 1) + 1
  BY <1>1
<1>3. value \in ValuesOver(ValuesOf(height - 1))
  BY <1>2, FromJsonLayer
<1>4. value.json \in {"String", "Number", "Boolean", "Null", "Object", "Array"}
  BY <1>3, ValueCases DEF ScalarTypes
<1>5. None.json = "None"
  BY DEF None
<1> QED
  BY <1>4, <1>5

-----------------------------------------------------------------------------
(* The conversions at every height.                                        *)

(* What has a height has the next one, and converts alike there.           *)
LEMMA OneHigher ==
  ASSUME NEW height \in Nat, NEW property \in PropertiesOf(height)
  PROVE  /\ property \in PropertiesOf(height + 1)
         /\ ToJson[height + 1][property] = ToJson[height][property]
<1> DEFINE Same(n) == \A p \in PropertiesOf(n) :
                        /\ p \in PropertiesOf(n + 1)
                        /\ ToJson[n + 1][p] = ToJson[n][p]
           T == {n \in Nat : Same(n)}
<1>1. 0 \in T
  BY NoLayer
<1>2. ASSUME NEW n \in Nat, Same(n), NEW p \in PropertiesOf(n + 1)
      PROVE  /\ p \in PropertiesOf(n + 2)
             /\ ToJson[n + 2][p] = ToJson[n + 1][p]
  <2>1. /\ PropertiesOf(n + 1) = PropertiesOver(PropertiesOf(n))
        /\ PropertiesOf(n + 2) = PropertiesOver(PropertiesOf(n + 1))
    <3>1. n + 1 \in Nat /\ (n + 1) + 1 = n + 2
      OBVIOUS
    <3> QED
      BY <3>1, ToJsonLayer
  <2>2. PropertiesOf(n) \subseteq PropertiesOf(n + 1)
    BY <1>2
  <2>3. Seq(PropertiesOf(n)) \subseteq Seq(PropertiesOf(n + 1))
    BY <2>2
  <2>4. p \in PropertiesOf(n + 2)
    BY <2>1, <2>3 DEF PropertiesOver
  <2>5. p.children \in Seq(PropertiesOf(n)) =>
          /\ FieldsOf(p.children, ToJson[n + 1]) = FieldsOf(p.children, ToJson[n])
          /\ ItemsOf(p.children, ToJson[n + 1]) = ItemsOf(p.children, ToJson[n])
    <3>1. \A q \in PropertiesOf(n) : ToJson[n + 1][q] = ToJson[n][q]
      BY <1>2
    <3> QED
      BY <3>1, FieldsSame
  <2>6. /\ ToJson[n + 1][p]
             = CASE p.type = "Object" ->
                      JsonObject(FieldsOf(p.children, ToJson[n]))
                 [] p.type = "Array" ->
                      JsonArray(ItemsOf(p.children, ToJson[n]))
                 [] OTHER -> JsonScalar(p.type, p.value)
    BY ToJsonLayer
  <2>7. /\ ToJson[n + 2][p]
             = CASE p.type = "Object" ->
                      JsonObject(FieldsOf(p.children, ToJson[n + 1]))
                 [] p.type = "Array" ->
                      JsonArray(ItemsOf(p.children, ToJson[n + 1]))
                 [] OTHER -> JsonScalar(p.type, p.value)
    <3>1. n + 1 \in Nat /\ (n + 1) + 1 = n + 2
      OBVIOUS
    <3> QED
      BY <2>4, <3>1, ToJsonLayer
  <2>8. \/ p.type # "Object" /\ p.type # "Array"
        \/ p.type \in {"Object", "Array"} /\ p.children \in Seq(PropertiesOf(n))
    BY <2>1, PropertyCases
  <2> QED
    BY <2>4, <2>5, <2>6, <2>7, <2>8
<1>3. \A n \in T : n + 1 \in T
  <2> TAKE n \in T
  <2>1. n + 1 \in Nat /\ (n + 1) + 1 = n + 2
    OBVIOUS
  <2> QED
    BY <1>2, <2>1
<1>4. T \in SUBSET Nat
  OBVIOUS
<1>5. height \in T
  <2> HIDE DEF T
  <2> QED
    BY <1>1, <1>3, <1>4, Induction
<1> QED
  BY <1>5

(* And any higher one.                                                     *)
LEMMA Higher ==
  ASSUME NEW low \in Nat, NEW high \in Nat, low <= high
  PROVE  /\ PropertiesOf(low) \subseteq PropertiesOf(high)
         /\ \A property \in PropertiesOf(low) :
              ToJson[high][property] = ToJson[low][property]
<1> DEFINE T == {n \in Nat : \A p \in PropertiesOf(low) :
                              /\ p \in PropertiesOf(low + n)
                              /\ ToJson[low + n][p] = ToJson[low][p]}
<1>1. 0 \in T
  OBVIOUS
<1>2. \A n \in T : n + 1 \in T
  <2> TAKE n \in T
  <2>1. low + n \in Nat /\ (low + n) + 1 = low + (n + 1)
    OBVIOUS
  <2> QED
    BY <2>1, OneHigher
<1>3. T \in SUBSET Nat
  OBVIOUS
<1>4. high - low \in T
  <2>1. high - low \in Nat
    OBVIOUS
  <2> HIDE DEF T
  <2> QED
    BY <1>1, <1>2, <1>3, <2>1, Induction
<1>5. low + (high - low) = high
  OBVIOUS
<1> QED
  BY <1>4, <1>5

(* A property converts to a value of its height.                           *)
LEMMA ToJsonTyped ==
  ASSUME NEW height \in Nat, NEW property \in PropertiesOf(height)
  PROVE  ToJson[height][property] \in ValuesOf(height)
<1> DEFINE Typed(n) == \A p \in PropertiesOf(n) : ToJson[n][p] \in ValuesOf(n)
           T == {n \in Nat : Typed(n)}
<1>1. 0 \in T
  BY NoLayer
<1>2. ASSUME NEW n \in Nat, Typed(n), NEW p \in PropertiesOf(n + 1)
      PROVE  ToJson[n + 1][p] \in ValuesOf(n + 1)
  <2>1. /\ PropertiesOf(n + 1) = PropertiesOver(PropertiesOf(n))
        /\ ValuesOf(n + 1) = ValuesOver(ValuesOf(n))
    BY ToJsonLayer, FromJsonLayer
  <2>2. /\ ToJson[n + 1][p]
             = CASE p.type = "Object" ->
                      JsonObject(FieldsOf(p.children, ToJson[n]))
                 [] p.type = "Array" ->
                      JsonArray(ItemsOf(p.children, ToJson[n]))
                 [] OTHER -> JsonScalar(p.type, p.value)
    BY ToJsonLayer
  <2>3. p.children \in Seq(PropertiesOf(n)) =>
          /\ FieldsOf(p.children, ToJson[n]) \in [Names -> ValuesOf(n) \cup {None}]
          /\ ItemsOf(p.children, ToJson[n]) \in Seq(ValuesOf(n))
    BY <1>2, FieldsTyped
  <2>4. CASE p.type \notin {"Object", "Array"}
    <3>1. p.type \in ScalarTypes /\ p.value \in Texts
      BY <2>1, <2>4, PropertyCases
    <3> QED
      BY <2>1, <2>2, <2>4, <3>1, ValueIntro
  <2>5. CASE p.type \in {"Object", "Array"}
    <3>1. p.children \in Seq(PropertiesOf(n))
      BY <2>1, <2>5, PropertyCases
    <3> QED
      BY <2>1, <2>2, <2>3, <2>5, <3>1, ValueIntro
  <2> QED
    BY <2>4, <2>5
<1>3. \A n \in T : n + 1 \in T
  BY <1>2
<1>4. T \in SUBSET Nat
  OBVIOUS
<1>5. height \in T
  <2> HIDE DEF T
  <2> QED
    BY <1>1, <1>3, <1>4, Induction
<1> QED
  BY <1>5

(* ThereAndBack: FromJsonValue gives, for a JSON value of any depth, a     *)
(* property under the key asked for that ToJsonValue converts to the same  *)
(* value again: no field, item or null is lost, doubled or moved.          *)
THEOREM ThereAndBack ==
  ASSUME NEW height \in Nat, NEW value \in ValuesOf(height), NEW key \in Keys
  PROVE  /\ FromJson[height][value][key] \in PropertiesOf(height)
         /\ FromJson[height][value][key].key = key
         /\ ToJson[height][FromJson[height][value][key]] = value
<1> DEFINE Back(n, v, k) ==
             /\ FromJson[n][v][k] \in PropertiesOf(n)
             /\ FromJson[n][v][k].key = k
             /\ ToJson[n][FromJson[n][v][k]] = v
           T == {n \in Nat : \A v \in ValuesOf(n), k \in Keys : Back(n, v, k)}
<1>1. 0 \in T
  BY NoLayer
<1>2. ASSUME NEW n \in Nat, \A w \in ValuesOf(n), l \in Keys : Back(n, w, l),
             NEW v \in ValuesOf(n + 1), NEW k \in Keys
      PROVE  Back(n + 1, v, k)
  <2> DEFINE p == FromJson[n + 1][v][k]
             named == Named(v.fields, FromJson[n])
             listed == [i \in DOMAIN v.items |-> FromJson[n][v.items[i]][""]]
  <2>1. /\ PropertiesOf(n + 1) = PropertiesOver(PropertiesOf(n))
        /\ ValuesOf(n + 1) = ValuesOver(ValuesOf(n))
    BY ToJsonLayer, FromJsonLayer
  <2>2. p = CASE v.json = "Object" -> Parent(k, "Object", named)
              [] v.json = "Array" -> Parent(k, "Array", listed)
              [] OTHER -> Scalar(k, v.json, v.value)
    BY FromJsonLayer
  <2>3. p \in PropertiesOf(n + 1) =>
          ToJson[n + 1][p]
             = CASE p.type = "Object" ->
                      JsonObject(FieldsOf(p.children, ToJson[n]))
                 [] p.type = "Array" ->
                      JsonArray(ItemsOf(p.children, ToJson[n]))
                 [] OTHER -> JsonScalar(p.type, p.value)
    BY ToJsonLayer
  <2> HIDE DEF p
  <2>4. CASE v.json = "Object"
    <3>1. v.fields \in [Names -> ValuesOf(n) \cup {None}] /\ v = JsonObject(v.fields)
      BY <2>1, <2>4, ValueCases DEF ScalarTypes
    <3>2. named \in Seq(PropertiesOf(n)) /\ FieldsOf(named, ToJson[n]) = v.fields
      <4>1. GoesBack(ValuesOf(n), PropertiesOf(n), FromJson[n], ToJson[n])
        BY <1>2 DEF GoesBack
      <4> QED
        BY <3>1, <4>1, NamedBack
    <3> HIDE DEF named
    <3>3. p = Parent(k, "Object", named)
      BY <2>2, <2>4
    <3>4. p \in PropertiesOf(n + 1)
      BY <2>1, <3>2, <3>3, PropertyIntro
    <3>5. p.key = k /\ p.type = "Object" /\ p.children = named
      BY <3>3 DEF Parent
    <3>6. ToJson[n + 1][p] = v
      BY <2>3, <3>1, <3>2, <3>4, <3>5
    <3> QED
      BY <3>4, <3>5, <3>6 DEF p
  <2>5. CASE v.json = "Array"
    <3>1. v.items \in Seq(ValuesOf(n)) /\ v = JsonArray(v.items)
      BY <2>1, <2>5, ValueCases DEF ScalarTypes
    <3>2. /\ Len(v.items) \in Nat /\ DOMAIN v.items = 1..Len(v.items)
          /\ \A i \in DOMAIN v.items : v.items[i] \in ValuesOf(n)
      BY <3>1
    <3>3. "" \in Keys
      BY PropertyAssumption
    <3>4. \A i \in DOMAIN v.items :
            /\ listed[i] \in PropertiesOf(n)
            /\ ToJson[n][listed[i]] = v.items[i]
      BY <1>2, <3>2, <3>3
    <3>5. listed \in Seq(PropertiesOf(n)) /\ DOMAIN listed = DOMAIN v.items
      <4>1. listed \in [1..Len(v.items) -> PropertiesOf(n)]
        BY <3>2, <3>4
      <4> HIDE DEF listed
      <4> QED
        BY <3>2, <4>1
    <3>6. ItemsOf(listed, ToJson[n]) = v.items
      <4> HIDE DEF listed
      <4>1. v.items = [i \in DOMAIN v.items |-> v.items[i]]
        BY <3>1
      <4> QED
        BY <3>4, <3>5, <4>1 DEF ItemsOf
    <3>7. p = Parent(k, "Array", listed)
      BY <2>2, <2>5
    <3> HIDE DEF listed
    <3>8. p \in PropertiesOf(n + 1)
      BY <2>1, <3>5, <3>7, PropertyIntro
    <3>9. p.key = k /\ p.type = "Array" /\ p.children = listed
      BY <3>7 DEF Parent
    <3>10. ToJson[n + 1][p] = v
      BY <2>3, <3>1, <3>6, <3>8, <3>9
    <3> QED
      BY <3>8, <3>9, <3>10 DEF p
  <2>6. CASE v.json \notin {"Object", "Array"}
    <3>1. /\ v.json \in ScalarTypes /\ v.value \in Texts
          /\ v = JsonScalar(v.json, v.value)
      BY <2>1, <2>6, ValueCases
    <3>2. p = Scalar(k, v.json, v.value)
      BY <2>2, <2>6
    <3>3. p \in PropertiesOf(n + 1)
      BY <2>1, <3>1, <3>2, PropertyIntro
    <3>4. p.key = k /\ p.type = v.json /\ p.value = v.value
      BY <3>2 DEF Scalar
    <3>5. ToJson[n + 1][p] = v
      BY <2>3, <2>6, <3>1, <3>3, <3>4
    <3> QED
      BY <3>3, <3>4, <3>5 DEF p
  <2> QED
    BY <2>4, <2>5, <2>6
<1>3. \A n \in T : n + 1 \in T
  BY <1>2
<1>4. T \in SUBSET Nat
  OBVIOUS
<1>5. height \in T
  <2> HIDE DEF T
  <2> QED
    BY <1>1, <1>3, <1>4, Induction
<1> QED
  BY <1>5

-----------------------------------------------------------------------------
(* The invariant: the histories hold what the builders and the super       *)
(* properties convert to, and no builder is higher than the calls so far.  *)

BuildersAgree ==
  /\ calls \in 0..MaxCalls
  /\ properties \in [Objects -> Seq(PropertiesOf(calls))]
  /\ elements \in Seq(PropertiesOf(calls))
  /\ fields = [object \in Objects |->
                 FieldsOf(properties[object], ToJson[MaxHeight])]
  /\ items = ItemsOf(elements, ToJson[MaxHeight])

SuperAgree ==
  /\ registered \in [Names -> PropertiesOf(MaxHeight) \cup {None}]
  /\ saved = SaveSuper(registered)
  /\ meant = saved

(* The heights of the model.                                               *)
LEMMA HeightFacts == MaxCalls \in Nat /\ MaxHeight \in Nat /\ MaxHeight = MaxCalls + 1
<1>1. MaxCalls \in Nat
  BY PropertyAssumption
<1> QED
  BY <1>1 DEF MaxHeight

(* A property is never taken for a missing entry.                          *)
LEMMA PropertyNotNone ==
  ASSUME NEW property \in PropertiesOf(MaxHeight)
  PROVE  property # None
<1>1. property \in PropertiesOver(PropertiesOf(MaxCalls))
  BY HeightFacts, ToJsonLayer
<1>2. "key" \in DOMAIN property
  BY <1>1 DEF PropertiesOver
<1>3. "key" \notin DOMAIN None
  BY DEF None
<1> QED
  BY <1>2, <1>3

(* What the game may pass to a builder or register, and the JSON that it   *)
(* stands for: a scalar, a copy of a builder, a copy of the array. Each is *)
(* at most one higher than the builders.                                   *)
LEMMA GivenJson ==
  ASSUME BuildersAgree, NEW key \in Keys
  PROVE  /\ \A scalar \in Scalars(key) :
              /\ scalar \in PropertiesOf(calls + 1)
              /\ scalar.key = key
              /\ ToJson[MaxHeight][scalar] = JsonScalar(scalar.type, scalar.value)
         /\ \A object \in Objects :
              /\ Parent(key, "Object", properties[object]) \in PropertiesOf(calls + 1)
              /\ ToJson[MaxHeight][Parent(key, "Object", properties[object])]
                   = JsonObject(fields[object])
         /\ /\ Parent(key, "Array", elements) \in PropertiesOf(calls + 1)
            /\ ToJson[MaxHeight][Parent(key, "Array", elements)]
                 = JsonArray(items)
<1>1. /\ calls \in Nat /\ calls + 1 \in Nat /\ calls <= MaxCalls
      /\ calls <= MaxHeight /\ calls + 1 <= MaxHeight
  BY HeightFacts DEF BuildersAgree
<1>2. /\ PropertiesOf(calls + 1) = PropertiesOver(PropertiesOf(calls))
      /\ PropertiesOf(calls + 1) \subseteq PropertiesOf(MaxHeight)
  BY <1>1, ToJsonLayer, Higher, HeightFacts
<1>3. ASSUME NEW property \in PropertiesOf(calls + 1)
      PROVE  ToJson[MaxHeight][property]
               = CASE property.type = "Object" ->
                        JsonObject(FieldsOf(property.children, ToJson[MaxCalls]))
                   [] property.type = "Array" ->
                        JsonArray(ItemsOf(property.children, ToJson[MaxCalls]))
                   [] OTHER -> JsonScalar(property.type, property.value)
  BY <1>2, HeightFacts, ToJsonLayer
<1>4. ASSUME NEW children \in Seq(PropertiesOf(calls))
      PROVE  /\ FieldsOf(children, ToJson[MaxCalls]) = FieldsOf(children, ToJson[MaxHeight])
             /\ ItemsOf(children, ToJson[MaxCalls]) = ItemsOf(children, ToJson[MaxHeight])
  <2>1. \A property \in PropertiesOf(calls) :
          ToJson[MaxCalls][property] = ToJson[MaxHeight][property]
    BY <1>1, Higher, HeightFacts
  <2> QED
    BY <2>1, FieldsSame
<1>5. ASSUME NEW scalar \in Scalars(key)
      PROVE  /\ scalar \in PropertiesOf(calls + 1)
             /\ scalar.key = key
             /\ ToJson[MaxHeight][scalar] = JsonScalar(scalar.type, scalar.value)
  <2>1. PICK type \in ScalarTypes, value \in Texts : scalar = Scalar(key, type, value)
    BY DEF Scalars, ScalarTypes, Texts
  <2>2. scalar \in PropertiesOf(calls + 1)
    BY <1>2, <2>1, PropertyIntro
  <2>3. scalar.key = key /\ scalar.type # "Object" /\ scalar.type # "Array"
    BY <2>1 DEF Scalar, ScalarTypes
  <2> QED
    BY <1>3, <2>2, <2>3
<1>6. ASSUME NEW object \in Objects
      PROVE  /\ Parent(key, "Object", properties[object]) \in PropertiesOf(calls + 1)
             /\ ToJson[MaxHeight][Parent(key, "Object", properties[object])]
                  = JsonObject(fields[object])
  <2> DEFINE list == properties[object]
             parent == Parent(key, "Object", list)
  <2>1. list \in Seq(PropertiesOf(calls))
    BY DEF BuildersAgree
  <2>2. fields[object] = FieldsOf(list, ToJson[MaxHeight])
    BY DEF BuildersAgree
  <2> HIDE DEF list
  <2>3. parent \in PropertiesOf(calls + 1)
    BY <1>2, <2>1, PropertyIntro
  <2>4. parent.type = "Object" /\ parent.children = list
    BY DEF Parent
  <2> HIDE DEF parent
  <2>5. ToJson[MaxHeight][parent] = JsonObject(fields[object])
    BY <1>3, <1>4, <2>1, <2>2, <2>3, <2>4
  <2> QED
    BY <2>3, <2>5 DEF parent, list
<1>7. /\ Parent(key, "Array", elements) \in PropertiesOf(calls + 1)
      /\ ToJson[MaxHeight][Parent(key, "Array", elements)] = JsonArray(items)
  <2> DEFINE parent == Parent(key, "Array", elements)
  <2>1. elements \in Seq(PropertiesOf(calls))
    BY DEF BuildersAgree
  <2>2. items = ItemsOf(elements, ToJson[MaxHeight])
    BY DEF BuildersAgree
  <2>3. parent \in PropertiesOf(calls + 1)
    BY <1>2, <2>1, PropertyIntro
  <2>4. parent.type = "Array" /\ parent.children = elements
    BY DEF Parent
  <2> HIDE DEF parent
  <2>5. ToJson[MaxHeight][parent] = JsonArray(items)
    BY <1>3, <1>4, <2>1, <2>2, <2>3, <2>4
  <2> QED
    BY <2>3, <2>5 DEF parent
<1> QED
  BY <1>5, <1>6, <1>7

(* A call that appends to an object builder keeps the agreement.           *)
LEMMA AppendToKeeps ==
  ASSUME BuildersAgree, NEW object \in Objects,
         NEW added \in Seq(PropertiesOf(calls + 1)),
         AppendTo(object, added, FieldsOf(added, ToJson[MaxHeight]))
  PROVE  BuildersAgree'
<1> DEFINE P == PropertiesOf(calls + 1)
<1>1. /\ calls \in Nat /\ calls + 1 \in 0..MaxCalls /\ calls + 1 \in Nat
      /\ calls <= calls + 1 /\ calls + 1 <= MaxHeight /\ calls' = calls + 1
  BY HeightFacts DEF BuildersAgree, AppendTo
<1>2. PropertiesOf(calls) \subseteq P
  BY <1>1, Higher
<1>3. \A property \in P : ToJson[MaxHeight][property] # None
  <2>1. P \subseteq PropertiesOf(MaxHeight)
    BY <1>1, Higher, HeightFacts
  <2> QED
    BY <2>1, ToJsonTyped, ValueNotNone, HeightFacts
<1> HIDE DEF P
<1>4. Seq(PropertiesOf(calls)) \subseteq Seq(P)
  BY <1>2
<1>5. \A other \in Objects : properties[other] \in Seq(P)
  BY <1>4 DEF BuildersAgree
<1>6. properties[object] \o added \in Seq(P)
  BY <1>5 DEF P
<1>7. properties' = [properties EXCEPT ![object] = properties[object] \o added]
  BY DEF AppendTo, BuildersAgree
<1>8. properties' \in [Objects -> Seq(P)]
  BY <1>5, <1>6, <1>7 DEF BuildersAgree
<1>9. elements' \in Seq(P)
  BY <1>4 DEF BuildersAgree, AppendTo
<1>10. FieldsOf(properties[object] \o added, ToJson[MaxHeight])
         = Over(fields[object], FieldsOf(added, ToJson[MaxHeight]))
  <2>1. FieldsOf(properties[object] \o added, ToJson[MaxHeight])
          = Over(FieldsOf(properties[object], ToJson[MaxHeight]),
                 FieldsOf(added, ToJson[MaxHeight]))
    BY <1>3, <1>5, FieldsOfConcat DEF P
  <2> QED
    BY <2>1 DEF BuildersAgree
<1>11. fields' = [fields EXCEPT ![object] =
                    Over(fields[object], FieldsOf(added, ToJson[MaxHeight]))]
  BY DEF AppendTo
<1>12. fields' = [other \in Objects |-> FieldsOf(properties'[other], ToJson[MaxHeight])]
  <2>1. DOMAIN properties = Objects
    BY DEF BuildersAgree
  <2>2. fields = [other \in Objects |-> FieldsOf(properties[other], ToJson[MaxHeight])]
    BY DEF BuildersAgree
  <2>3. \A other \in Objects : other # object => properties'[other] = properties[other]
    BY <1>7, <2>1
  <2>4. properties'[object] = properties[object] \o added
    BY <1>7, <2>1
  <2>5. \A other \in Objects : other # object =>
          fields'[other] = FieldsOf(properties'[other], ToJson[MaxHeight])
    BY <1>11, <2>2, <2>3
  <2>6. fields'[object] = FieldsOf(properties'[object], ToJson[MaxHeight])
    BY <1>10, <1>11, <2>2, <2>4
  <2>7. fields' = [other \in Objects |-> fields'[other]]
    BY <1>11, <2>2
  <2> QED
    BY <2>5, <2>6, <2>7
<1>13. items' = ItemsOf(elements', ToJson[MaxHeight])
  BY DEF BuildersAgree, AppendTo
<1> QED
  BY <1>1, <1>8, <1>9, <1>12, <1>13 DEF BuildersAgree, P

(* A call that appends to the array keeps the agreement.                   *)
LEMMA AppendElementKeeps ==
  ASSUME BuildersAgree, NEW element \in PropertiesOf(calls + 1),
         AppendElement(element, ToJson[MaxHeight][element])
  PROVE  BuildersAgree'
<1> DEFINE P == PropertiesOf(calls + 1)
<1>1. /\ calls \in Nat /\ calls + 1 \in 0..MaxCalls /\ calls + 1 \in Nat
      /\ calls <= calls + 1 /\ calls' = calls + 1
  BY HeightFacts DEF BuildersAgree, AppendElement
<1>2. PropertiesOf(calls) \subseteq P
  BY <1>1, Higher
<1> HIDE DEF P
<1>3. Seq(PropertiesOf(calls)) \subseteq Seq(P)
  BY <1>2
<1>4. properties' \in [Objects -> Seq(P)]
  BY <1>3 DEF BuildersAgree, AppendElement
<1>5. elements \in Seq(P) /\ elements' = Append(elements, element)
  BY <1>3 DEF BuildersAgree, AppendElement
<1>6. elements' \in Seq(P)
  BY <1>5 DEF P
<1>7. items' = ItemsOf(elements', ToJson[MaxHeight])
  <2>1. items' = Append(items, ToJson[MaxHeight][element])
    BY DEF AppendElement
  <2>2. items = ItemsOf(elements, ToJson[MaxHeight])
    BY DEF BuildersAgree
  <2> QED
    BY <1>5, <2>1, <2>2, ItemsOfAppend DEF P
<1>8. fields' = [object \in Objects |-> FieldsOf(properties'[object], ToJson[MaxHeight])]
  BY DEF BuildersAgree, AppendElement
<1> QED
  BY <1>1, <1>4, <1>6, <1>7, <1>8 DEF BuildersAgree, P

(* Copy.Key = Key changes nothing in the value.                            *)
LEMMA Rekeyed ==
  ASSUME NEW property \in PropertiesOf(MaxHeight), NEW key \in Keys
  PROVE  /\ [property EXCEPT !.key = key] \in PropertiesOf(MaxHeight)
         /\ ToJsonValue([property EXCEPT !.key = key]) = ToJsonValue(property)
<1> DEFINE copy == [property EXCEPT !.key = key]
<1>1. PropertiesOf(MaxHeight) = PropertiesOver(PropertiesOf(MaxCalls))
  BY HeightFacts, ToJsonLayer
<1>2. copy \in PropertiesOf(MaxHeight)
  BY <1>1 DEF PropertiesOver
<1>3. copy.type = property.type /\ copy.value = property.value
      /\ copy.children = property.children
  BY <1>1 DEF PropertiesOver
<1> HIDE DEF copy
<1>4. ToJson[MaxHeight][copy] = ToJson[MaxHeight][property]
  BY <1>2, <1>3, HeightFacts, ToJsonLayer
<1> QED
  BY <1>2, <1>4 DEF copy, ToJsonValue

(* Registering puts the same value on both sides.                          *)
LEMMA RegisterKeeps ==
  ASSUME SuperAgree, NEW key \in Keys, NEW property \in PropertiesOf(MaxHeight),
         Register(key, property, ToJsonValue(property))
  PROVE  SuperAgree'
<1> DEFINE copy == [property EXCEPT !.key = key]
           value == ToJsonValue(property)
<1>1. /\ copy \in PropertiesOf(MaxHeight) /\ copy # None
      /\ ToJsonValue(copy) = value
  BY Rekeyed, PropertyNotNone
<1>2. value # None
  BY ToJsonTyped, ValueNotNone, HeightFacts DEF ToJsonValue
<1>3. /\ registered' = Over(registered, Field(key, copy))
      /\ saved' = SaveSuper(registered')
      /\ meant' = Over(meant, Field(key, value))
  BY DEF Register
<1> HIDE DEF copy, value
<1>4. ASSUME NEW name \in Names
      PROVE  /\ registered'[name] = IF name = key THEN copy ELSE registered[name]
             /\ meant'[name] = IF name = key THEN value ELSE meant[name]
  BY <1>1, <1>2, <1>3 DEF Over, Field
<1>5. registered' \in [Names -> PropertiesOf(MaxHeight) \cup {None}]
  <2>1. registered' = [name \in Names |-> registered'[name]]
    BY <1>3 DEF Over
  <2>2. \A name \in Names : registered'[name] \in PropertiesOf(MaxHeight) \cup {None}
    BY <1>1, <1>4 DEF SuperAgree
  <2> QED
    BY <2>1, <2>2
<1>6. \A name \in Names : meant'[name] = SaveSuper(registered')[name]
  BY <1>1, <1>4 DEF SaveSuper, SuperAgree
<1>7. meant' = SaveSuper(registered')
  <2>1. meant' = [name \in Names |-> meant'[name]]
    BY <1>3 DEF Over
  <2> QED
    BY <1>6, <2>1 DEF SaveSuper
<1> QED
  BY <1>3, <1>5, <1>7 DEF SuperAgree

(* Unregistering takes the key off both sides.                             *)
LEMMA UnregisterKeeps ==
  ASSUME SuperAgree, UnregisterSuperProperty
  PROVE  SuperAgree'
<1>1. PICK key \in NamesIn(registered) :
        /\ registered' = [registered EXCEPT ![key] = None]
        /\ saved' = SaveSuper(registered')
        /\ meant' = [meant EXCEPT ![key] = None]
  BY DEF UnregisterSuperProperty
<1>2. registered' \in [Names -> PropertiesOf(MaxHeight) \cup {None}]
  BY <1>1 DEF SuperAgree
<1>3. meant = SaveSuper(registered)
  BY DEF SuperAgree
<1>4. \A name \in Names : meant'[name] = SaveSuper(registered')[name]
  <2>1. DOMAIN registered = Names /\ DOMAIN meant = Names
    BY <1>3 DEF SuperAgree, SaveSuper
  <2> QED
    BY <1>1, <1>3, <2>1 DEF SaveSuper
<1>5. meant' = SaveSuper(registered')
  <2>1. meant' = [name \in Names |-> meant'[name]]
    BY <1>1, <1>3 DEF SaveSuper
  <2> QED
    BY <1>4, <2>1 DEF SaveSuper
<1> QED
  BY <1>1, <1>2, <1>5 DEF SuperAgree

(* No super property, no field.                                            *)
LEMMA EmptySuper == SaveSuper(NoFields) = NoFields
BY DEF SaveSuper, NoFields

(* A restart converts each value of the file back and forth.               *)
LEMMA RestartKeeps ==
  ASSUME SuperAgree, Restart
  PROVE  SuperAgree'
<1>1. registered' = LoadSuper(saved) /\ saved' = saved /\ meant' = meant
  BY DEF Restart
<1>2. saved = SaveSuper(registered)
  BY DEF SuperAgree
<1>3. ASSUME NEW name \in Names
      PROVE  \/ saved[name] = None
             \/ saved[name] \in ValuesOf(MaxHeight)
  BY <1>2, ToJsonTyped, HeightFacts DEF SaveSuper, SuperAgree, ToJsonValue
<1>4. ASSUME NEW name \in Names, saved[name] # None
      PROVE  /\ registered'[name] \in PropertiesOf(MaxHeight)
             /\ registered'[name] # None
             /\ ToJsonValue(registered'[name]) = saved[name]
  <2>1. saved[name] \in ValuesOf(MaxHeight) /\ name \in Keys
    BY <1>3, <1>4 DEF Names
  <2>2. registered'[name] = FromJson[MaxHeight][saved[name]][name]
    BY <1>1, <1>4 DEF LoadSuper, FromJsonValue
  <2>3. /\ registered'[name] \in PropertiesOf(MaxHeight)
        /\ ToJson[MaxHeight][registered'[name]] = saved[name]
    BY <2>1, <2>2, ThereAndBack, HeightFacts
  <2> QED
    BY <2>3, PropertyNotNone DEF ToJsonValue
<1>5. ASSUME NEW name \in Names, saved[name] = None
      PROVE  registered'[name] = None
  BY <1>1, <1>5 DEF LoadSuper
<1>6. registered' = [name \in Names |-> registered'[name]]
  BY <1>1 DEF LoadSuper
<1>7. registered' \in [Names -> PropertiesOf(MaxHeight) \cup {None}]
  BY <1>4, <1>5, <1>6
<1>8. \A name \in Names : SaveSuper(registered')[name] = saved[name]
  BY <1>4, <1>5 DEF SaveSuper
<1>9. SaveSuper(registered') = saved
  <2>1. saved = [name \in Names |-> saved[name]]
    BY <1>2 DEF SaveSuper
  <2> QED
    BY <1>8, <2>1 DEF SaveSuper
<1> QED
  BY <1>1, <1>7, <1>9 DEF SuperAgree

(* Both agreements hold at first.                                          *)
LEMMA PropertyInit ==
  ASSUME Init
  PROVE  BuildersAgree /\ SuperAgree
<1>1. /\ properties = [object \in Objects |-> <<>>] /\ elements = <<>>
      /\ fields = [object \in Objects |-> NoFields] /\ items = <<>>
      /\ registered = NoFields /\ saved = NoFields /\ meant = NoFields
      /\ calls = 0
  BY DEF Init
<1>2. <<>> \in Seq(PropertiesOf(calls)) /\ calls \in 0..MaxCalls
  BY <1>1, HeightFacts
<1>3. BuildersAgree
  BY <1>1, <1>2, FieldsOfNone DEF BuildersAgree
<1>4. SuperAgree
  BY <1>1, EmptySuper DEF SuperAgree, NoFields
<1> QED
  BY <1>3, <1>4

(* The builders keep theirs in every step.                                 *)
LEMMA BuildersStep ==
  ASSUME BuildersAgree, [Next]_vars
  PROVE  BuildersAgree'
<1> DEFINE P == PropertiesOf(calls + 1)
<1>0. calls \in Nat /\ calls + 1 \in Nat /\ calls <= calls + 1
  BY HeightFacts DEF BuildersAgree
<1>1. ASSUME NEW key \in Keys, NEW property \in P, property.key = key,
             NEW object \in Objects,
             AppendTo(object, <<property>>, Field(key, ToJson[MaxHeight][property]))
      PROVE  BuildersAgree'
  <2>1. <<property>> \in Seq(P)
    OBVIOUS
  <2>2. FieldsOf(<<property>>, ToJson[MaxHeight]) = Field(key, ToJson[MaxHeight][property])
    BY <1>1, FieldsOfOne
  <2> QED
    BY <1>1, <2>1, <2>2, AppendToKeeps
<1>2. CASE AddScalar
  <2>1. PICK object \in Objects, key \in Keys : \E scalar \in Scalars(key) :
          AppendTo(object, <<scalar>>, Field(key, JsonScalar(scalar.type, scalar.value)))
    BY <1>2 DEF AddScalar
  <2>2. PICK scalar \in Scalars(key) :
          AppendTo(object, <<scalar>>, Field(key, JsonScalar(scalar.type, scalar.value)))
    BY <2>1
  <2>3. /\ scalar \in P /\ scalar.key = key
        /\ ToJson[MaxHeight][scalar] = JsonScalar(scalar.type, scalar.value)
    BY GivenJson
  <2> QED
    BY <1>1, <2>2, <2>3
<1>3. CASE AddObject
  <2>1. PICK object, child \in Objects, key \in Keys :
          AppendTo(object, <<Parent(key, "Object", properties[child])>>,
                   Field(key, JsonObject(fields[child])))
    BY <1>3 DEF AddObject
  <2> DEFINE parent == Parent(key, "Object", properties[child])
  <2>2. parent \in P /\ ToJson[MaxHeight][parent] = JsonObject(fields[child])
    BY GivenJson
  <2>3. parent.key = key
    BY DEF Parent
  <2> HIDE DEF parent
  <2>4. AppendTo(object, <<parent>>, Field(key, ToJson[MaxHeight][parent]))
    BY <2>1, <2>2 DEF parent
  <2> QED
    BY <1>1, <2>2, <2>3, <2>4
<1>4. CASE AddArray
  <2>1. PICK object \in Objects, key \in Keys :
          AppendTo(object, <<Parent(key, "Array", elements)>>,
                   Field(key, JsonArray(items)))
    BY <1>4 DEF AddArray
  <2> DEFINE parent == Parent(key, "Array", elements)
  <2>2. parent \in P /\ ToJson[MaxHeight][parent] = JsonArray(items)
    BY GivenJson
  <2>3. parent.key = key
    BY DEF Parent
  <2> HIDE DEF parent
  <2>4. AppendTo(object, <<parent>>, Field(key, ToJson[MaxHeight][parent]))
    BY <2>1, <2>2 DEF parent
  <2> QED
    BY <1>1, <2>2, <2>3, <2>4
<1>5. CASE AppendFrom
  <2>1. PICK object, other \in Objects :
          AppendTo(object, properties[other], fields[other])
    BY <1>5 DEF AppendFrom
  <2>2. fields[other] = FieldsOf(properties[other], ToJson[MaxHeight])
    BY DEF BuildersAgree
  <2>3. properties[other] \in Seq(P)
    <3>1. PropertiesOf(calls) \subseteq P
      BY <1>0, Higher
    <3> HIDE DEF P
    <3>2. Seq(PropertiesOf(calls)) \subseteq Seq(P)
      BY <3>1
    <3> QED
      BY <3>2 DEF BuildersAgree
  <2> QED
    BY <2>1, <2>2, <2>3, AppendToKeeps
<1>6. CASE AddElement
  <2>0. "" \in Keys
    BY PropertyAssumption
  <2>1. CASE \E element \in Scalars("") :
               AppendElement(element, JsonScalar(element.type, element.value))
    <3>1. PICK element \in Scalars("") :
               AppendElement(element, JsonScalar(element.type, element.value))
      BY <2>1
    <3>2. element \in P /\ ToJson[MaxHeight][element] = JsonScalar(element.type, element.value)
      BY <2>0, GivenJson
    <3> QED
      BY <3>1, <3>2, AppendElementKeeps
  <2>2. CASE \E object \in Objects :
               AppendElement(Parent("", "Object", properties[object]),
                             JsonObject(fields[object]))
    <3>1. PICK object \in Objects :
               AppendElement(Parent("", "Object", properties[object]),
                             JsonObject(fields[object]))
      BY <2>2
    <3> DEFINE parent == Parent("", "Object", properties[object])
    <3>2. parent \in P /\ ToJson[MaxHeight][parent] = JsonObject(fields[object])
      BY <2>0, GivenJson
    <3> HIDE DEF parent
    <3>3. AppendElement(parent, ToJson[MaxHeight][parent])
      BY <3>1, <3>2 DEF parent
    <3> QED
      BY <3>2, <3>3, AppendElementKeeps
  <2>3. CASE AppendElement(Parent("", "Array", elements), JsonArray(items))
    <3> DEFINE parent == Parent("", "Array", elements)
    <3>1. parent \in P /\ ToJson[MaxHeight][parent] = JsonArray(items)
      BY <2>0, GivenJson
    <3> HIDE DEF parent
    <3>2. AppendElement(parent, ToJson[MaxHeight][parent])
      BY <2>3, <3>1 DEF parent
    <3> QED
      BY <3>1, <3>2, AppendElementKeeps
  <2> QED
    BY <1>6, <2>1, <2>2, <2>3 DEF AddElement
<1>7. CASE UNCHANGED builders
  BY <1>7 DEF BuildersAgree, builders
<1>8. CASE Restart
  <2>1. /\ properties' = [object \in Objects |-> <<>>] /\ elements' = <<>>
        /\ fields' = [object \in Objects |-> NoFields] /\ items' = <<>>
        /\ calls' = calls
    BY <1>8 DEF Restart
  <2>2. <<>> \in Seq(PropertiesOf(calls)) /\ calls \in 0..MaxCalls
    BY DEF BuildersAgree
  <2> QED
    BY <2>1, <2>2, FieldsOfNone DEF BuildersAgree
<1>9. (RegisterSuperProperty \/ UnregisterSuperProperty \/ ClearSuperProperties
         \/ UNCHANGED vars) => UNCHANGED builders
  BY DEF RegisterSuperProperty, Register, UnregisterSuperProperty,
         ClearSuperProperties, vars
<1> QED
  BY <1>2, <1>3, <1>4, <1>5, <1>6, <1>7, <1>8, <1>9 DEF Next

(* The super properties keep theirs in every step.                         *)
LEMMA SuperStep ==
  ASSUME BuildersAgree, SuperAgree, [Next]_vars
  PROVE  SuperAgree'
<1> DEFINE P == PropertiesOf(calls + 1)
<1>1. P \subseteq PropertiesOf(MaxHeight)
  <2>1. calls + 1 \in Nat /\ calls + 1 <= MaxHeight
    BY HeightFacts DEF BuildersAgree
  <2> QED
    BY <2>1, Higher, HeightFacts
<1>2. CASE RegisterSuperProperty
  <2>0. "" \in Keys
    BY PropertyAssumption
  <2>1. PICK key \in Keys :
          \/ \E scalar \in Scalars("") :
               Register(key, scalar, JsonScalar(scalar.type, scalar.value))
          \/ \E object \in Objects :
               Register(key, Parent("", "Object", properties[object]),
                        JsonObject(fields[object]))
          \/ Register(key, Parent("", "Array", elements), JsonArray(items))
    BY <1>2 DEF RegisterSuperProperty
  <2>2. ASSUME NEW scalar \in Scalars(""),
               Register(key, scalar, JsonScalar(scalar.type, scalar.value))
        PROVE  SuperAgree'
    <3>1. scalar \in P /\ ToJsonValue(scalar) = JsonScalar(scalar.type, scalar.value)
      BY <2>0, GivenJson DEF ToJsonValue
    <3> QED
      BY <1>1, <2>2, <3>1, RegisterKeeps
  <2>3. ASSUME NEW object \in Objects,
               Register(key, Parent("", "Object", properties[object]),
                        JsonObject(fields[object]))
        PROVE  SuperAgree'
    <3> DEFINE parent == Parent("", "Object", properties[object])
    <3>1. parent \in P /\ ToJsonValue(parent) = JsonObject(fields[object])
      BY <2>0, GivenJson DEF ToJsonValue
    <3> HIDE DEF parent
    <3>2. Register(key, parent, ToJsonValue(parent))
      BY <2>3, <3>1 DEF parent
    <3> QED
      BY <1>1, <3>1, <3>2, RegisterKeeps
  <2>4. ASSUME Register(key, Parent("", "Array", elements), JsonArray(items))
        PROVE  SuperAgree'
    <3> DEFINE parent == Parent("", "Array", elements)
    <3>1. parent \in P /\ ToJsonValue(parent) = JsonArray(items)
      BY <2>0, GivenJson DEF ToJsonValue
    <3> HIDE DEF parent
    <3>2. Register(key, parent, ToJsonValue(parent))
      BY <2>4, <3>1 DEF parent
    <3> QED
      BY <1>1, <3>1, <3>2, RegisterKeeps
  <2> QED
    BY <2>1, <2>2, <2>3, <2>4
<1>3. CASE UnregisterSuperProperty
  BY <1>3, UnregisterKeeps
<1>4. CASE ClearSuperProperties
  BY <1>4, EmptySuper DEF ClearSuperProperties, SuperAgree, NoFields
<1>5. CASE Restart
  BY <1>5, RestartKeeps
<1>6. CASE UNCHANGED super
  BY <1>6 DEF super, SuperAgree, SaveSuper
<1>7. (AddScalar \/ AddObject \/ AddArray \/ AppendFrom \/ AddElement
         \/ UNCHANGED vars) => UNCHANGED super
  BY DEF AddScalar, AddObject, AddArray, AppendFrom, AddElement, AppendTo,
         AppendElement, vars
<1> QED
  BY <1>2, <1>3, <1>4, <1>5, <1>6, <1>7 DEF Next

(* SuperPropertiesSurvive: an event gets for each super property the JSON  *)
(* value it stood for when it was registered (LoadOrCreate, PersistState   *)
(* and ApplyTo of FPostHogSuperPropertiesManager), for any builders, any   *)
(* nesting and any number of restarts and of saves of loaded values.       *)
THEOREM SuperPropertiesSurvive == Spec => []SentAsRegistered
<1>1. Init => BuildersAgree /\ SuperAgree
  BY PropertyInit
<1>2. BuildersAgree /\ SuperAgree /\ [Next]_vars => (BuildersAgree /\ SuperAgree)'
  BY BuildersStep, SuperStep
<1>3. SuperAgree => SentAsRegistered
  BY DEF SuperAgree, SentAsRegistered, ApplyTo
<1> QED
  BY <1>1, <1>2, <1>3, PTL DEF Spec

(* BuildersConvert: the JSON of a builder is the one its calls stand for,  *)
(* the later value of a key over the earlier (UPostHogEventProperties and  *)
(* PostHogPropertyJson::ToJsonValue), for any number of calls.             *)
THEOREM BuildersConvert == Spec => []ConvertedAsBuilt
<1>1. Init => BuildersAgree
  BY PropertyInit
<1>2. BuildersAgree /\ [Next]_vars => BuildersAgree'
  BY BuildersStep
<1>3. BuildersAgree => ConvertedAsBuilt
  <2>1. "" \in Keys
    BY PropertyAssumption
  <2> QED
    BY <2>1, GivenJson DEF ConvertedAsBuilt, ToJsonValue
<1> QED
  BY <1>1, <1>2, <1>3, PTL DEF Spec

=============================================================================
