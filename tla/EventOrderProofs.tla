-------------------------- MODULE EventOrderProofs --------------------------
(***************************************************************************)
(* The identifiers of a process grow and never repeat, for every number of *)
(* threads, every size of the counter and every movement of the clock; and *)
(* the queue, which orders its records by them, gives up the oldest first, *)
(* for every capacity and over any number of processes.                    *)
(***************************************************************************)
EXTENDS EventOrder, TLAPS

Top == Pack(generator.last, generator.counter)

(* A generator that has generated nothing has given nothing away, and what *)
(* it has chosen or returned lies below its own fields.                    *)
Fresh ==
  ~generator.hasGenerated =>
    /\ \A t \in Threads : chosen[t] = None
    /\ returned = <<>>

Packed(t) == Pack(chosen[t].timestamp, chosen[t].counter)

ChosenBelow == \A t \in Threads : chosen[t] # None => Packed(t) <= Top

ReturnedBelow == \A i \in DOMAIN returned : returned[i].id <= Top

ChosenApart ==
  \A t, u \in Threads :
    t # u /\ chosen[t] # None /\ chosen[u] # None => Packed(t) # Packed(u)

ChosenNew ==
  \A t \in Threads, i \in DOMAIN returned :
    chosen[t] # None =>
      /\ returned[i].id # Packed(t)
      /\ returned[i].thread = t => returned[i].id < Packed(t)

IdInv ==
  /\ TypeOK /\ Fresh
  /\ ChosenBelow /\ ReturnedBelow /\ ChosenApart /\ ChosenNew
  /\ NoTwoAlike /\ ThreadOrder

-----------------------------------------------------------------------------

(* The packed form keeps the order of time, and then of the counter (Pack).*)
LEMMA PackGrows ==
  ASSUME NEW a \in Nat, NEW b \in Nat, NEW i \in Nat, NEW j \in Nat,
         i < CounterSize, a < b \/ (a = b /\ i < j)
  PROVE  Pack(a, i) < Pack(b, j)
<1>1. CounterSize \in Nat \ {0}
  BY CounterAssumption
<1>. DEFINE K == 16 * CounterSize
<1>2. K \in Nat /\ CounterSize <= K
  BY <1>1
<1>3. a * K \in Nat /\ b * K \in Nat
  BY <1>2
<1>4. CASE a = b /\ i < j
  BY <1>1, <1>2, <1>3, <1>4 DEF Pack
<1>5. CASE a < b
  <2>1. PICK d \in Nat : b = a + 1 + d
    <3>1. b - a - 1 \in Nat /\ b = a + 1 + (b - a - 1)
      BY <1>5
    <3>. QED BY <3>1
  <2>2. b * K = a * K + K + d * K
    BY <2>1, <1>2
  <2>3. d * K \in Nat
    BY <1>2
  <2>. HIDE DEF K
  <2>4. b * K >= a * K + K
    BY ONLY <2>2, <2>3, <1>3, <1>2
  <2>5. a * K + 7 * CounterSize + i < b * K + 7 * CounterSize + j
    BY ONLY <2>4, <1>1, <1>2, <1>3, i < CounterSize, i \in Nat, j \in Nat
  <2>. QED BY <2>5 DEF Pack, K
<1>. QED BY <1>4, <1>5

(* An identifier is a natural number (Pack).                               *)
LEMMA PackType ==
  ASSUME NEW a \in Nat, NEW i \in Nat
  PROVE  Pack(a, i) \in Nat
<1>1. a * (16 * CounterSize) \in Nat /\ 7 * CounterSize \in Nat
  BY CounterAssumption
<1>. QED BY <1>1 DEF Pack

(* The locked section leaves a generator with greater fields (Generate).   *)
LEMMA AdvanceGrows ==
  ASSUME clock \in Nat, generator \in Generator,
         generator.counter < CounterSize
  PROVE  /\ Advance \in Generator
         /\ Advance.counter < CounterSize
         /\ Advance.hasGenerated
         /\ generator.hasGenerated =>
              Top < Pack(Advance.last, Advance.counter)
<1>. USE DEF Generator
<1>1. CounterSize \in Nat \ {0}
  BY CounterAssumption
<1>2. CASE ~generator.hasGenerated \/ clock > generator.last
  <2>1. Advance = [hasGenerated |-> TRUE, last |-> clock, counter |-> 0]
    BY <1>2 DEF Advance
  <2>2. generator.hasGenerated => Top < Pack(clock, 0)
    BY <1>2, PackGrows DEF Top
  <2>. QED BY <2>1, <2>2, <1>1
<1>3. CASE /\ ~(~generator.hasGenerated \/ clock > generator.last)
           /\ generator.counter + 1 < CounterSize
  <2>1. Advance = [hasGenerated |-> TRUE, last |-> generator.last,
                   counter |-> generator.counter + 1]
    BY <1>3 DEF Advance
  <2>2. Top < Pack(generator.last, generator.counter + 1)
    BY PackGrows DEF Top
  <2>. QED BY <2>1, <2>2, <1>3
<1>4. CASE /\ ~(~generator.hasGenerated \/ clock > generator.last)
           /\ ~(generator.counter + 1 < CounterSize)
  <2>1. Advance = [hasGenerated |-> TRUE, last |-> generator.last + 1,
                   counter |-> 0]
    BY <1>4 DEF Advance
  <2>2. Top < Pack(generator.last + 1, 0)
    BY PackGrows DEF Top
  <2>. QED BY <2>1, <2>2, <1>1
<1>. QED BY <1>2, <1>3, <1>4

(* What is chosen, and what was returned, are numbers (Generate).          *)
LEMMA PackedType ==
  ASSUME TypeOK, NEW t \in Threads, chosen[t] # None
  PROVE  Packed(t) \in Nat
<1>1. chosen[t] \in Chosen
  BY DEF TypeOK
<1>2. chosen[t].timestamp \in Nat /\ chosen[t].counter \in Nat
  BY <1>1 DEF Chosen
<1>. QED BY <1>2, PackType DEF Packed

(* So is what a call returned (Generate).                                  *)
LEMMA ReturnedType ==
  ASSUME TypeOK, NEW i \in DOMAIN returned
  PROVE  returned[i].id \in Nat
<1>. DEFINE S == [thread: Threads, id: Nat]
<1>1. returned \in Seq(S)
  BY DEF TypeOK
<1>2. \A r \in S : r.id \in Nat
  OBVIOUS
<1>. HIDE DEF S
<1>3. i \in 1 .. Len(returned)
  BY <1>1
<1>. QED BY <1>1, <1>2, <1>3

(* The inductive invariant holds at the start.                             *)
LEMMA InitInv == Init => IdInv
<1>. SUFFICES ASSUME Init PROVE IdInv
  OBVIOUS
<1>1. clock \in Nat
  BY TimestampAssumption DEF Init
<1>2. TypeOK
  BY <1>1, CounterAssumption DEF TypeOK, Init, NewGenerator, Generator
<1>. QED BY <1>2, NoneAssumption
     DEF IdInv, Init, NewGenerator, Fresh, ChosenBelow, ReturnedBelow,
         ChosenApart, ChosenNew, NoTwoAlike, ThreadOrder

(* The locked section keeps it.                                            *)
LEMMA ChooseInv ==
  ASSUME IdInv, NEW t \in Threads, Choose(t)
  PROVE  IdInv'
<1>. USE DEF IdInv
<1>1. /\ clock \in Nat /\ generator \in Generator
      /\ generator.counter < CounterSize
      /\ chosen \in [Threads -> Chosen \cup {None}]
      /\ returned \in Seq([thread: Threads, id: Nat])
  BY DEF TypeOK
<1>2. /\ generator' = Advance
      /\ generator' \in Generator /\ generator'.counter < CounterSize
      /\ generator'.hasGenerated
      /\ generator.hasGenerated => Top < Top'
  BY <1>1, AdvanceGrows DEF Choose, Top
<1>3. /\ generator'.last \in Nat /\ generator'.counter \in Nat
      /\ generator.last \in Nat /\ generator.counter \in Nat
  BY <1>1, <1>2 DEF Generator
<1>4. Top \in Nat /\ Top' \in Nat
  BY <1>3, PackType DEF Top
<1>5. chosen[t] = None /\ returned' = returned /\ clock' = clock
  BY DEF Choose
<1>. DEFINE new == [timestamp |-> generator'.last,
                    counter |-> generator'.counter]
<1>6. /\ \/ chosen'[t] = None
         \/ chosen'[t] = new
      /\ \A u \in Threads : u # t => chosen'[u] = chosen[u]
      /\ new \in Chosen
  BY <1>1, <1>3 DEF Choose, Chosen
<1>7. TypeOK'
  <2>1. chosen' \in [Threads -> Chosen \cup {None}]
    BY <1>1, <1>6 DEF Choose
  <2>. QED BY <2>1, <1>1, <1>2, <1>5 DEF TypeOK
<1>8. Packed(t)' = Top' \/ chosen'[t] = None
  BY <1>6 DEF Packed, Top
<1>9. \A u \in Threads : u # t => Packed(u)' = Packed(u)
  BY <1>6 DEF Packed
<1>10. \A u \in Threads : chosen[u] # None => Packed(u) \in Nat
  BY PackedType
<1>11. \A u \in Threads : chosen[u] # None => Packed(u) < Top'
  BY <1>2, <1>4, <1>10 DEF Fresh, ChosenBelow
<1>12. \A i \in DOMAIN returned : returned[i].id < Top'
  <2>. SUFFICES ASSUME NEW i \in DOMAIN returned PROVE returned[i].id < Top'
    OBVIOUS
  <2>1. returned[i].id \in Nat
    BY ReturnedType
  <2>2. returned # <<>>
    BY <1>1
  <2>. QED BY <2>1, <2>2, <1>2, <1>4 DEF Fresh, ReturnedBelow
<1>13. Fresh'
  BY <1>2 DEF Fresh
<1>14. ChosenBelow'
  BY <1>4, <1>6, <1>8, <1>9, <1>10, <1>11 DEF ChosenBelow
<1>15. ReturnedBelow'
  <2>1. \A i \in DOMAIN returned : returned[i].id \in Nat
    BY ReturnedType
  <2>. QED BY <2>1, <1>4, <1>5, <1>12 DEF ReturnedBelow
<1>16. ChosenApart'
  <2>. SUFFICES ASSUME NEW u \in Threads, NEW v \in Threads, u # v,
                       chosen'[u] # None, chosen'[v] # None
                PROVE  Packed(u)' # Packed(v)'
    BY DEF ChosenApart
  <2>1. CASE u # t /\ v # t
    BY <2>1, <1>6, <1>9 DEF ChosenApart
  <2>2. CASE u = t
    BY <2>2, <1>4, <1>6, <1>8, <1>9, <1>10, <1>11
  <2>3. CASE v = t
    BY <2>3, <1>4, <1>6, <1>8, <1>9, <1>10, <1>11
  <2>. QED BY <2>1, <2>2, <2>3
<1>17. ChosenNew'
  <2>. SUFFICES ASSUME NEW u \in Threads, NEW i \in DOMAIN returned,
                       chosen'[u] # None
                PROVE  /\ returned[i].id # Packed(u)'
                       /\ returned[i].thread = u => returned[i].id < Packed(u)'
    BY <1>5 DEF ChosenNew
  <2>1. CASE u # t
    BY <2>1, <1>6, <1>9 DEF ChosenNew
  <2>2. CASE u = t
    <3>1. returned[i].id \in Nat
      BY ReturnedType
    <3>. QED BY <3>1, <2>2, <1>4, <1>8, <1>12
  <2>. QED BY <2>1, <2>2
<1>18. NoTwoAlike' /\ ThreadOrder'
  BY <1>5 DEF NoTwoAlike, ThreadOrder
<1>. QED BY <1>7, <1>13, <1>14, <1>15, <1>16, <1>17, <1>18

(* The rest of the call keeps it.                                          *)
LEMMA ReturnInv ==
  ASSUME IdInv, NEW t \in Threads, Return(t)
  PROVE  IdInv'
<1>. USE DEF IdInv
<1>1. /\ clock \in Nat /\ generator \in Generator
      /\ generator.counter < CounterSize
      /\ chosen \in [Threads -> Chosen \cup {None}]
      /\ returned \in Seq([thread: Threads, id: Nat])
  BY DEF TypeOK
<1>. DEFINE entry == [thread |-> t, id |-> Packed(t)]
<1>2. /\ chosen[t] # None
      /\ returned' = Append(returned, entry)
      /\ clock' = clock /\ generator' = generator
      /\ chosen' = [chosen EXCEPT ![t] = None]
  BY DEF Return, Packed
<1>3. Packed(t) \in Nat
  BY <1>2, PackedType
<1>4. entry \in [thread: Threads, id: Nat] /\ entry.id = Packed(t)
      /\ entry.thread = t
  BY <1>3
<1>. HIDE DEF entry
<1>5. /\ Len(returned) \in Nat /\ DOMAIN returned = 1 .. Len(returned)
      /\ DOMAIN returned' = 1 .. Len(returned) + 1
      /\ returned'[Len(returned) + 1] = entry
      /\ \A i \in 1 .. Len(returned) : returned'[i] = returned[i]
      /\ returned' \in Seq([thread: Threads, id: Nat])
  BY <1>1, <1>2, <1>4
<1>6. \A u \in Threads : chosen'[u] # None => u # t /\ chosen'[u] = chosen[u]
                                          /\ Packed(u)' = Packed(u)
  BY <1>1, <1>2 DEF Packed
<1>7. Top' = Top
  BY <1>2 DEF Top
<1>8. TypeOK'
  <2>1. chosen' \in [Threads -> Chosen \cup {None}]
    BY <1>1, <1>2
  <2>. QED BY <2>1, <1>1, <1>2, <1>5 DEF TypeOK
<1>9. Fresh'
  BY <1>2 DEF Fresh
<1>10. ChosenBelow'
  BY <1>6, <1>7 DEF ChosenBelow
<1>11. ReturnedBelow'
  <2>. SUFFICES ASSUME NEW i \in 1 .. Len(returned) + 1
                PROVE  returned'[i].id <= Top'
    BY <1>5 DEF ReturnedBelow
  <2>1. CASE i \in 1 .. Len(returned)
    BY <2>1, <1>5, <1>7 DEF ReturnedBelow
  <2>2. CASE i = Len(returned) + 1
    BY <2>2, <1>2, <1>4, <1>5, <1>7 DEF ChosenBelow
  <2>. QED BY <2>1, <2>2, <1>5
<1>12. ChosenApart'
  BY <1>6 DEF ChosenApart
<1>13. ChosenNew'
  <2>. SUFFICES ASSUME NEW u \in Threads, NEW i \in 1 .. Len(returned) + 1,
                       chosen'[u] # None
                PROVE  /\ returned'[i].id # Packed(u)
                       /\ returned'[i].thread = u => returned'[i].id < Packed(u)
    BY <1>5, <1>6 DEF ChosenNew
  <2>1. CASE i \in 1 .. Len(returned)
    BY <2>1, <1>5, <1>6 DEF ChosenNew
  <2>2. CASE i = Len(returned) + 1
    BY <2>2, <1>2, <1>4, <1>5, <1>6 DEF ChosenApart
  <2>. QED BY <2>1, <2>2, <1>5
<1>14. NoTwoAlike'
  <2>. SUFFICES ASSUME NEW i \in 1 .. Len(returned) + 1,
                       NEW j \in 1 .. Len(returned) + 1, i # j
                PROVE  returned'[i].id # returned'[j].id
    BY <1>5 DEF NoTwoAlike
  <2>1. CASE i \in 1 .. Len(returned) /\ j \in 1 .. Len(returned)
    BY <2>1, <1>5 DEF NoTwoAlike
  <2>2. CASE i = Len(returned) + 1
    BY <2>2, <1>2, <1>4, <1>5 DEF ChosenNew
  <2>3. CASE j = Len(returned) + 1
    BY <2>3, <1>2, <1>4, <1>5 DEF ChosenNew
  <2>. QED BY <2>1, <2>2, <2>3, <1>5
<1>15. ThreadOrder'
  <2>. SUFFICES ASSUME NEW i \in 1 .. Len(returned) + 1,
                       NEW j \in 1 .. Len(returned) + 1, i < j,
                       returned'[i].thread = returned'[j].thread
                PROVE  returned'[i].id < returned'[j].id
    BY <1>5 DEF ThreadOrder
  <2>1. CASE j \in 1 .. Len(returned)
    <3>1. i \in DOMAIN returned /\ j \in DOMAIN returned
      BY <2>1, <1>5
    <3>2. returned'[i] = returned[i] /\ returned'[j] = returned[j]
      BY <3>1, <1>5
    <3>. QED BY <3>1, <3>2 DEF ThreadOrder
  <2>2. CASE j = Len(returned) + 1
    <3>1. i \in 1 .. Len(returned)
      BY <2>2, <1>5
    <3>2. returned'[i] = returned[i] /\ returned'[j] = entry
      BY <3>1, <2>2, <1>5
    <3>. QED BY <3>1, <3>2, <1>2, <1>4, <1>5 DEF ChosenNew
  <2>. QED BY <2>1, <2>2, <1>5
<1>. QED BY <1>8, <1>9, <1>10, <1>11, <1>12, <1>13, <1>14, <1>15

(* Every step keeps it.                                                    *)
LEMMA NextInv == IdInv /\ [Next]_idVars => IdInv'
<1>. SUFFICES ASSUME IdInv, [Next]_idVars PROVE IdInv'
  OBVIOUS
<1>1. ASSUME NEW t \in Threads, Choose(t) PROVE IdInv'
  BY <1>1, ChooseInv
<1>2. ASSUME NEW t \in Threads, Return(t) PROVE IdInv'
  BY <1>2, ReturnInv
<1>3. CASE ClockMoves
  <2>1. clock' \in Nat
    BY <1>3, TimestampAssumption DEF ClockMoves
  <2>. QED BY <1>3, <2>1
       DEF ClockMoves, IdInv, TypeOK, Fresh, ChosenBelow, ReturnedBelow,
           ChosenApart, ChosenNew, NoTwoAlike, ThreadOrder, Packed, Top
<1>4. CASE Restart
  <2>1. TypeOK'
    BY <1>4, CounterAssumption
       DEF Restart, IdInv, TypeOK, NewGenerator, Generator
  <2>. QED BY <1>4, <2>1
       DEF Restart, IdInv, Fresh, ChosenBelow, ReturnedBelow,
           ChosenApart, ChosenNew, NoTwoAlike, ThreadOrder
<1>5. CASE UNCHANGED idVars
  BY <1>5 DEF idVars, IdInv, TypeOK, Fresh, ChosenBelow, ReturnedBelow,
           ChosenApart, ChosenNew, NoTwoAlike, ThreadOrder, Packed, Top
<1>. QED BY <1>1, <1>2, <1>3, <1>4, <1>5 DEF Next

(* The inductive invariant holds in every reachable state.                 *)
THEOREM IdInvariant == Spec => []IdInv
BY InitInv, NextInv, PTL DEF Spec

(* Two calls never return the same 64 bits, whatever the threads, the      *)
(* clock and the random bits do.                                           *)
THEOREM Unique == Spec => []NoTwoAlike
<1>1. IdInv => NoTwoAlike
  BY DEF IdInv
<1>. QED BY <1>1, IdInvariant, PTL

(* Each thread sees its own identifiers grow.                              *)
THEOREM Ordered == Spec => []ThreadOrder
<1>1. IdInv => ThreadOrder
  BY DEF IdInv
<1>. QED BY <1>1, IdInvariant, PTL

(* Identifiers differ, and those of a thread are in order (Generate).      *)
THEOREM InOrder == Spec => []IdsInOrder
BY Unique, Ordered, PTL DEF IdsInOrder

(* The types hold, and the counter never reaches the version bits.         *)
THEOREM IdTypes == Spec => []TypeOK
<1>1. IdInv => TypeOK
  BY DEF IdInv
<1>. QED BY <1>1, IdInvariant, PTL

(* The generator implements the source of increasing identifiers.          *)
THEOREM Increasing == Spec => IdsIncrease
<1>. DEFINE last == IF generator.hasGenerated
                    THEN Pack(generator.last, generator.counter) ELSE -1
<1>1. Init => last = -1
  BY DEF Init, NewGenerator
<1>2. IdInv /\ [Next]_idVars =>
        \/ last' \in Nat /\ last' > last
        \/ last' = -1
        \/ last' = last
  <2>. SUFFICES ASSUME IdInv, [Next]_idVars
                PROVE  \/ last' \in Nat /\ last' > last
                       \/ last' = -1
                       \/ last' = last
    OBVIOUS
  <2>1. ASSUME NEW t \in Threads, Choose(t)
        PROVE  last' \in Nat /\ last' > last
    <3>1. /\ generator' = Advance
          /\ generator' \in Generator /\ generator'.hasGenerated
          /\ generator.hasGenerated =>
               Pack(generator.last, generator.counter)
                 < Pack(generator'.last, generator'.counter)
      BY <2>1, AdvanceGrows DEF Choose, IdInv, TypeOK, Top
    <3>2. last' = Pack(generator'.last, generator'.counter) /\ last' \in Nat
      BY <3>1, PackType DEF Generator
    <3>3. last = -1 \/ last = Pack(generator.last, generator.counter)
      OBVIOUS
    <3>. QED BY <3>1, <3>2
  <2>2. ASSUME NEW t \in Threads, Return(t) PROVE last' = last
    BY <2>2 DEF Return
  <2>3. CASE ClockMoves
    BY <2>3 DEF ClockMoves
  <2>4. CASE Restart
    BY <2>4 DEF Restart, NewGenerator
  <2>5. CASE UNCHANGED idVars
    BY <2>5 DEF idVars
  <2>. QED BY <2>1, <2>2, <2>3, <2>4, <2>5 DEF Next
<1>3. Init => Ids!Init
  BY <1>1 DEF Ids!Init
<1>4. IdInv /\ [Next]_idVars => [Ids!Next]_last
  BY <1>2 DEF Ids!Next, Ids!Issue, Ids!Restart
<1>. QED BY <1>3, <1>4, IdInvariant, PTL DEF Spec, IdsIncrease, Ids!Spec

-----------------------------------------------------------------------------
(* The queue's order, over the processes that fill it.                     *)

OrderTypeOK ==
  /\ stored \subseteq [id: Nat, born: Nat]
  /\ born \in [Threads -> Nat]
  /\ events \in Nat
  /\ newest \in Int /\ newest >= -1
  /\ ahead \in BOOLEAN

(* The events that are stored, and those that have their identifier and    *)
(* will be.                                                                *)
Coming == {t \in Threads : chosen[t] # None}

Item(t) == [id |-> Packed(t), born |-> born[t]]

Items == stored \cup {Item(t) : t \in Coming}

ByAge == \A x, y \in Items : x.born < y.born => x.id < y.id

(* A process that found the clock past the identifiers before it starts    *)
(* above them all.                                                         *)
AgeInv ==
  /\ \A x \in Items : x.born <= events
  /\ ahead =>
       /\ ByAge
       /\ generator.hasGenerated =>
            newest = generator.last /\ \A x \in Items : x.id <= Top
       /\ ~generator.hasGenerated =>
            \A x \in Items : x.id < Pack(newest + 1, 0)

(* Every event has a number of its own.                                    *)
BornApart ==
  /\ \A t \in Coming : \A x \in stored : x.born # born[t]
  /\ \A t, u \in Coming : t # u => born[t] # born[u]

OrderInv == IdInv /\ OrderTypeOK /\ AgeInv /\ BornApart

(* The generator under the queue behaves as it does alone.                 *)
LEMMA OrderStep == [OrderNext]_vars => [Next]_idVars
BY DEF OrderNext, vars, Next, idVars, CreateEvent, DropEvent, SaveEvent,
       TryBuildNextBatch, HandleBatchComplete, ClockSet, NextProcess

(* What the queue holds has its type.                                      *)
LEMMA ItemsTyped ==
  ASSUME OrderInv
  PROVE  \A x \in Items : x.id \in Nat /\ x.born \in Nat
<1>1. \A x \in stored : x.id \in Nat /\ x.born \in Nat
  BY DEF OrderInv, OrderTypeOK
<1>2. \A t \in Coming : Item(t).id \in Nat /\ Item(t).born \in Nat
  BY PackedType DEF OrderInv, IdInv, OrderTypeOK, Coming, Item
<1>. QED BY <1>1, <1>2 DEF Items

(* The records go by the order of their identifiers, which is that of      *)
(* their age.                                                              *)
LEMMA LowerIsOlder ==
  ASSUME OrderInv, ahead, NEW r \in stored, NEW s \in stored, r.id <= s.id
  PROVE  r.born <= s.born
<1>1. r \in Items /\ s \in Items
  BY DEF Items
<1>2. r.id \in Nat /\ s.id \in Nat /\ r.born \in Nat /\ s.born \in Nat
  BY <1>1, ItemsTyped
<1>3. s.born < r.born => s.id < r.id
  BY <1>1 DEF OrderInv, AgeInv, ByAge
<1>. QED BY <1>2, <1>3

(* What leaves, and what is sent, lies below what is kept waiting.         *)
LowestGo == \A r \in Evicted \cup Taken : \A s \in Waiting : r.id <= s.id

(* A step that adds nothing keeps the order.                               *)
LEMMA FewerItems ==
  ASSUME OrderInv, Items' \subseteq Items,
         UNCHANGED <<generator, events, newest, ahead>>
  PROVE  AgeInv'
<1>1. Top' = Top
  BY DEF Top, Pack
<1>2. Pack(newest + 1, 0)' = Pack(newest + 1, 0)
  BY DEF Pack
<1>. QED BY <1>1, <1>2 DEF OrderInv, AgeInv, ByAge

(* Records that leave, and a batch that goes out or comes back, touch no   *)
(* identifier.                                                             *)
LEMMA FewerRecords ==
  ASSUME OrderInv, stored' \subseteq stored,
         UNCHANGED <<generator, chosen, histories>>
  PROVE  OrderTypeOK' /\ AgeInv' /\ BornApart'
<1>1. UNCHANGED <<born, events, newest, ahead>>
  BY DEF histories
<1>2. Coming' = Coming /\ \A t : Item(t)' = Item(t)
  BY <1>1 DEF Coming, Item, Packed, Pack
<1>3. AgeInv'
  BY <1>1, <1>2, FewerItems DEF Items
<1>. QED BY <1>1, <1>2, <1>3 DEF OrderInv, OrderTypeOK, BornApart

(* A new event is younger than the others, and its identifier greater.     *)
LEMMA CreateKeeps ==
  ASSUME OrderInv, NEW t \in Threads, CreateEvent(t)
  PROVE  OrderTypeOK' /\ AgeInv' /\ BornApart'
<1>1. /\ Choose(t) /\ events' = events + 1
      /\ born' = [born EXCEPT ![t] = events + 1]
      /\ newest' = IF generator'.last > newest THEN generator'.last ELSE newest
      /\ ahead' = (ahead /\ (generator.hasGenerated \/ clock > newest))
      /\ stored' = stored
  BY DEF CreateEvent, records
<1>2. /\ chosen[t] = None /\ generator' = Advance
      /\ chosen' = [chosen EXCEPT ![t] =
                      IF generator'.last > MaxTimestamp THEN None
                      ELSE [timestamp |-> generator'.last,
                            counter |-> generator'.counter]]
      /\ UNCHANGED <<clock, returned>>
  BY <1>1 DEF Choose
<1>3. /\ clock \in Nat /\ generator \in Generator
      /\ generator.counter < CounterSize
      /\ chosen \in [Threads -> Chosen \cup {None}]
      /\ born \in [Threads -> Nat] /\ events \in Nat
      /\ newest \in Int /\ newest >= -1 /\ ahead \in BOOLEAN
  BY DEF OrderInv, IdInv, TypeOK, OrderTypeOK
<1>4. /\ generator' \in Generator /\ generator'.hasGenerated
      /\ generator'.last \in Nat /\ generator'.counter \in Nat
      /\ generator.hasGenerated => Top < Top'
  BY <1>2, <1>3, AdvanceGrows DEF Top, Pack, Generator
<1>5. OrderTypeOK'
  BY <1>1, <1>3, <1>4 DEF OrderInv, OrderTypeOK
<1>6. \A u \in Threads \ {t} : chosen'[u] = chosen[u] /\ born'[u] = born[u]
  BY <1>1, <1>2, <1>3
<1>7. \A u \in Threads \ {t} : Item(u)' = Item(u)
  BY <1>6 DEF Item, Packed, Pack
<1>8. t \in Coming' => Item(t)' = [id |-> Top', born |-> events + 1]
  <2>. SUFFICES ASSUME t \in Coming'
                PROVE  Item(t)' = [id |-> Top', born |-> events + 1]
    OBVIOUS
  <2>1. chosen'[t] # None
    BY DEF Coming
  <2>2. chosen'[t] = [timestamp |-> generator'.last,
                      counter |-> generator'.counter]
    BY <1>2, <1>3, <2>1
  <2>3. born'[t] = events + 1
    BY <1>1, <1>3
  <2>. QED BY <2>2, <2>3 DEF Item, Packed, Pack, Top
<1>9. \A x \in Items' : x \in Items \/ (x.id = Top' /\ x.born = events + 1)
  <2>1. \A u \in Coming' \ {t} : u \in Coming
    BY <1>6 DEF Coming
  <2>2. \A u \in Coming' \ {t} : Item(u)' \in Items
    BY <1>7, <2>1 DEF Items, Coming
  <2>3. \A x \in Items' : x \in stored \/ \E u \in Coming' : x = Item(u)'
    BY <1>1 DEF Items
  <2>. QED BY <1>8, <2>2, <2>3 DEF Items
<1>10. \A x \in Items : x.id \in Nat /\ x.born \in Nat /\ x.born <= events
  BY ItemsTyped DEF OrderInv, AgeInv
<1>11. \A x \in Items' : x.born <= events'
  BY <1>1, <1>3, <1>9, <1>10
<1>12. ASSUME ahead'
       PROVE  /\ newest' = generator'.last
              /\ \A x \in Items : x.id < Top'
  <2>1. ahead /\ (generator.hasGenerated \/ clock > newest)
    BY <1>1, <1>12
  <2>2. CASE generator.hasGenerated
    <3>1. newest = generator.last /\ \A x \in Items : x.id <= Top
      BY <2>1, <2>2 DEF OrderInv, AgeInv
    <3>2. generator'.last >= generator.last
      BY <1>2, <1>3, <2>2 DEF Advance, Generator
    <3>3. Top \in Nat /\ Top' \in Nat
      BY <1>3, <1>4, PackType DEF Top, Pack, Generator
    <3>4. generator.last \in Nat
      BY <1>3 DEF Generator
    <3>5. newest' = generator'.last
      BY <1>1, <1>4, <3>1, <3>2, <3>4
    <3>. QED BY <1>4, <1>10, <2>2, <3>1, <3>3, <3>5
  <2>3. CASE ~generator.hasGenerated
    <3>1. clock > newest /\ \A x \in Items : x.id < Pack(newest + 1, 0)
      BY <2>1, <2>3 DEF OrderInv, AgeInv
    <3>2. generator' = [hasGenerated |-> TRUE, last |-> clock, counter |-> 0]
      BY <1>2, <2>3 DEF Advance
    <3>3. newest + 1 \in Nat /\ (newest + 1 < clock \/ newest + 1 = clock)
      BY <1>3, <3>1
    <3>4. Top' = Pack(clock, 0)
      BY <3>2 DEF Top, Pack
    <3>5. Pack(newest + 1, 0) <= Pack(clock, 0)
      <4>1. 0 < CounterSize /\ 0 \in Nat
        BY CounterAssumption
      <4>2. CASE newest + 1 < clock
        <5>1. Pack(newest + 1, 0) < Pack(clock, 0)
          BY <1>3, <3>3, <4>1, <4>2, PackGrows
        <5>2. Pack(newest + 1, 0) \in Nat /\ Pack(clock, 0) \in Nat
          BY <1>3, <3>3, <4>1, PackType
        <5>. QED BY <5>1, <5>2
      <4>3. CASE newest + 1 = clock
        <5>1. Pack(clock, 0) \in Nat
          BY <1>3, <4>1, PackType
        <5>. QED BY <4>3, <5>1
      <4>. QED BY <3>3, <4>2, <4>3
    <3>6. Pack(newest + 1, 0) \in Nat /\ Pack(clock, 0) \in Nat
      BY <1>3, <3>3, PackType
    <3>7. newest' = generator'.last
      BY <1>1, <1>3, <3>1, <3>2
    <3>. QED BY <1>10, <3>1, <3>4, <3>5, <3>6, <3>7
  <2>. QED BY <2>2, <2>3
<1>13. ASSUME ahead' PROVE ByAge'
  <2>1. ahead /\ ByAge
    BY <1>1, <1>13 DEF OrderInv, AgeInv
  <2>2. \A x \in Items : x.id < Top' /\ x.born < events + 1
    BY <1>3, <1>10, <1>12, <1>13
  <2>. SUFFICES ASSUME NEW x \in Items', NEW y \in Items', x.born < y.born
                PROVE  x.id < y.id
    BY DEF ByAge
  <2>3. CASE x \in Items /\ y \in Items
    BY <2>1, <2>3 DEF ByAge
  <2>4. CASE x \in Items /\ y.id = Top'
    BY <2>2, <2>4
  <2>5. CASE x.born = events + 1
    <3>1. y.born <= events + 1 /\ y.born \in Nat
      BY <1>3, <1>9, <1>10
    <3>. QED BY <1>3, <2>5, <3>1
  <2>. QED BY <1>9, <2>3, <2>4, <2>5
<1>14. ASSUME ahead'
       PROVE  newest' = generator'.last /\ \A x \in Items' : x.id <= Top'
  <2>1. Top' \in Nat
    BY <1>4, PackType DEF Top, Pack
  <2>. QED BY <1>9, <1>10, <1>12, <1>14, <2>1
<1>15. AgeInv'
  BY <1>4, <1>11, <1>13, <1>14 DEF AgeInv
<1>16. BornApart'
  <2>1. \A u \in Coming' \ {t} : u \in Coming /\ born'[u] = born[u]
    BY <1>6 DEF Coming
  <2>2. born'[t] = events + 1
    BY <1>1, <1>3
  <2>3. \A x \in stored : x.born # events + 1
    BY <1>3, <1>10 DEF Items
  <2>4. \A u \in Coming : born[u] # events + 1
    <3>1. \A u \in Coming : Item(u) \in Items /\ Item(u).born = born[u]
      BY DEF Items, Item
    <3>. QED BY <1>3, <1>10, <3>1
  <2>. QED BY <1>1, <2>1, <2>2, <2>3, <2>4 DEF OrderInv, BornApart
<1>. QED BY <1>5, <1>15, <1>16

(* A saved event was coming, and a record that made room is the oldest.    *)
LEMMA SaveKeeps ==
  ASSUME OrderInv, NEW t \in Threads, SaveEvent(t)
  PROVE  OrderTypeOK' /\ AgeInv' /\ BornApart' /\ LowestGo
<1>. DEFINE new == [id |-> returned'[Len(returned')].id, born |-> born[t]]
<1>1. /\ Return(t) /\ UNCHANGED <<inFlight, born, events, newest, ahead>>
      /\ \E gone \in Evictions :
           stored' = stored \ gone \/ stored' = (stored \ gone) \cup {new}
  BY DEF SaveEvent, histories
<1>2. PICK gone \in Evictions :
        stored' = stored \ gone \/ stored' = (stored \ gone) \cup {new}
  BY <1>1
<1>3. /\ chosen[t] # None
      /\ returned' = Append(returned, [thread |-> t, id |-> Packed(t)])
      /\ chosen' = [chosen EXCEPT ![t] = None]
      /\ UNCHANGED <<clock, generator>>
  BY <1>1 DEF Return, Packed
<1>4. /\ chosen \in [Threads -> Chosen \cup {None}]
      /\ born \in [Threads -> Nat]
      /\ returned \in Seq([thread: Threads, id: Nat])
  BY DEF OrderInv, IdInv, TypeOK, OrderTypeOK
<1>5. new = Item(t) /\ t \in Coming
  <2>1. Packed(t) \in Nat
    BY <1>3, PackedType DEF OrderInv, IdInv
  <2>2. [thread |-> t, id |-> Packed(t)] \in [thread: Threads, id: Nat]
    BY <2>1
  <2>3. returned'[Len(returned')].id = Packed(t)
    BY <1>3, <1>4, <2>2
  <2>. QED BY <1>3, <2>3 DEF Item, Coming
<1>6. /\ gone \subseteq stored \ inFlight
      /\ \A r \in gone : \A s \in (stored \ inFlight) \ gone : r.id <= s.id
  BY DEF Evictions, Firsts
<1>7. Items' \subseteq Items
  <2>1. \A u \in Coming' : u # t /\ u \in Coming /\ Item(u)' = Item(u)
    BY <1>1, <1>3, <1>4 DEF Coming, Item, Packed, Pack
  <2>2. \A x \in Items' : x \in stored' \/ \E u \in Coming' : x = Item(u)'
    BY DEF Items
  <2>3. \A u \in Coming' : Item(u)' \in Items
    BY <2>1 DEF Items
  <2>4. \A x \in stored' : x \in Items
    BY <1>2, <1>5, <1>6 DEF Items
  <2>. QED BY <2>2, <2>3, <2>4
<1>8. AgeInv'
  BY <1>1, <1>3, <1>7, FewerItems
<1>9. OrderTypeOK'
  <2>1. new \in [id: Nat, born: Nat]
    <3>1. Packed(t) \in Nat
      BY <1>3, PackedType DEF OrderInv, IdInv
    <3>. QED BY <1>4, <1>5, <3>1 DEF Item
  <2>. QED BY <1>1, <1>2, <1>6, <2>1 DEF OrderInv, OrderTypeOK
<1>10. new \notin stored
  BY <1>5 DEF OrderInv, BornApart, Item
<1>11. BornApart'
  <2>1. \A u \in Coming' : u # t /\ u \in Coming
    BY <1>3, <1>4 DEF Coming
  <2>2. \A x \in stored' : x \in stored \/ x.born = born[t]
    BY <1>2
  <2>. QED BY <1>1, <1>5, <2>1, <2>2 DEF OrderInv, BornApart
<1>12. LowestGo
  <2>1. Evicted \subseteq gone /\ Taken = {}
    BY <1>1, <1>2 DEF Evicted, Taken
  <2>2. Waiting \subseteq (stored \ inFlight) \ gone
    BY <1>2, <1>10 DEF Waiting
  <2>. QED BY <1>6, <2>1, <2>2 DEF LowestGo
<1>. QED BY <1>8, <1>9, <1>11, <1>12

(* A batch takes the first readable records, and returns as a whole.       *)
LEMMA BatchKeeps ==
  ASSUME OrderInv, TryBuildNextBatch \/ HandleBatchComplete
  PROVE  OrderTypeOK' /\ AgeInv' /\ BornApart' /\ LowestGo
<1>1. UNCHANGED <<generator, chosen, returned, histories>>
  BY DEF TryBuildNextBatch, HandleBatchComplete, idVars
<1>2. Evicted = {} /\ stored' \subseteq stored
  BY <1>1 DEF Evicted, TryBuildNextBatch, HandleBatchComplete
<1>3. CASE HandleBatchComplete
  <2>1. Taken = {}
    BY <1>3 DEF HandleBatchComplete, Taken
  <2>. QED BY <1>1, <1>2, <2>1, FewerRecords DEF LowestGo
<1>4. CASE TryBuildNextBatch
  <2>1. PICK visited \in Firsts(stored) :
          \E unreadable \in SUBSET visited :
            /\ stored' = stored \ unreadable
            /\ inFlight' = {} \/ inFlight' = visited \ unreadable
    BY <1>4 DEF TryBuildNextBatch
  <2>2. \A r \in visited : \A s \in stored \ visited : r.id <= s.id
    BY DEF Firsts
  <2>3. Taken \subseteq visited /\ (Taken # {} => Waiting \subseteq stored \ visited)
    BY <2>1 DEF Taken, Waiting
  <2>. QED BY <1>1, <1>2, <2>2, <2>3, FewerRecords DEF LowestGo
<1>. QED BY <1>3, <1>4

(* An event that the game drops was coming, and comes no more.             *)
LEMMA DropKeeps ==
  ASSUME OrderInv, NEW t \in Threads, DropEvent(t)
  PROVE  OrderTypeOK' /\ AgeInv' /\ BornApart'
<1>1. /\ UNCHANGED <<generator, stored, born, events, newest, ahead>>
      /\ chosen' = [chosen EXCEPT ![t] = None]
  BY DEF DropEvent, Return, records, histories
<1>2. \A u \in Coming' : u # t /\ u \in Coming /\ Item(u)' = Item(u)
  BY <1>1 DEF OrderInv, IdInv, TypeOK, Coming, Item, Packed, Pack
<1>3. Items' \subseteq Items
  BY <1>1, <1>2 DEF Items
<1>4. AgeInv'
  BY <1>1, <1>3, FewerItems
<1>. QED BY <1>1, <1>2, <1>4 DEF OrderInv, OrderTypeOK, BornApart

(* The next process knows nothing of the identifiers, and the records all  *)
(* lie below the time the last one came to.                                *)
LEMMA NextProcessKeeps ==
  ASSUME OrderInv, NextProcess
  PROVE  OrderTypeOK' /\ AgeInv' /\ BornApart'
<1>1. /\ generator.hasGenerated /\ generator' = NewGenerator
      /\ chosen' = [t \in Threads |-> None]
      /\ UNCHANGED <<clock, stored, born, events, newest, ahead>>
  BY DEF NextProcess, Restart, histories
<1>2. OrderTypeOK'
  BY <1>1 DEF OrderInv, OrderTypeOK
<1>3. Items' \subseteq Items
  <2>1. Coming' = {}
    BY <1>1 DEF Coming
  <2>. QED BY <1>1, <2>1 DEF Items
<1>4. ~generator'.hasGenerated
  BY <1>1 DEF NewGenerator
<1>5. ASSUME ahead'
      PROVE  ByAge' /\ \A x \in Items' : x.id < Pack(newest + 1, 0)'
  <2>1. ByAge /\ newest = generator.last /\ \A x \in Items : x.id <= Top
    BY <1>1, <1>5 DEF OrderInv, AgeInv
  <2>2. /\ generator.last \in Nat /\ generator.counter \in Nat
        /\ generator.counter < CounterSize
    BY DEF OrderInv, IdInv, TypeOK, Generator
  <2>3. Top < Pack(generator.last + 1, 0)
    <3>1. CounterSize \in Nat \ {0}
      BY CounterAssumption
    <3>2. /\ generator.last + 1 \in Nat /\ generator.last < generator.last + 1
          /\ 0 \in Nat
      BY <2>2
    <3>. QED BY <2>2, <3>1, <3>2, PackGrows DEF Top
  <2>4. Top \in Nat /\ Pack(generator.last + 1, 0) \in Nat
    <3>1. generator.last + 1 \in Nat /\ 0 \in Nat
      BY <2>2
    <3>. QED BY <2>2, <3>1, PackType DEF Top
  <2>5. Pack(newest + 1, 0)' = Pack(generator.last + 1, 0)
    BY <1>1, <2>1 DEF Pack
  <2>6. \A x \in Items : x.id < Pack(generator.last + 1, 0)
    BY <2>1, <2>3, <2>4, ItemsTyped
  <2>. QED BY <1>3, <2>1, <2>5, <2>6 DEF ByAge
<1>6. \A x \in Items' : x.born <= events'
  BY <1>1, <1>3 DEF OrderInv, AgeInv
<1>7. BornApart'
  BY <1>1 DEF Coming, BornApart
<1>. QED BY <1>2, <1>4, <1>5, <1>6, <1>7 DEF AgeInv

(* The invariant of the queue's order.                                     *)
LEMMA OrderInitially == OrderInit => OrderInv
<1>. SUFFICES ASSUME OrderInit PROVE OrderInv
  OBVIOUS
<1>1. /\ Init /\ stored = {} /\ born = [t \in Threads |-> 0]
      /\ events = 0 /\ newest = -1 /\ ahead = TRUE
  BY DEF OrderInit
<1>2. IdInv
  BY <1>1, InitInv
<1>3. Items = {} /\ ~generator.hasGenerated
  BY <1>1 DEF Init, Items, Coming, NewGenerator
<1>4. OrderTypeOK
  BY <1>1 DEF OrderTypeOK
<1>5. BornApart
  BY <1>1 DEF Init, Coming, BornApart
<1>. QED BY <1>2, <1>3, <1>4, <1>5 DEF OrderInv, AgeInv, ByAge

(* Every step keeps it.                                                    *)
LEMMA OrderKeeps == OrderInv /\ [OrderNext]_vars => OrderInv'
<1>. SUFFICES ASSUME OrderInv, [OrderNext]_vars PROVE OrderInv'
  OBVIOUS
<1>1. IdInv'
  BY OrderStep, NextInv DEF OrderInv
<1>2. CASE \E t \in Threads : CreateEvent(t) \/ DropEvent(t) \/ SaveEvent(t)
  BY <1>1, <1>2, CreateKeeps, DropKeeps, SaveKeeps DEF OrderInv
<1>3. CASE TryBuildNextBatch \/ HandleBatchComplete
  BY <1>1, <1>3, BatchKeeps DEF OrderInv
<1>4. CASE NextProcess
  BY <1>1, <1>4, NextProcessKeeps DEF OrderInv
<1>5. CASE ClockSet \/ UNCHANGED vars
  <2>1. UNCHANGED <<generator, chosen, stored, histories>>
    BY <1>5 DEF ClockSet, ClockMoves, vars, records, histories
  <2>. QED BY <1>1, <2>1, FewerRecords DEF OrderInv
<1>. QED BY <1>2, <1>3, <1>4, <1>5 DEF OrderNext

(* The identifiers and the ages of the records agree as long as every      *)
(* process found the clock past the identifiers before it.                 *)
THEOREM OrderInvariant == OrderSpec => []OrderInv
BY OrderInitially, OrderKeeps, PTL DEF OrderSpec

(* Whatever the capacities and whoever creates the events, what makes room *)
(* and what is sent was created before all that is kept waiting            *)
(* (EnsureCapacityForSave, TryGetOldestEvictableEventId,                   *)
(* TryBuildNextBatch).                                                     *)
THEOREM OldestGoesFirst == OrderSpec => OldestFirst
<1>1. OrderInv /\ [OrderNext]_vars =>
        [ahead => \A r \in Evicted \cup Taken :
                    \A s \in Waiting : r.born <= s.born]_vars
  <2>. SUFFICES ASSUME OrderInv, [OrderNext]_vars, ahead
                PROVE  \A r \in Evicted \cup Taken :
                         \A s \in Waiting : r.born <= s.born
    OBVIOUS
  <2>1. LowestGo
    <3>1. CASE /\ UNCHANGED stored
               /\ inFlight' = inFlight \/ inFlight' = {}
      BY <3>1 DEF LowestGo, Evicted, Taken
    <3>2. CASE \E t \in Threads : SaveEvent(t)
      BY <3>2, SaveKeeps
    <3>3. CASE TryBuildNextBatch \/ HandleBatchComplete
      BY <3>3, BatchKeeps
    <3>. QED BY <3>1, <3>2, <3>3
           DEF OrderNext, CreateEvent, DropEvent, ClockSet, NextProcess, vars, records
  <2>2. Evicted \cup Taken \subseteq stored /\ Waiting \subseteq stored
    <3>1. Taken \subseteq stored
      BY DEF Taken, OrderNext, CreateEvent, DropEvent, SaveEvent,
             TryBuildNextBatch, HandleBatchComplete, Firsts, ClockSet,
             NextProcess, vars, records
    <3>. QED BY <3>1 DEF Evicted, Waiting
  <2>. QED BY <2>1, <2>2, LowerIsOlder DEF LowestGo
<1>. QED BY <1>1, OrderInvariant, PTL DEF OrderSpec, OldestFirst

(* Under the queue, too, the identifiers differ and each thread sees its   *)
(* own grow.                                                               *)
THEOREM QueueIdsInOrder == OrderSpec => []IdsInOrder
<1>1. OrderInv => IdsInOrder
  BY DEF OrderInv, IdInv, IdsInOrder
<1>. QED BY <1>1, OrderInvariant, PTL

(* The generator under the queue is the generator alone, and so a source   *)
(* of increasing identifiers.                                              *)
THEOREM QueueIdsIncrease == OrderSpec => IdsIncrease
<1>1. OrderInit => Init
  BY DEF OrderInit
<1>2. OrderSpec => Spec
  BY <1>1, OrderStep, PTL DEF OrderSpec, Spec
<1>. QED BY <1>2, Increasing

=============================================================================
