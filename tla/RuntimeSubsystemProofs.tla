----------------------- MODULE RuntimeSubsystemProofs -----------------------
(***************************************************************************)
(* Proofs about RuntimeSubsystem, for any number of callbacks, records and *)
(* nested calls.                                                           *)
(*                                                                         *)
(* The game thread's stack is what makes the invariants hard: a call is    *)
(* interrupted by the game's callbacks, which call back in.  The inductive *)
(* invariant says what may lie on what, what a frame on the stack tells of *)
(* the fields, and where the unanswered callbacks wait.                    *)
(***************************************************************************)
EXTENDS RuntimeSubsystem, FiniteSetTheorems, SequenceTheorems, TLAPS

Kinds(frames) == {frames[i].at : i \in 1 .. Len(frames)}

Values(seq) == {seq[k] : k \in 1 .. Len(seq)}

Distinct(seq) == \A k, l \in 1 .. Len(seq) : seq[k] = seq[l] => k = l

(* The callbacks the frames still have to call.                            *)
Due(frames) == UNION {Values(frames[i].rest) : i \in 1 .. Len(frames)}

(* No callback is due twice.                                               *)
Apart(frames) ==
  /\ \A i \in 1 .. Len(frames) : Distinct(frames[i].rest)
  /\ \A i, j \in 1 .. Len(frames) :
       i # j => Values(frames[i].rest) \cap Values(frames[j].rest) = {}

(* At most one of the frames is of one of the kinds.                       *)
Single(frames, kinds) ==
  \A i, j \in 1 .. Len(frames) :
    frames[i].at \in kinds /\ frames[j].at \in kinds => i = j

Exits(frames) == Single(frames, {"exit"})

Clears(frames) == Single(frames, {"clear", "members"})

Fresh(frames) == \A i \in 1 .. Len(frames) : ~frames[i].stale

(* What lies on what: the opt-out cleans up on its own frame, and nothing  *)
(* but the drain comes before the exit.                                    *)
WellNested(frames) ==
  \A i \in 1 .. Len(frames) :
    /\ frames[i].at # "callbacks" => frames[i].rest = <<>>
    /\ frames[i].at \in {"clear", "members"} =>
         i < Len(frames) /\ frames[i + 1].at = "optOut"
    /\ frames[i].at = "exit" /\ i > 1 => frames[i - 1].at = "drain"

(* The callbacks of the queue and of the frames are those owed, each in    *)
(* one place.                                                              *)
EachOnce(callbacks, frames, due) ==
  /\ Distinct(callbacks)
  /\ Apart(frames)
  /\ Values(callbacks) \cap Due(frames) = {}
  /\ due = Values(callbacks) \cup Due(frames)

(* Only a consenting queue has a request out, and only then are there      *)
(* callbacks waiting for it; Shutdown leaves none.                         *)
QueueInv ==
  /\ queue.flushing => queue.live /\ controller.optedIn
  /\ ~queue.flushing => queue.callbacks = <<>>
  /\ controller.shuttingDown => queue.callbacks = <<>>

AnswersInv == EachOnce(queue.callbacks, stack, owed) /\ WellNested(stack)

Blank ==
  /\ stack = <<>> /\ owed = {} /\ exits = 0
  /\ controller = OptedOutController(FALSE)
  /\ queue = NoQueue
  /\ quit = NewCoordinator(FALSE)

Teardowns == {<<Rest("drain"), Rest("destroy")>>, <<Rest("destroy")>>}

PhaseInv ==
  /\ runtime.phase = "down" => Blank
  /\ runtime.phase \in {"deinitialized", "destroying", "destroyed"} =>
       controller.shuttingDown /\ ~quit.live
  /\ "destroy" \in Kinds(stack) => runtime.phase = "destroying"
  /\ runtime.phase \in {"destroying", "destroyed"} =>
       owed = {} /\ ~controller.bound
  /\ runtime.phase = "destroying" => stack \in Teardowns
  /\ runtime.phase = "destroyed" => stack = <<>> /\ queue = NoQueue

QuitInv ==
  /\ quit.armed => quit.live /\ quit.begun /\ ~quit.finalized
  /\ Quit \in owed => quit.begun
  /\ "quit" \in Kinds(stack) => quit.live /\ quit.begun

ExitInv ==
  /\ Exits(stack)
  /\ "exit" \in Kinds(stack) => quit.finalized /\ exits = 0
  /\ exits <= 1 /\ (exits = 1 => quit.finalized)
  /\ ~Idle /\ Head(stack).at = "exit" => disk.pending = 0

HandlersInv ==
  Running /\ Kinds(stack) \cap {"optIn", "optOut"} = {} =>
    /\ runtime.ensure = (controller.optedIn /\ settings.exceptions)
    /\ "world" \notin troubles => runtime.timer = controller.optedIn

SteadyInv ==
  "optIn" \notin troubles =>
    /\ Fresh(stack)
    /\ Kinds(stack) \cap {"clear", "members", "optOut"} # {} =>
         ~controller.optedIn
    /\ Clears(stack)
    /\ "clear" \in Kinds(stack) => controller.storage
    /\ Exists /\ controller.optedIn => queue.live /\ controller.storage

ConsentInv ==
  troubles \subseteq {"settings"} /\ controller.optedIn => saved = "in"

StaysOut ==
  \/ saved = "out"
  \/ saved = "none" /\ ~(settings.valid /\ settings.byDefault)

PlainInv ==
  troubles = {} =>
    /\ saved \in {"none", "in", "out"}
    /\ Count > 0 => saved = "in"
    /\ saved = "in" => settings.valid
    /\ Exists /\ ~controller.optedIn /\ "clear" \notin Kinds(stack) => StaysOut
    /\ wish = "out" => ~controller.optedIn /\ StaysOut

IInv ==
  /\ TypeOK
  /\ QueueInv
  /\ AnswersInv
  /\ PhaseInv
  /\ QuitInv
  /\ ExitInv
  /\ HandlersInv
  /\ SteadyInv
  /\ ConsentInv
  /\ PlainInv

-----------------------------------------------------------------------------
(* The stack: one frame more, or one less.                                 *)

OnTop(new, frame, below) ==
  /\ new \in Seq(Frame) /\ frame \in Frame /\ below \in Seq(Frame)
  /\ Len(new) = Len(below) + 1
  /\ new[1] = frame
  /\ \A i \in 1 .. Len(below) : new[i + 1] = below[i]

(* A frame may be put on others, by what WellNested says.                  *)
Fits(frame, below) ==
  /\ frame.at # "callbacks" => frame.rest = <<>>
  /\ frame.at \in {"clear", "members"} =>
       below # <<>> /\ below[1].at = "optOut"
  /\ below # <<>> /\ below[1].at = "exit" => frame.at = "drain"

(* A call puts its frame in front of the others.                           *)
LEMMA Pushed ==
  ASSUME NEW frame \in Frame, NEW below \in Seq(Frame)
  PROVE  /\ OnTop(<<frame>> \o below, frame, below)
         /\ <<frame>> \o below # <<>>
         /\ Head(<<frame>> \o below) = frame
         /\ Tail(<<frame>> \o below) = below
<1>. DEFINE new == <<frame>> \o below
<1>1. /\ new \in Seq(Frame) /\ Len(new) = Len(below) + 1 /\ new[1] = frame
      /\ \A i \in 1 .. Len(below) : new[i + 1] = below[i]
  OBVIOUS
<1>2. new # <<>> /\ Head(new) = frame /\ Tail(new) = below
  OBVIOUS
<1>. QED BY <1>1, <1>2 DEF OnTop

(* A return takes the front one off.                                       *)
LEMMA Popped ==
  ASSUME NEW frames \in Seq(Frame), frames # <<>>
  PROVE  OnTop(frames, Head(frames), Tail(frames)) /\ frames[1] = Head(frames)
<1>1. /\ Tail(frames) \in Seq(Frame) /\ Head(frames) \in Frame
      /\ Len(frames) = Len(Tail(frames)) + 1
      /\ frames[1] = Head(frames)
      /\ \A i \in 1 .. Len(Tail(frames)) : frames[i + 1] = Tail(frames)[i]
  OBVIOUS
<1>. QED BY <1>1 DEF OnTop

(* The indices of a stack: the first, and those of the rest.               *)
LEMMA Indices ==
  ASSUME NEW new, NEW frame, NEW below, OnTop(new, frame, below)
  PROVE  /\ Len(below) \in Nat
         /\ 1 \in 1 .. Len(new)
         /\ \A i \in 1 .. Len(below) : i + 1 \in 1 .. Len(new) /\ i + 1 # 1
         /\ \A i \in 1 .. Len(new) :
              i = 1 \/ \E j \in 1 .. Len(below) : i = j + 1 /\ new[i] = below[j]
<1>1. Len(below) \in Nat /\ Len(new) = Len(below) + 1
  BY DEF OnTop
<1>2. \A i \in 1 .. Len(new) :
        i = 1 \/ (i - 1 \in 1 .. Len(below) /\ i = (i - 1) + 1)
  BY <1>1
<1>3. \A i \in 1 .. Len(new) :
        i = 1 \/ \E j \in 1 .. Len(below) : i = j + 1 /\ new[i] = below[j]
  <2>. SUFFICES ASSUME NEW i \in 1 .. Len(new), i # 1
                PROVE  \E j \in 1 .. Len(below) : i = j + 1 /\ new[i] = below[j]
    OBVIOUS
  <2>1. i - 1 \in 1 .. Len(below) /\ i = (i - 1) + 1
    BY <1>2
  <2>2. new[i] = below[i - 1]
    BY <2>1 DEF OnTop
  <2>. QED BY <2>1, <2>2
<1>. QED BY <1>1, <1>3

(* The kinds of the frames.                                                *)
LEMMA KindsOnTop ==
  ASSUME NEW new, NEW frame, NEW below, OnTop(new, frame, below)
  PROVE  Kinds(new) = {frame.at} \cup Kinds(below)
<1>1. /\ 1 \in 1 .. Len(new) /\ new[1] = frame
      /\ \A i \in 1 .. Len(below) : i + 1 \in 1 .. Len(new) /\ new[i + 1] = below[i]
      /\ \A i \in 1 .. Len(new) :
           i = 1 \/ \E j \in 1 .. Len(below) : i = j + 1 /\ new[i] = below[j]
  BY Indices DEF OnTop
<1>2. Kinds(new) \subseteq {frame.at} \cup Kinds(below)
  BY <1>1 DEF Kinds
<1>3. {frame.at} \cup Kinds(below) \subseteq Kinds(new)
  <2>1. \A i \in 1 .. Len(below) : below[i].at = new[i + 1].at
    BY <1>1
  <2>2. \A i \in 1 .. Len(below) : below[i].at \in Kinds(new)
    BY <1>1, <2>1 DEF Kinds
  <2>3. frame.at \in Kinds(new)
    BY <1>1 DEF Kinds
  <2>. QED BY <2>2, <2>3 DEF Kinds
<1>. QED BY <1>2, <1>3

(* None of them is stale.                                                  *)
LEMMA FreshOnTop ==
  ASSUME NEW new, NEW frame, NEW below, OnTop(new, frame, below)
  PROVE  Fresh(new) <=> ~frame.stale /\ Fresh(below)
<1>1. /\ 1 \in 1 .. Len(new) /\ new[1] = frame
      /\ \A i \in 1 .. Len(below) : i + 1 \in 1 .. Len(new) /\ new[i + 1] = below[i]
      /\ \A i \in 1 .. Len(new) :
           i = 1 \/ \E j \in 1 .. Len(below) : i = j + 1 /\ new[i] = below[j]
  BY Indices DEF OnTop
<1>. QED BY <1>1 DEF Fresh

(* At most one is of the given kinds.                                      *)
LEMMA SingleOnTop ==
  ASSUME NEW new, NEW frame, NEW below, OnTop(new, frame, below), NEW kinds
  PROVE  Single(new, kinds) <=>
           /\ Single(below, kinds)
           /\ frame.at \in kinds => Kinds(below) \cap kinds = {}
<1>1. /\ Len(below) \in Nat /\ 1 \in 1 .. Len(new) /\ new[1] = frame
      /\ \A i \in 1 .. Len(below) :
           i + 1 \in 1 .. Len(new) /\ i + 1 # 1 /\ new[i + 1] = below[i]
      /\ \A i \in 1 .. Len(new) :
           i = 1 \/ \E j \in 1 .. Len(below) : i = j + 1 /\ new[i] = below[j]
  BY Indices DEF OnTop
<1>2. ASSUME Single(new, kinds)
      PROVE  /\ Single(below, kinds)
             /\ frame.at \in kinds => Kinds(below) \cap kinds = {}
  <2>1. \A i, j \in 1 .. Len(below) :
          below[i].at \in kinds /\ below[j].at \in kinds => i + 1 = j + 1
    BY <1>1, <1>2 DEF Single
  <2>2. \A i, j \in 1 .. Len(below) : i + 1 = j + 1 => i = j
    BY <1>1
  <2>3. \A i \in 1 .. Len(below) :
          frame.at \in kinds => below[i].at \notin kinds
    BY <1>1, <1>2 DEF Single
  <2>. QED BY <2>1, <2>2, <2>3 DEF Single, Kinds
<1>3. ASSUME Single(below, kinds),
             frame.at \in kinds => Kinds(below) \cap kinds = {}
      PROVE  Single(new, kinds)
  <2>1. \A i \in 1 .. Len(below) :
          frame.at \in kinds => below[i].at \notin kinds
    BY <1>3 DEF Kinds
  <2>. SUFFICES ASSUME NEW i \in 1 .. Len(new), NEW j \in 1 .. Len(new),
                       new[i].at \in kinds, new[j].at \in kinds
                PROVE  i = j
    BY DEF Single
  <2>2. CASE i = 1
    BY <1>1, <2>1, <2>2
  <2>3. CASE j = 1
    BY <1>1, <2>1, <2>3
  <2>4. CASE i # 1 /\ j # 1
    BY <1>1, <1>3, <2>4 DEF Single
  <2>. QED BY <2>2, <2>3, <2>4
<1>. QED BY <1>2, <1>3

(* What lies on what.                                                      *)
LEMMA NestedOnTop ==
  ASSUME NEW new, NEW frame, NEW below, OnTop(new, frame, below)
  PROVE  WellNested(new) <=> WellNested(below) /\ Fits(frame, below)
<1>1. /\ Len(below) \in Nat /\ Len(new) = Len(below) + 1
      /\ below \in Seq(Frame) /\ new[1] = frame
      /\ \A i \in 1 .. Len(below) : new[i + 1] = below[i]
  BY DEF OnTop
<1>2. \A i \in 1 .. Len(new) :
        i = 1 \/ \E j \in 1 .. Len(below) : i = j + 1 /\ new[i] = below[j]
  BY Indices
<1>3. ASSUME WellNested(new) PROVE WellNested(below) /\ Fits(frame, below)
  <2>1. ASSUME NEW i \in 1 .. Len(below)
        PROVE  /\ below[i].at # "callbacks" => below[i].rest = <<>>
               /\ below[i].at \in {"clear", "members"} =>
                    i < Len(below) /\ below[i + 1].at = "optOut"
               /\ below[i].at = "exit" /\ i > 1 => below[i - 1].at = "drain"
    <3>1. i + 1 \in 1 .. Len(new) /\ new[i + 1] = below[i]
      BY <1>1
    <3>2. /\ below[i].at # "callbacks" => below[i].rest = <<>>
          /\ below[i].at \in {"clear", "members"} =>
               i + 1 < Len(new) /\ new[(i + 1) + 1].at = "optOut"
          /\ below[i].at = "exit" => new[(i + 1) - 1].at = "drain"
      BY <1>1, <1>3, <3>1 DEF WellNested
    <3>3. i + 1 < Len(new) => new[(i + 1) + 1] = below[i + 1] /\ i < Len(below)
      BY <1>1
    <3>4. i > 1 => new[(i + 1) - 1] = below[i - 1]
      <4>1. i > 1 => i - 1 \in 1 .. Len(below) /\ (i + 1) - 1 = (i - 1) + 1
        BY <1>1
      <4>. QED BY <1>1, <4>1
    <3>. QED BY <3>2, <3>3, <3>4
  <2>2. Fits(frame, below)
    <3>1. 1 \in 1 .. Len(new) /\ (below # <<>> => 1 \in 1 .. Len(below))
      BY <1>1
    <3>2. /\ frame.at # "callbacks" => frame.rest = <<>>
          /\ frame.at \in {"clear", "members"} =>
               1 < Len(new) /\ new[1 + 1].at = "optOut"
      BY <1>1, <1>3, <3>1 DEF WellNested
    <3>3. 1 < Len(new) => below # <<>> /\ new[1 + 1] = below[1]
      BY <1>1
    <3>4. below # <<>> /\ below[1].at = "exit" => frame.at = "drain"
      <4>. SUFFICES ASSUME below # <<>>, below[1].at = "exit"
                    PROVE  frame.at = "drain"
        OBVIOUS
      <4>1. 2 \in 1 .. Len(new) /\ new[2] = below[1]
        BY <1>1, <3>1
      <4>. QED BY <1>1, <1>3, <4>1 DEF WellNested
    <3>. QED BY <3>2, <3>3, <3>4 DEF Fits
  <2>. QED BY <2>1, <2>2 DEF WellNested
<1>4. ASSUME WellNested(below), Fits(frame, below) PROVE WellNested(new)
  <2>1. /\ frame.at # "callbacks" => frame.rest = <<>>
        /\ frame.at \in {"clear", "members"} =>
             1 < Len(new) /\ new[1 + 1].at = "optOut"
    <3>1. below # <<>> => 1 < Len(new) /\ new[1 + 1] = below[1]
      BY <1>1
    <3>. QED BY <1>4, <3>1 DEF Fits
  <2>2. ASSUME NEW i \in 1 .. Len(below)
        PROVE  /\ new[i + 1].at # "callbacks" => new[i + 1].rest = <<>>
               /\ new[i + 1].at \in {"clear", "members"} =>
                    i + 1 < Len(new) /\ new[(i + 1) + 1].at = "optOut"
               /\ new[i + 1].at = "exit" => new[(i + 1) - 1].at = "drain"
    <3>1. new[i + 1] = below[i]
      BY <1>1
    <3>2. /\ below[i].at # "callbacks" => below[i].rest = <<>>
          /\ below[i].at \in {"clear", "members"} =>
               i < Len(below) /\ below[i + 1].at = "optOut"
          /\ below[i].at = "exit" /\ i > 1 => below[i - 1].at = "drain"
      BY <1>4 DEF WellNested
    <3>3. i < Len(below) => i + 1 < Len(new) /\ new[(i + 1) + 1] = below[i + 1]
      BY <1>1
    <3>4. CASE i = 1
      <4>1. below # <<>> /\ (i + 1) - 1 = 1
        BY <1>1, <3>4
      <4>. QED BY <1>1, <1>4, <3>1, <3>2, <3>3, <3>4, <4>1 DEF Fits
    <3>5. CASE i # 1
      <4>1. i > 1 /\ i - 1 \in 1 .. Len(below) /\ (i + 1) - 1 = (i - 1) + 1
        BY <1>1, <3>5
      <4>2. new[(i + 1) - 1] = below[i - 1]
        BY <1>1, <4>1
      <4>. QED BY <3>1, <3>2, <3>3, <4>1, <4>2
    <3>. QED BY <3>4, <3>5
  <2>. QED BY <1>1, <1>2, <2>1, <2>2 DEF WellNested
<1>. QED BY <1>3, <1>4

(* Which callbacks are due, and that none is due twice.                    *)
LEMMA DueOnTop ==
  ASSUME NEW new, NEW frame, NEW below, OnTop(new, frame, below)
  PROVE  /\ Due(new) = Values(frame.rest) \cup Due(below)
         /\ Apart(new) <=> /\ Distinct(frame.rest)
                          /\ Apart(below)
                          /\ Values(frame.rest) \cap Due(below) = {}
<1>1. /\ Len(below) \in Nat /\ 1 \in 1 .. Len(new) /\ new[1] = frame
      /\ \A i \in 1 .. Len(below) :
           i + 1 \in 1 .. Len(new) /\ i + 1 # 1 /\ new[i + 1] = below[i]
      /\ \A i \in 1 .. Len(new) :
           i = 1 \/ \E j \in 1 .. Len(below) : i = j + 1 /\ new[i] = below[j]
  BY Indices DEF OnTop
<1>2. Due(new) = Values(frame.rest) \cup Due(below)
  <2>1. Due(new) \subseteq Values(frame.rest) \cup Due(below)
    <3>1. \A i \in 1 .. Len(new) :
            Values(new[i].rest) \subseteq Values(frame.rest) \cup Due(below)
      BY <1>1 DEF Due
    <3>. QED BY <3>1 DEF Due
  <2>2. \A i \in 1 .. Len(new) : Values(new[i].rest) \subseteq Due(new)
    BY DEF Due
  <2>3. Values(frame.rest) \subseteq Due(new)
    BY <1>1, <2>2
  <2>4. \A i \in 1 .. Len(below) : Values(below[i].rest) \subseteq Due(new)
    <3>1. \A i \in 1 .. Len(below) : Values(below[i].rest) = Values(new[i + 1].rest)
      BY <1>1
    <3>. QED BY <1>1, <2>2, <3>1
  <2>5. Due(below) \subseteq Due(new)
    BY <2>4 DEF Due
  <2>. QED BY <2>1, <2>3, <2>5
<1>3. ASSUME Apart(new)
      PROVE  /\ Distinct(frame.rest) /\ Apart(below)
             /\ Values(frame.rest) \cap Due(below) = {}
  <2>1. Distinct(frame.rest) /\ \A i \in 1 .. Len(below) : Distinct(below[i].rest)
    BY <1>1, <1>3 DEF Apart
  <2>2. \A i, j \in 1 .. Len(below) : i # j => i + 1 # j + 1
    BY <1>1
  <2>3. \A i, j \in 1 .. Len(below) :
          i # j => Values(below[i].rest) \cap Values(below[j].rest) = {}
    BY <1>1, <1>3, <2>2 DEF Apart
  <2>4. \A i \in 1 .. Len(below) :
          Values(frame.rest) \cap Values(below[i].rest) = {}
    BY <1>1, <1>3 DEF Apart
  <2>. QED BY <2>1, <2>3, <2>4 DEF Apart, Due
<1>4. ASSUME Distinct(frame.rest), Apart(below),
             Values(frame.rest) \cap Due(below) = {}
      PROVE  Apart(new)
  <2>1. \A i \in 1 .. Len(new) : Distinct(new[i].rest)
    BY <1>1, <1>4 DEF Apart
  <2>2. \A i \in 1 .. Len(below) :
          Values(frame.rest) \cap Values(below[i].rest) = {}
    BY <1>4 DEF Due
  <2>3. ASSUME NEW i \in 1 .. Len(new), NEW j \in 1 .. Len(new), i # j
        PROVE  Values(new[i].rest) \cap Values(new[j].rest) = {}
    <3>. DEFINE V(k) == Values(new[k].rest)
                W(k) == Values(below[k].rest)
    <3>1. V(1) = Values(frame.rest)
      BY <1>1
    <3>2. \A k \in 1 .. Len(new) :
            k = 1 \/ \E l \in 1 .. Len(below) : k = l + 1 /\ V(k) = W(l)
      BY <1>1
    <3>3. \A k, l \in 1 .. Len(below) : k # l => W(k) \cap W(l) = {}
      BY <1>4 DEF Apart
    <3>4. \A k \in 1 .. Len(below) : V(1) \cap W(k) = {}
      BY <2>2, <3>1
    <3>. HIDE DEF V, W
    <3>5. V(i) \cap V(j) = {}
      <4>1. CASE i = 1
        <5>1. PICK l \in 1 .. Len(below) : V(j) = W(l)
          BY <2>3, <3>2, <4>1
        <5>. QED BY <3>4, <4>1, <5>1
      <4>2. CASE j = 1
        <5>1. PICK l \in 1 .. Len(below) : V(i) = W(l)
          BY <2>3, <3>2, <4>2
        <5>. QED BY <3>4, <4>2, <5>1
      <4>3. CASE i # 1 /\ j # 1
        <5>1. PICK k \in 1 .. Len(below) : i = k + 1 /\ V(i) = W(k)
          BY <3>2, <4>3
        <5>2. PICK l \in 1 .. Len(below) : j = l + 1 /\ V(j) = W(l)
          BY <3>2, <4>3
        <5>. QED BY <2>3, <3>3, <5>1, <5>2
      <4>. QED BY <4>1, <4>2, <4>3
    <3>. QED BY <3>5 DEF V
  <2>. QED BY <2>1, <2>3 DEF Apart
<1>. QED BY <1>2, <1>3, <1>4

-----------------------------------------------------------------------------
(* What a call leaves of the frames below it.                              *)

Places == {"callbacks", "clear", "members", "drain", "quit", "exit",
           "optIn", "optOut", "destroy", "capture"}

(* At most the frame of some callbacks has come on top.                    *)
Over(new, below) ==
  /\ new \in Seq(Frame)
  /\ Kinds(below) \subseteq Kinds(new)
  /\ Kinds(new) \subseteq Kinds(below) \cup {"callbacks"}
  /\ Exits(below) => Exits(new)
  /\ Clears(below) => Clears(new)
  /\ Fresh(below) => Fresh(new)
  /\ new = below \/ (new # <<>> /\ Head(new).at = "callbacks")

NotExit(frames) == frames # <<>> => frames[1].at # "exit"

(* The frames hold, with the queue, every callback owed, and are nested as *)
(* the calls nest.                                                         *)
Sound(frames) ==
  EachOnce(queue.callbacks, frames, owed) /\ WellNested(frames)

(* The empty sequence.                                                     *)
LEMMA Empty ==
  /\ Values(<<>>) = {} /\ Distinct(<<>>)
  /\ Kinds(<<>>) = {} /\ Due(<<>>) = {} /\ Apart(<<>>)
  /\ Exits(<<>>) /\ Clears(<<>>) /\ Fresh(<<>>) /\ WellNested(<<>>)
<1>1. 1 .. Len(<<>>) = {}
  OBVIOUS
<1>. QED
  BY <1>1 DEF Values, Distinct, Kinds, Due, Apart, Exits, Clears, Single, Fresh,
              WellNested

(* The frame of what is left of a call.                                    *)
LEMMA RestOnTop ==
  ASSUME NEW at \in Places, NEW below \in Seq(Frame),
         NEW new, new = <<Rest(at)>> \o below
  PROVE  /\ new \in Seq(Frame) /\ new # <<>>
         /\ Head(new) = Rest(at) /\ new[1].at = at /\ Tail(new) = below
         /\ Kinds(new) = {at} \cup Kinds(below)
         /\ Due(new) = Due(below)
         /\ Apart(new) <=> Apart(below)
         /\ Fresh(new) <=> Fresh(below)
         /\ Exits(new) <=>
              Exits(below) /\ (at = "exit" => "exit" \notin Kinds(below))
         /\ Clears(new) <=>
              /\ Clears(below)
              /\ at \in {"clear", "members"} =>
                   Kinds(below) \cap {"clear", "members"} = {}
         /\ WellNested(new) <=>
              /\ WellNested(below)
              /\ at \in {"clear", "members"} =>
                   below # <<>> /\ below[1].at = "optOut"
              /\ at # "drain" => NotExit(below)
<1>1. Rest(at) \in Frame
  BY DEF Rest, Frame, Places
<1>2. Rest(at).at = at /\ Rest(at).rest = <<>> /\ ~Rest(at).stale
  BY DEF Rest
<1>3. /\ OnTop(new, Rest(at), below) /\ new # <<>>
      /\ Head(new) = Rest(at) /\ Tail(new) = below
  BY <1>1, Pushed
<1>4. new \in Seq(Frame) /\ new[1] = Rest(at)
  BY <1>3 DEF OnTop
<1>5. Kinds(new) = {at} \cup Kinds(below)
  BY <1>2, <1>3, KindsOnTop
<1>6. Due(new) = Due(below) /\ (Apart(new) <=> Apart(below))
  <2>1. /\ Due(new) = Values(<<>>) \cup Due(below)
        /\ Apart(new) <=> /\ Distinct(<<>>) /\ Apart(below)
                          /\ Values(<<>>) \cap Due(below) = {}
    BY <1>2, <1>3, DueOnTop
  <2>. QED BY <2>1, Empty
<1>7. Fresh(new) <=> Fresh(below)
  BY <1>2, <1>3, FreshOnTop
<1>8. Exits(new) <=> Exits(below) /\ (at = "exit" => "exit" \notin Kinds(below))
  <2>1. Single(new, {"exit"}) <=>
          /\ Single(below, {"exit"})
          /\ Rest(at).at \in {"exit"} => Kinds(below) \cap {"exit"} = {}
    BY <1>3, SingleOnTop
  <2>. QED BY <1>2, <2>1 DEF Exits
<1>9. Clears(new) <=>
        /\ Clears(below)
        /\ at \in {"clear", "members"} =>
             Kinds(below) \cap {"clear", "members"} = {}
  BY <1>2, <1>3, SingleOnTop DEF Clears
<1>10. WellNested(new) <=>
         /\ WellNested(below)
         /\ at \in {"clear", "members"} =>
              below # <<>> /\ below[1].at = "optOut"
         /\ at # "drain" => NotExit(below)
  <2>1. WellNested(new) <=> WellNested(below) /\ Fits(Rest(at), below)
    BY <1>3, NestedOnTop
  <2>. QED BY <1>2, <2>1 DEF Fits, NotExit
<1>. QED BY <1>2, <1>3, <1>4, <1>5, <1>6, <1>7, <1>8, <1>9, <1>10

(* The same frames, named.                                                 *)
Put(at, below) == <<Rest(at)>> \o below

LEMMA PutOnTop ==
  ASSUME NEW at \in Places, NEW below \in Seq(Frame)
  PROVE  /\ Put(at, below) = <<Rest(at)>> \o below
         /\ Put(at, below) \in Seq(Frame) /\ Put(at, below) # <<>>
         /\ Head(Put(at, below)).at = at /\ Put(at, below)[1].at = at
         /\ Tail(Put(at, below)) = below
         /\ Kinds(Put(at, below)) = {at} \cup Kinds(below)
         /\ Fresh(Put(at, below)) <=> Fresh(below)
         /\ Exits(below) /\ (at = "exit" => "exit" \notin Kinds(below))
              => Exits(Put(at, below))
         /\ /\ Clears(below)
            /\ at \in {"clear", "members"} =>
                 Kinds(below) \cap {"clear", "members"} = {}
            => Clears(Put(at, below))
<1>. DEFINE new == Put(at, below)
<1>1. new = <<Rest(at)>> \o below
  BY DEF Put
<1>. HIDE DEF new
<1>2. /\ new \in Seq(Frame) /\ new # <<>>
      /\ Head(new) = Rest(at) /\ new[1].at = at /\ Tail(new) = below
      /\ Kinds(new) = {at} \cup Kinds(below)
      /\ Fresh(new) <=> Fresh(below)
      /\ Exits(new) <=>
           Exits(below) /\ (at = "exit" => "exit" \notin Kinds(below))
      /\ Clears(new) <=>
           /\ Clears(below)
           /\ at \in {"clear", "members"} =>
                Kinds(below) \cap {"clear", "members"} = {}
  BY <1>1, RestOnTop
<1>3. Rest(at).at = at
  BY DEF Rest
<1>. QED BY <1>1, <1>2, <1>3 DEF new

(* It holds no callbacks.                                                  *)
LEMMA RestDue ==
  ASSUME NEW at \in Places, NEW below \in Seq(Frame)
  PROVE  Due(<<Rest(at)>> \o below) = Due(below)
<1>. DEFINE new == <<Rest(at)>> \o below
<1>1. new = <<Rest(at)>> \o below => Due(new) = Due(below)
  BY RestOnTop
<1>. QED BY <1>1

(* A return: what it says of the frames that remain.                       *)
LEMMA AfterReturn ==
  ASSUME NEW frames \in Seq(Frame), frames # <<>>
  PROVE  /\ Head(frames) \in Frame /\ Tail(frames) \in Seq(Frame)
         /\ frames[1] = Head(frames)
         /\ Kinds(frames) = {Head(frames).at} \cup Kinds(Tail(frames))
         /\ Due(frames) = Values(Head(frames).rest) \cup Due(Tail(frames))
         /\ Apart(frames) <=>
              /\ Distinct(Head(frames).rest) /\ Apart(Tail(frames))
              /\ Values(Head(frames).rest) \cap Due(Tail(frames)) = {}
         /\ Fresh(frames) <=> ~Head(frames).stale /\ Fresh(Tail(frames))
         /\ Exits(frames) =>
              /\ Exits(Tail(frames))
              /\ Head(frames).at = "exit" => "exit" \notin Kinds(Tail(frames))
         /\ Clears(frames) =>
              /\ Clears(Tail(frames))
              /\ Head(frames).at \in {"clear", "members"} =>
                   Kinds(Tail(frames)) \cap {"clear", "members"} = {}
         /\ WellNested(frames) <=>
              WellNested(Tail(frames)) /\ Fits(Head(frames), Tail(frames))
<1>1. OnTop(frames, Head(frames), Tail(frames)) /\ frames[1] = Head(frames)
  BY Popped
<1>2. Head(frames) \in Frame /\ Tail(frames) \in Seq(Frame)
  BY <1>1 DEF OnTop
<1>3. /\ Kinds(frames) = {Head(frames).at} \cup Kinds(Tail(frames))
      /\ Due(frames) = Values(Head(frames).rest) \cup Due(Tail(frames))
      /\ Apart(frames) <=>
           /\ Distinct(Head(frames).rest) /\ Apart(Tail(frames))
           /\ Values(Head(frames).rest) \cap Due(Tail(frames)) = {}
      /\ Fresh(frames) <=> ~Head(frames).stale /\ Fresh(Tail(frames))
      /\ WellNested(frames) <=>
           WellNested(Tail(frames)) /\ Fits(Head(frames), Tail(frames))
  BY <1>1, KindsOnTop, DueOnTop, FreshOnTop, NestedOnTop
<1>4. Single(frames, {"exit"}) <=>
        /\ Single(Tail(frames), {"exit"})
        /\ Head(frames).at \in {"exit"} => Kinds(Tail(frames)) \cap {"exit"} = {}
  BY <1>1, SingleOnTop
<1>5. Single(frames, {"clear", "members"}) <=>
        /\ Single(Tail(frames), {"clear", "members"})
        /\ Head(frames).at \in {"clear", "members"} =>
             Kinds(Tail(frames)) \cap {"clear", "members"} = {}
  BY <1>1, SingleOnTop
<1>. QED BY <1>1, <1>2, <1>3, <1>4, <1>5 DEF Exits, Clears

(* What depends on the kinds of the frames and their callbacks only.       *)
LEMMA SameShape ==
  ASSUME NEW a \in Seq(Frame), NEW b \in Seq(Frame), Len(a) = Len(b),
         \A i \in 1 .. Len(a) : a[i].at = b[i].at /\ a[i].rest = b[i].rest
  PROVE  /\ Apart(a) => Apart(b)
         /\ Exits(a) => Exits(b)
         /\ Clears(a) => Clears(b)
         /\ WellNested(a) => WellNested(b)
<1>. DEFINE At(i) == a[i].at
            Rests(i) == a[i].rest
<1>1. \A i \in 1 .. Len(b) : b[i].at = At(i) /\ b[i].rest = Rests(i)
  OBVIOUS
<1>2. /\ Len(b) \in Nat /\ Len(a) = Len(b)
      /\ \A i \in 1 .. Len(b) : /\ i > 1 => i - 1 \in 1 .. Len(b)
                                /\ i < Len(b) => i + 1 \in 1 .. Len(b)
  OBVIOUS
<1>3. ASSUME Apart(a) PROVE Apart(b)
  <2>1. /\ \A i \in 1 .. Len(b) : Distinct(Rests(i))
        /\ \A i, j \in 1 .. Len(b) :
             i # j => Values(Rests(i)) \cap Values(Rests(j)) = {}
    BY <1>2, <1>3 DEF Apart
  <2>. HIDE DEF Rests, At
  <2>2. \A i \in 1 .. Len(b) : Distinct(b[i].rest)
    BY <1>1, <2>1
  <2>3. \A i \in 1 .. Len(b) : Values(b[i].rest) = Values(Rests(i))
    BY <1>1
  <2>. QED BY <2>1, <2>2, <2>3 DEF Apart
<1>4. (Exits(a) => Exits(b)) /\ (Clears(a) => Clears(b))
  <2>1. \A i \in 1 .. Len(b) : a[i].at = At(i)
    OBVIOUS
  <2>. HIDE DEF Rests, At
  <2>. QED BY <1>1, <1>2, <2>1 DEF Exits, Clears, Single
<1>5. ASSUME WellNested(a) PROVE WellNested(b)
  <2>1. \A i \in 1 .. Len(b) :
          /\ At(i) # "callbacks" => Rests(i) = <<>>
          /\ At(i) \in {"clear", "members"} => i < Len(b) /\ At(i + 1) = "optOut"
          /\ At(i) = "exit" /\ i > 1 => At(i - 1) = "drain"
    BY <1>2, <1>5 DEF WellNested
  <2>. HIDE DEF Rests, At
  <2>2. \A i \in 1 .. Len(b) :
          /\ b[i].at # "callbacks" => b[i].rest = <<>>
          /\ b[i].at \in {"clear", "members"} =>
               i < Len(b) /\ b[i + 1].at = "optOut"
          /\ b[i].at = "exit" /\ i > 1 => b[i - 1].at = "drain"
    BY <1>1, <1>2, <2>1
  <2>. QED BY <2>2 DEF WellNested
<1>. QED BY <1>3, <1>4, <1>5

(* The same frames with some marked stale.                                 *)
LEMMA StaleEffect ==
  ASSUME NEW below \in Seq(Frame), NEW new, new = Stale(below)
  PROVE  /\ new \in Seq(Frame)
         /\ new = <<>> <=> below = <<>>
         /\ below # <<>> => Head(new).at = Head(below).at
         /\ Kinds(new) = Kinds(below)
         /\ Due(new) = Due(below)
         /\ Apart(new) <=> Apart(below)
         /\ Exits(new) <=> Exits(below)
         /\ Clears(new) <=> Clears(below)
         /\ WellNested(new) <=> WellNested(below)
         /\ Fresh(below) /\ "clear" \notin Kinds(below) => Fresh(new)
<1>1. DOMAIN below = 1 .. Len(below) /\ Len(below) \in Nat
  OBVIOUS
<1>2. \A i \in 1 .. Len(below) : below[i] \in Frame
  OBVIOUS
<1>3. \A i \in 1 .. Len(below) :
        [below[i] EXCEPT !.stale = @ \/ below[i].at = "clear"]
          = [at |-> below[i].at, rest |-> below[i].rest, game |-> below[i].game,
             stale |-> below[i].stale \/ below[i].at = "clear"]
  <2>1. \A A, B, C, D : \A f \in [at: A, rest: B, game: C, stale: D] :
          [f EXCEPT !.stale = @ \/ f.at = "clear"]
            = [at |-> f.at, rest |-> f.rest, game |-> f.game,
               stale |-> f.stale \/ f.at = "clear"]
    OBVIOUS
  <2>. QED BY <1>2, <2>1 DEF Frame
<1>4. \A i \in 1 .. Len(below) :
        [below[i] EXCEPT !.stale = @ \/ below[i].at = "clear"] \in Frame
  <2>1. \A f \in Frame, stale \in BOOLEAN :
          [at |-> f.at, rest |-> f.rest, game |-> f.game, stale |-> stale] \in Frame
    BY DEF Frame
  <2>. QED BY <1>2, <1>3, <2>1
<1>5. /\ new \in [1 .. Len(below) -> Frame]
      /\ \A i \in 1 .. Len(below) :
           new[i] = [below[i] EXCEPT !.stale = @ \/ below[i].at = "clear"]
  BY <1>1, <1>4 DEF Stale
<1>6. new \in Seq(Frame) /\ Len(new) = Len(below)
  BY <1>1, <1>5
<1>7. \A i \in 1 .. Len(below) :
        /\ new[i].at = below[i].at /\ new[i].rest = below[i].rest
        /\ new[i].stale = (below[i].stale \/ below[i].at = "clear")
  BY <1>3, <1>5
<1>8. new = <<>> <=> below = <<>>
  BY <1>1, <1>6
<1>9. below # <<>> => Head(new).at = Head(below).at
  <2>1. below # <<>> => 1 \in 1 .. Len(below) /\ Head(new) = new[1]
                                             /\ Head(below) = below[1]
    BY <1>1, <1>6
  <2>. QED BY <1>7, <2>1
<1>10. Kinds(new) = Kinds(below) /\ Due(new) = Due(below)
  BY <1>6, <1>7 DEF Kinds, Due
<1>11. /\ Apart(new) <=> Apart(below)
       /\ Exits(new) <=> Exits(below)
       /\ Clears(new) <=> Clears(below)
       /\ WellNested(new) <=> WellNested(below)
  <2>1. /\ Apart(new) => Apart(below)
        /\ Exits(new) => Exits(below)
        /\ Clears(new) => Clears(below)
        /\ WellNested(new) => WellNested(below)
    BY <1>6, <1>7, SameShape
  <2>2. /\ Apart(below) => Apart(new)
        /\ Exits(below) => Exits(new)
        /\ Clears(below) => Clears(new)
        /\ WellNested(below) => WellNested(new)
    <3>1. \A i \in 1 .. Len(below) :
            below[i].at = new[i].at /\ below[i].rest = new[i].rest
      BY <1>7
    <3>. QED BY <1>6, <3>1, SameShape
  <2>. QED BY <2>1, <2>2
<1>14. ASSUME Fresh(below), "clear" \notin Kinds(below) PROVE Fresh(new)
  <2>1. \A i \in 1 .. Len(below) : below[i].at # "clear"
    BY <1>14 DEF Kinds
  <2>. QED BY <1>6, <1>7, <1>14, <2>1 DEF Fresh
<1>. QED BY <1>6, <1>8, <1>9, <1>10, <1>11, <1>14

(* The end of a flush hands its callbacks to a frame.                      *)
LEMMA AnsweringEffect ==
  ASSUME NEW callbacks \in Seq(Callback), NEW below \in Seq(Frame),
         NEW new, new = Answering(callbacks, below)
  PROVE  /\ Over(new, below)
         /\ callbacks = <<>> => new = below
         /\ Due(new) = Values(callbacks) \cup Due(below)
         /\ Apart(new) <=> /\ Distinct(callbacks) /\ Apart(below)
                           /\ Values(callbacks) \cap Due(below) = {}
         /\ WellNested(below) /\ NotExit(below) => WellNested(new)
<1>1. CASE callbacks = <<>>
  <2>1. new = below
    BY <1>1 DEF Answering
  <2>. QED BY <1>1, <2>1, Empty DEF Over
<1>2. CASE callbacks # <<>>
  <2>. DEFINE frame == [at |-> "callbacks", rest |-> callbacks,
                        game |-> FALSE, stale |-> FALSE]
  <2>1. frame \in Frame /\ frame.at = "callbacks" /\ ~frame.stale
        /\ frame.rest = callbacks
    BY DEF Frame
  <2>2. new = <<frame>> \o below
    BY <1>2 DEF Answering
  <2>. HIDE DEF frame
  <2>3. OnTop(new, frame, below) /\ new # <<>> /\ Head(new) = frame
    BY <2>1, <2>2, Pushed
  <2>4. new \in Seq(Frame)
    BY <2>3 DEF OnTop
  <2>5. /\ Kinds(new) = {"callbacks"} \cup Kinds(below)
        /\ Fresh(new) <=> Fresh(below)
    BY <2>1, <2>3, KindsOnTop, FreshOnTop
  <2>6. /\ Exits(below) => Exits(new)
        /\ Clears(below) => Clears(new)
    BY <2>1, <2>3, SingleOnTop DEF Exits, Clears
  <2>7. /\ Due(new) = Values(callbacks) \cup Due(below)
        /\ Apart(new) <=> /\ Distinct(callbacks) /\ Apart(below)
                          /\ Values(callbacks) \cap Due(below) = {}
    BY <2>1, <2>3, DueOnTop
  <2>8. WellNested(below) /\ NotExit(below) => WellNested(new)
    BY <2>1, <2>3, NestedOnTop DEF Fits, NotExit
  <2>. QED BY <1>2, <2>1, <2>3, <2>4, <2>5, <2>6, <2>7, <2>8 DEF Over
<1>. QED BY <1>1, <1>2

-----------------------------------------------------------------------------
(* Where the callbacks go.                                                 *)

(* A sequence joined to another.                                           *)
LEMMA Joined ==
  ASSUME NEW a \in Seq(Callback), NEW b \in Seq(Callback)
  PROVE  /\ a \o b \in Seq(Callback)
         /\ Values(a \o b) = Values(a) \cup Values(b)
         /\ Distinct(a) /\ Distinct(b) /\ Values(a) \cap Values(b) = {}
              => Distinct(a \o b)
<1>. DEFINE ab == a \o b
<1>1. /\ Len(a) \in Nat /\ Len(b) \in Nat
      /\ ab \in Seq(Callback) /\ Len(ab) = Len(a) + Len(b)
      /\ \A i \in 1 .. Len(a) : i \in 1 .. Len(ab) /\ ab[i] = a[i]
      /\ \A i \in 1 .. Len(b) : Len(a) + i \in 1 .. Len(ab) /\ ab[Len(a) + i] = b[i]
  OBVIOUS
<1>2. \A i \in 1 .. Len(ab) :
        \/ i \in 1 .. Len(a)
        \/ i - Len(a) \in 1 .. Len(b) /\ i = Len(a) + (i - Len(a))
  BY <1>1
<1>. HIDE DEF ab
<1>3. \A i \in 1 .. Len(ab) :
        \/ i \in 1 .. Len(a) /\ ab[i] = a[i]
        \/ \E j \in 1 .. Len(b) : i = Len(a) + j /\ ab[i] = b[j]
  BY <1>1, <1>2
<1>4. Values(ab) = Values(a) \cup Values(b)
  <2>1. Values(ab) \subseteq Values(a) \cup Values(b)
    BY <1>3 DEF Values
  <2>2. Values(a) \subseteq Values(ab)
    <3>1. \A i \in 1 .. Len(a) : a[i] \in Values(ab)
      <4>1. \A i \in 1 .. Len(ab) : ab[i] \in Values(ab)
        BY DEF Values
      <4>. QED BY <1>1, <4>1
    <3>. QED BY <3>1 DEF Values
  <2>3. Values(b) \subseteq Values(ab)
    <3>1. \A i \in 1 .. Len(b) : b[i] \in Values(ab)
      <4>1. \A i \in 1 .. Len(ab) : ab[i] \in Values(ab)
        BY DEF Values
      <4>. QED BY <1>1, <4>1
    <3>. QED BY <3>1 DEF Values
  <2>. QED BY <2>1, <2>2, <2>3
<1>5. ASSUME Distinct(a), Distinct(b), Values(a) \cap Values(b) = {}
      PROVE  Distinct(ab)
  <2>1. \A i \in 1 .. Len(a), j \in 1 .. Len(b) : a[i] # b[j]
    BY <1>5 DEF Values
  <2>. SUFFICES ASSUME NEW k \in 1 .. Len(ab), NEW l \in 1 .. Len(ab), ab[k] = ab[l]
                PROVE  k = l
    BY DEF Distinct
  <2>2. CASE k \in 1 .. Len(a) /\ ab[k] = a[k]
    BY <1>3, <1>5, <2>1, <2>2 DEF Distinct
  <2>3. CASE \E j \in 1 .. Len(b) : k = Len(a) + j /\ ab[k] = b[j]
    BY <1>3, <1>5, <2>1, <2>3 DEF Distinct
  <2>. QED BY <1>3, <2>2, <2>3
<1>. QED BY <1>1, <1>4, <1>5 DEF ab

(* Callbacks nobody holds yet go to a frame of their own.                  *)
LEMMA AnsweredOwed ==
  ASSUME NEW callbacks \in Seq(Callback), NEW below \in Seq(Frame),
         NEW held, NEW due, EachOnce(held, below, due),
         Distinct(callbacks), Values(callbacks) \cap due = {}
  PROVE  EachOnce(held, Answering(callbacks, below), due \cup Values(callbacks))
<1>. DEFINE new == Answering(callbacks, below)
<1>1. /\ Due(new) = Values(callbacks) \cup Due(below)
      /\ Apart(new) <=> /\ Distinct(callbacks) /\ Apart(below)
                        /\ Values(callbacks) \cap Due(below) = {}
  BY AnsweringEffect
<1>. HIDE DEF new
<1>2. EachOnce(held, new, due \cup Values(callbacks))
  BY <1>1 DEF EachOnce
<1>. QED BY <1>2 DEF new

(* Or they join those of the flush in progress.                            *)
LEMMA JoinedOwed ==
  ASSUME NEW callbacks \in Seq(Callback), NEW held \in Seq(Callback),
         NEW below, NEW due, EachOnce(held, below, due),
         Distinct(callbacks), Values(callbacks) \cap due = {}
  PROVE  EachOnce(held \o callbacks, below, due \cup Values(callbacks))
BY Joined DEF EachOnce

(* The end of a flush moves its callbacks to a frame.                      *)
LEMMA CancelledOwed ==
  ASSUME NEW held \in Seq(Callback), NEW below \in Seq(Frame),
         NEW due, EachOnce(held, below, due)
  PROVE  EachOnce(<<>>, Answering(held, below), due)
<1>. DEFINE new == Answering(held, below)
<1>1. /\ Due(new) = Values(held) \cup Due(below)
      /\ Apart(new) <=> /\ Distinct(held) /\ Apart(below)
                        /\ Values(held) \cap Due(below) = {}
  BY AnsweringEffect
<1>. HIDE DEF new
<1>2. EachOnce(<<>>, new, due)
  BY <1>1, Empty DEF EachOnce
<1>. QED BY <1>2 DEF new

-----------------------------------------------------------------------------
(* What each call on the controller does, given the frames below it.       *)

(* The records on disk are counted.                                        *)
LEMMA CountTyped ==
  ASSUME ConsentTypeOK
  PROVE  /\ MaxRecords \in Nat /\ FlushEventCount \in Nat
         /\ disk.saved \in Nat /\ disk.pending \in Nat
         /\ Count \in Nat /\ Count <= MaxRecords
         /\ Count = disk.saved + disk.pending
         /\ disk = [saved |-> disk.saved, pending |-> disk.pending]
BY RecordAssumption DEF ConsentTypeOK, Records, Count

DiskOK == disk \in Records /\ Count <= MaxRecords

(* Waiting for the pipe leaves nothing on it.                              *)
LEMMA WrittenTyped ==
  ASSUME NEW n \in 0 .. MaxRecords, disk' = Written(n)
  PROVE  DiskOK' /\ Count' = n /\ disk'.pending = 0
BY RecordAssumption DEF DiskOK, Records, Count, Written

(* RequestFlush.                                                           *)
LEMMA RequestFlushEffect ==
  ASSUME ConsentTypeOK, QueueInv, NEW callbacks \in Seq(Callback),
         NEW below \in Seq(Frame), RequestFlush(callbacks, below)
  PROVE  /\ UNCHANGED <<settings, saved, controller>>
         /\ DiskOK' /\ Count' <= Count /\ disk'.pending <= disk.pending
         /\ queue' \in Queue /\ queue'.live = queue.live /\ QueueInv'
         /\ ~queue.flushing /\ queue'.flushing => ~controller.shuttingDown
         /\ owed' = owed \cup Values(callbacks)
         /\ Over(stack', below)
         /\ /\ Sound(below) /\ NotExit(below) /\ Distinct(callbacks)
            /\ Values(callbacks) \cap owed = {}
            => Sound(stack)'
<1>1. owed' = owed \cup Values(callbacks)
  <2>1. DOMAIN callbacks = 1 .. Len(callbacks)
    OBVIOUS
  <2>. QED BY <2>1 DEF RequestFlush, Values
<1>2. /\ queue \in Queue /\ queue.callbacks \in Seq(Callback)
      /\ queue.live \in BOOLEAN /\ queue.flushing \in BOOLEAN
      /\ disk \in Records
  BY DEF ConsentTypeOK, Queue
<1>3. UNCHANGED <<settings, saved, controller>>
  BY DEF RequestFlush
<1>4. /\ Count \in Nat /\ Count <= MaxRecords /\ MaxRecords \in Nat
      /\ disk.pending \in Nat
  BY CountTyped
<1>5. UNCHANGED disk => DiskOK' /\ Count' = Count /\ disk'.pending = disk.pending
  BY <1>2, <1>4 DEF DiskOK, Count
<1>6. \A n \in 0 .. Count :
        disk' = Written(n) => DiskOK' /\ Count' = n /\ disk'.pending = 0
  BY <1>4, WrittenTyped
<1>7. ASSUME stack' = Answering(callbacks, below), UNCHANGED queue
      PROVE  /\ queue' \in Queue /\ queue'.live = queue.live /\ QueueInv'
             /\ ~queue.flushing => ~queue'.flushing
             /\ Over(stack', below)
             /\ /\ Sound(below) /\ NotExit(below) /\ Distinct(callbacks)
                /\ Values(callbacks) \cap owed = {}
                => Sound(stack)'
  <2>1. /\ Over(stack', below)
        /\ WellNested(below) /\ NotExit(below) => WellNested(stack')
    BY <1>7, AnsweringEffect
  <2>2. ASSUME Sound(below), NotExit(below), Distinct(callbacks),
               Values(callbacks) \cap owed = {}
        PROVE  Sound(stack)'
    <3>1. EachOnce(queue.callbacks, Answering(callbacks, below),
                   owed \cup Values(callbacks))
      BY <1>2, <2>2, AnsweredOwed DEF Sound
    <3>. QED BY <1>1, <1>7, <2>1, <2>2, <3>1 DEF Sound
  <2>. QED BY <1>2, <1>3, <1>7, <2>1, <2>2 DEF QueueInv
<1>8. ASSUME stack' = below, ~controller.shuttingDown, controller.optedIn,
             queue.live, queue' = Flushing(queue.callbacks \o callbacks)
      PROVE  /\ queue' \in Queue /\ queue'.live = queue.live /\ QueueInv'
             /\ Over(stack', below)
             /\ /\ Sound(below) /\ NotExit(below) /\ Distinct(callbacks)
                /\ Values(callbacks) \cap owed = {}
                => Sound(stack)'
  <2>1. /\ queue'.live = TRUE /\ queue'.flushing = TRUE
        /\ queue'.callbacks = queue.callbacks \o callbacks
        /\ queue' \in Queue
    BY <1>2, <1>8, Joined DEF Flushing, Queue
  <2>2. Over(stack', below)
    BY <1>8 DEF Over
  <2>3. ASSUME Sound(below), Distinct(callbacks), Values(callbacks) \cap owed = {}
        PROVE  Sound(stack)'
    <3>1. EachOnce(queue.callbacks \o callbacks, below, owed \cup Values(callbacks))
      BY <1>2, <2>3, JoinedOwed DEF Sound
    <3>. QED BY <1>1, <1>8, <2>1, <2>3, <3>1 DEF Sound
  <2>. QED BY <1>2, <1>3, <1>8, <2>1, <2>2, <2>3 DEF QueueInv
<1>9. CASE \/ controller.shuttingDown \/ ~controller.optedIn \/ ~queue.live
           \/ (~queue.flushing /\ Count = 0)
  <2>1. stack' = Answering(callbacks, below) /\ UNCHANGED <<disk, queue>>
    BY <1>9 DEF RequestFlush
  <2>. QED BY <1>1, <1>3, <1>4, <1>5, <1>7, <2>1
<1>10. CASE /\ ~controller.shuttingDown /\ controller.optedIn /\ queue.live
            /\ queue.flushing
  <2>1. /\ queue' = Flushing(queue.callbacks \o callbacks)
        /\ stack' = below /\ UNCHANGED disk
    BY <1>10 DEF RequestFlush
  <2>2. DiskOK' /\ Count' <= Count /\ disk'.pending <= disk.pending
    BY <1>4, <1>5, <2>1
  <2>3. /\ queue' \in Queue /\ queue'.live = queue.live /\ QueueInv'
        /\ Over(stack', below)
        /\ /\ Sound(below) /\ NotExit(below) /\ Distinct(callbacks)
           /\ Values(callbacks) \cap owed = {}
           => Sound(stack)'
    BY <1>8, <1>10, <2>1
  <2>. QED BY <1>1, <1>3, <1>10, <2>2, <2>3
<1>11. CASE /\ ~controller.shuttingDown /\ controller.optedIn /\ queue.live
            /\ ~queue.flushing /\ Count # 0
  <2>1. \/ /\ UNCHANGED disk \/ \E n \in 0 .. Count : disk' = Written(n)
           /\ stack' = Answering(callbacks, below) /\ UNCHANGED queue
        \/ /\ queue' = Flushing(callbacks) /\ disk' = Written(Count)
           /\ stack' = below
    BY <1>11 DEF RequestFlush
  <2>2. UNCHANGED disk \/ (\E n \in 0 .. Count : disk' = Written(n))
        => DiskOK' /\ Count' <= Count /\ disk'.pending <= disk.pending
    BY <1>4, <1>5, <1>6
  <2>3. CASE /\ UNCHANGED disk \/ \E n \in 0 .. Count : disk' = Written(n)
             /\ stack' = Answering(callbacks, below) /\ UNCHANGED queue
    BY <1>1, <1>3, <1>7, <2>2, <2>3
  <2>4. CASE /\ queue' = Flushing(callbacks) /\ disk' = Written(Count)
             /\ stack' = below
    <3>1. callbacks = queue.callbacks \o callbacks
      BY <1>11 DEF QueueInv
    <3>2. disk' = Written(Count) => \E n \in 0 .. Count : disk' = Written(n)
      BY <1>4
    <3>. QED BY <1>1, <1>3, <1>8, <1>11, <2>2, <2>4, <3>1, <3>2
  <2>. QED BY <2>1, <2>3, <2>4
<1>. QED BY <1>9, <1>10, <1>11

(* The subsystem's own look at the consent changes nothing.                *)
LEMMA RequestFlushInternalEffect ==
  ASSUME NEW callbacks, NEW below, RequestFlushInternal(callbacks, below)
  PROVE  RequestFlush(callbacks, below)
BY DEF RequestFlushInternal, RequestFlush

(* CancelInFlightRequest, or the destruction of the queue.                 *)
LEMMA CancelEffect ==
  ASSUME ConsentTypeOK, NEW below \in Seq(Frame), UNCHANGED owed,
         CancelInFlightRequest(below) \/ DestroyQueue(below)
  PROVE  /\ queue' \in Queue /\ ~queue'.flushing /\ queue'.callbacks = <<>>
         /\ queue'.live => queue.live
         /\ CancelInFlightRequest(below) => queue'.live = queue.live
         /\ DestroyQueue(below) => queue' = NoQueue
         /\ Over(stack', below)
         /\ queue.callbacks = <<>> => stack' = below
         /\ Sound(below) /\ NotExit(below) => Sound(stack)'
<1>1. /\ queue.live \in BOOLEAN /\ queue.callbacks \in Seq(Callback)
      /\ <<>> \in Seq(Callback)
  BY DEF ConsentTypeOK, Queue
<1>2. CancelInFlightRequest(below) =>
        queue' = [live |-> queue.live, flushing |-> FALSE, callbacks |-> <<>>]
  BY DEF CancelInFlightRequest
<1>3. DestroyQueue(below) =>
        queue' = [live |-> FALSE, flushing |-> FALSE, callbacks |-> <<>>]
  BY DEF DestroyQueue, NoQueue
<1>7. /\ queue' \in Queue /\ ~queue'.flushing /\ queue'.callbacks = <<>>
      /\ queue'.live => queue.live
      /\ CancelInFlightRequest(below) => queue'.live = queue.live
      /\ DestroyQueue(below) => queue' = NoQueue
  <2>1. CASE CancelInFlightRequest(below)
    <3>1. queue' \in Queue
      <4>1. [live |-> queue.live, flushing |-> FALSE, callbacks |-> <<>>] \in Queue
        BY <1>1 DEF Queue
      <4>. QED BY <1>2, <2>1, <4>1
    <3>2. DestroyQueue(below) => queue' = NoQueue
      BY DEF DestroyQueue
    <3>. QED BY <1>1, <1>2, <2>1, <3>1, <3>2
  <2>2. CASE DestroyQueue(below)
    <3>1. queue' \in Queue
      <4>1. [live |-> FALSE, flushing |-> FALSE, callbacks |-> <<>>] \in Queue
        BY <1>1 DEF Queue
      <4>. QED BY <1>3, <2>2, <4>1
    <3>2. queue' = NoQueue
      BY <2>2 DEF DestroyQueue
    <3>. QED BY <1>1, <1>2, <1>3, <2>2, <3>1, <3>2
  <2>. QED BY <2>1, <2>2
<1>4. stack' = Answering(queue.callbacks, below)
  BY DEF CancelInFlightRequest, DestroyQueue
<1>5. /\ Over(stack', below)
      /\ queue.callbacks = <<>> => stack' = below
      /\ WellNested(below) /\ NotExit(below) => WellNested(stack')
  BY <1>1, <1>4, AnsweringEffect
<1>6. ASSUME Sound(below), NotExit(below) PROVE Sound(stack)'
  <2>1. EachOnce(<<>>, Answering(queue.callbacks, below), owed)
    BY <1>1, <1>6, CancelledOwed DEF Sound
  <2>. QED BY <1>7, <1>4, <1>5, <1>6, <2>1 DEF Sound
<1>. QED BY <1>5, <1>6, <1>7

(* A frame put on sound frames, where it fits.                             *)
LEMMA SoundRest ==
  ASSUME NEW at \in Places, NEW below \in Seq(Frame), Sound(below),
         at \in {"clear", "members"} => below # <<>> /\ below[1].at = "optOut",
         at # "drain" => NotExit(below)
  PROVE  Sound(<<Rest(at)>> \o below)
<1>. DEFINE new == <<Rest(at)>> \o below
<1>1. /\ Due(new) = Due(below)
      /\ Apart(new) <=> Apart(below)
      /\ WellNested(new) <=>
           /\ WellNested(below)
           /\ at \in {"clear", "members"} =>
                below # <<>> /\ below[1].at = "optOut"
           /\ at # "drain" => NotExit(below)
  BY RestOnTop
<1>. HIDE DEF new
<1>2. Sound(new)
  BY <1>1 DEF Sound, EachOnce
<1>. QED BY <1>2 DEF new

(* Shutdown, up to the callbacks of the cancelled flush.                   *)
LEMMA ShutdownEffect ==
  ASSUME ConsentTypeOK, NEW below \in Seq(Frame), Shutdown(below)
  PROVE  /\ UNCHANGED <<settings, saved, disk, owed>>
         /\ controller' \in Controller /\ controller'.shuttingDown
         /\ ~controller'.bound
         /\ controller'.optedIn = controller.optedIn
         /\ controller'.storage = controller.storage
         /\ queue' \in Queue /\ queue'.live = queue.live
         /\ ~queue'.flushing /\ QueueInv'
         /\ Over(stack', <<Rest("drain")>> \o below)
         /\ <<Rest("drain")>> \o below \in Seq(Frame)
         /\ stack' # <<>> /\ Head(stack').at \in {"drain", "callbacks"}
         /\ queue.callbacks = <<>> => stack' = <<Rest("drain")>> \o below
         /\ Sound(below) => Sound(stack)'
<1>. DEFINE drain == <<Rest("drain")>> \o below
<1>1. /\ UNCHANGED <<settings, saved, disk, owed>>
      /\ CancelInFlightRequest(drain)
      /\ controller' = [optedIn |-> controller.optedIn, shuttingDown |-> TRUE,
                        storage |-> controller.storage, bound |-> FALSE]
  BY DEF Shutdown
<1>2. controller.optedIn \in BOOLEAN /\ controller.storage \in BOOLEAN
  BY DEF ConsentTypeOK, Controller
<1>3. /\ controller' \in Controller /\ controller'.shuttingDown
      /\ ~controller'.bound
      /\ controller'.optedIn = controller.optedIn
      /\ controller'.storage = controller.storage
  BY <1>1, <1>2 DEF Controller
<1>4. "drain" \in Places
  BY DEF Places
<1>5. /\ drain \in Seq(Frame) /\ drain # <<>> /\ drain[1].at = "drain"
      /\ Head(drain) = Rest("drain")
  <2>1. \A new : new = drain =>
          /\ new \in Seq(Frame) /\ new # <<>> /\ new[1].at = "drain"
          /\ Head(new) = Rest("drain")
    BY <1>4, RestOnTop
  <2>. QED BY <2>1
<1>6. Sound(below) => Sound(drain)
  BY <1>4, SoundRest
<1>. HIDE DEF drain
<1>7. /\ queue' \in Queue /\ ~queue'.flushing /\ queue'.callbacks = <<>>
      /\ queue'.live = queue.live
      /\ Over(stack', drain)
      /\ queue.callbacks = <<>> => stack' = drain
      /\ Sound(drain) /\ NotExit(drain) => Sound(stack)'
  BY <1>1, <1>5, CancelEffect
<1>8. QueueInv'
  BY <1>7 DEF QueueInv
<1>9. NotExit(drain)
  BY <1>5 DEF NotExit
<1>10. stack' # <<>> /\ Head(stack').at \in {"drain", "callbacks"}
  BY <1>5, <1>7 DEF Over, Rest
<1>. QED BY <1>1, <1>3, <1>5, <1>6, <1>7, <1>8, <1>9, <1>10 DEF drain

(* A capture: nothing, or the game's before-send callback.                 *)
LEMMA CaptureEffect ==
  ASSUME ConsentTypeOK, QueueInv, NEW below \in Seq(Frame), Capture(below),
         Sound(below), NotExit(below)
  PROVE  /\ UNCHANGED <<settings, saved, disk, controller, queue, owed>>
         /\ stack' \in {below, Put("capture", below)} /\ stack' \in Seq(Frame)
         /\ stack' # <<>> => Head(stack').at # "exit"
         /\ Sound(stack)'
<1>1. /\ UNCHANGED <<settings, saved, disk, controller, queue, owed>>
      /\ stack' \in {below, Put("capture", below)}
  BY DEF Capture, Put
<1>2. CASE stack' = below
  <2>1. Sound(stack)'
    BY <1>1, <1>2 DEF Sound
  <2>2. stack' # <<>> => Head(stack').at # "exit"
    BY <1>2 DEF NotExit
  <2>. QED BY <1>1, <1>2, <2>1, <2>2
<1>3. CASE stack' = Put("capture", below)
  <2>1. PICK at \in Places : at = "capture" /\ stack' = <<Rest(at)>> \o below
    BY <1>3 DEF Put, Places
  <2>2. Sound(Put("capture", below))
    <3>1. <<Rest(at)>> \o below = Put("capture", below)
      BY <1>3, <2>1
    <3>. QED BY <2>1, <3>1, SoundRest
  <2>3. /\ Put("capture", below) \in Seq(Frame)
        /\ Head(Put("capture", below)).at = "capture"
    <3>1. "capture" \in Places
      BY DEF Places
    <3>. QED BY <3>1, PutOnTop
  <2>4. Sound(stack)'
    BY <1>1, <1>3, <2>2 DEF Sound
  <2>. QED BY <1>1, <1>3, <2>3, <2>4
<1>. QED BY <1>1, <1>2, <1>3

(* The answer to a request.                                                *)
LEMMA RequestCompleteEffect ==
  ASSUME ConsentTypeOK, QueueInv, stack = <<>>, RequestComplete
  PROVE  /\ UNCHANGED <<settings, saved, controller, owed>>
         /\ queue.flushing
         /\ DiskOK' /\ Count' <= Count
         /\ queue' \in Queue /\ queue'.live = queue.live /\ QueueInv'
         /\ Over(stack', stack)
         /\ Sound(stack) => Sound(stack)'
<1>1. queue.flushing /\ UNCHANGED <<settings, saved, controller, owed>>
  BY DEF RequestComplete
<1>2. queue \in Queue /\ disk \in Records /\ stack \in Seq(Frame)
  BY DEF ConsentTypeOK
<1>3. Count \in Nat /\ Count <= MaxRecords /\ MaxRecords \in Nat
  BY CountTyped
<1>4. UNCHANGED disk \/ (\E n \in 0 .. Count : disk' = Written(n))
        => DiskOK' /\ Count' <= Count
  <2>1. UNCHANGED disk => DiskOK' /\ Count' = Count
    BY <1>2, <1>3 DEF DiskOK, Count
  <2>2. \A n \in 0 .. Count : disk' = Written(n) => DiskOK' /\ Count' = n
    BY <1>3, WrittenTyped
  <2>. QED BY <1>3, <2>1, <2>2
<1>5. CASE \E n \in 1 .. Count - 1 :
             disk' = Written(n) /\ UNCHANGED <<queue, stack>>
  <2>1. DiskOK' /\ Count' <= Count
    BY <1>3, <1>4, <1>5
  <2>2. UNCHANGED <<queue, stack>>
    BY <1>5
  <2>3. Over(stack', stack)
    BY <1>2, <2>2 DEF Over
  <2>. QED BY <1>1, <1>2, <2>1, <2>2, <2>3 DEF QueueInv, Sound
<1>6. CASE /\ UNCHANGED disk \/ \E n \in 0 .. Count : disk' = Written(n)
           /\ CancelInFlightRequest(stack)
  <2>1. /\ queue' \in Queue /\ ~queue'.flushing /\ queue'.callbacks = <<>>
        /\ queue'.live = queue.live
        /\ Over(stack', stack)
        /\ Sound(stack) /\ NotExit(stack) => Sound(stack)'
    BY <1>1, <1>2, <1>6, CancelEffect
  <2>2. NotExit(stack)
    BY DEF NotExit
  <2>. QED BY <1>1, <1>4, <1>6, <2>1, <2>2 DEF QueueInv
<1>. QED BY <1>5, <1>6 DEF RequestComplete

(* The consent is written, or the disk is in trouble.                      *)
LEMMA PersistEffect ==
  ASSUME ConsentTypeOK, NEW choice \in {"in", "out"}, PersistOptIn(choice)
  PROVE  saved' \in Choice /\ ("disk" \notin troubles => saved' = choice)
BY DEF ConsentTypeOK, PersistOptIn, Choice

(* EnableCollection.                                                       *)
LEMMA EnableCollectionEffect ==
  ASSUME ConsentTypeOK, QueueInv, ~controller.optedIn,
         NEW shuttingDown \in BOOLEAN, NEW below \in Seq(Frame),
         EnableCollection(shuttingDown, below)
  PROVE  /\ UNCHANGED <<settings, owed>>
         /\ controller' = [optedIn |-> TRUE, shuttingDown |-> shuttingDown,
                           storage |-> TRUE, bound |-> TRUE]
         /\ controller' \in Controller
         /\ saved' \in Choice /\ ("disk" \notin troubles => saved' = "in")
         /\ DiskOK' /\ Count' >= Count
         /\ queue' \in Queue /\ queue'.live /\ QueueInv'
         /\ queue'.flushing => Count' > Count
         /\ stack' = Stale(below) /\ stack' \in Seq(Frame)
         /\ Sound(below) => Sound(stack)'
<1>1. /\ UNCHANGED <<settings, owed>>
      /\ controller' = [optedIn |-> TRUE, shuttingDown |-> shuttingDown,
                        storage |-> TRUE, bound |-> TRUE]
      /\ PersistOptIn("in") /\ stack' = Stale(below)
  BY DEF EnableCollection
<1>2. controller' \in Controller
  BY <1>1 DEF Controller
<1>3. saved' \in Choice /\ ("disk" \notin troubles => saved' = "in")
  BY <1>1, PersistEffect
<1>4. /\ disk \in Records
      /\ Count \in Nat /\ Count <= MaxRecords /\ MaxRecords \in Nat
      /\ disk.saved \in Nat /\ disk.pending \in Nat
      /\ Count = disk.saved + disk.pending
  BY CountTyped DEF ConsentTypeOK
<1>5. \/ disk' = disk /\ queue' = IdleQueue
      \/ \E n \in 1 .. 2 :
           /\ Count + n <= MaxRecords
           /\ \/ /\ disk' = [saved |-> disk.saved, pending |-> disk.pending + n]
                 /\ queue' = IdleQueue
              \/ /\ Count + n >= FlushEventCount
                 /\ disk' = Written(Count + n)
                 /\ queue' = Flushing(<<>>)
  BY DEF EnableCollection
<1>6. queue' = IdleQueue \/ queue' = Flushing(<<>>)
  BY <1>5
<1>7. queue' \in Queue /\ queue'.live /\ queue'.callbacks = <<>>
  <2>1. <<>> \in Seq(Callback)
    OBVIOUS
  <2>2. /\ IdleQueue \in Queue /\ IdleQueue.live /\ IdleQueue.callbacks = <<>>
    BY <2>1 DEF IdleQueue, Queue
  <2>3. /\ Flushing(<<>>) \in Queue /\ Flushing(<<>>).live
        /\ Flushing(<<>>).callbacks = <<>>
    BY <2>1 DEF Flushing, Queue
  <2>. QED BY <1>6, <2>2, <2>3
<1>8. QueueInv'
  BY <1>1, <1>7 DEF QueueInv
<1>9. DiskOK' /\ Count' >= Count /\ (queue'.flushing => Count' > Count)
  <2>1. CASE disk' = disk /\ queue' = IdleQueue
    BY <1>4, <2>1 DEF DiskOK, Count, IdleQueue
  <2>2. ASSUME NEW n \in 1 .. 2, Count + n <= MaxRecords,
               disk' = [saved |-> disk.saved, pending |-> disk.pending + n],
               queue' = IdleQueue
        PROVE  DiskOK' /\ Count' >= Count /\ (queue'.flushing => Count' > Count)
    <3>1. Count' = Count + n
      BY <1>4, <2>2 DEF Count
    <3>2. disk' \in Records
      BY <1>4, <2>2 DEF Records
    <3>. QED BY <1>4, <2>2, <3>1, <3>2 DEF DiskOK, IdleQueue
  <2>3. ASSUME NEW n \in 1 .. 2, Count + n <= MaxRecords,
               disk' = Written(Count + n)
        PROVE  DiskOK' /\ Count' >= Count /\ (queue'.flushing => Count' > Count)
    <3>1. DiskOK' /\ Count' = Count + n
      BY <1>4, <2>3, WrittenTyped
    <3>. QED BY <1>4, <3>1
  <2>. QED BY <1>5, <2>1, <2>2, <2>3
<1>10. stack' \in Seq(Frame)
  BY <1>1, StaleEffect
<1>11. ASSUME Sound(below) PROVE Sound(stack)'
  <2>1. queue.callbacks = <<>>
    BY DEF QueueInv
  <2>2. /\ Due(stack') = Due(below) /\ (Apart(stack') <=> Apart(below))
        /\ WellNested(stack') <=> WellNested(below)
    BY <1>1, StaleEffect
  <2>. QED BY <1>1, <1>7, <1>11, <2>1, <2>2 DEF Sound, EachOnce
<1>. QED BY <1>1, <1>2, <1>3, <1>7, <1>8, <1>9, <1>10, <1>11

(* DisableCollection, up to the callbacks of the cancelled flush.          *)
LEMMA DisableCollectionEffect ==
  ASSUME ConsentTypeOK, QueueInv, NEW below \in Seq(Frame),
         below # <<>>, below[1].at = "optOut", DisableCollection(below)
  PROVE  /\ UNCHANGED <<settings, disk, owed>>
         /\ controller' \in Controller
         /\ ~controller'.optedIn /\ ~controller'.bound
         /\ controller'.shuttingDown = controller.shuttingDown
         /\ controller'.storage = controller.storage
         /\ saved' \in Choice
         /\ queue' \in Queue /\ queue'.live = queue.live
         /\ ~queue'.flushing /\ QueueInv'
         /\ queue.live => saved' = saved
                          /\ Over(stack', <<Rest("clear")>> \o below)
         /\ ~queue.live => stack' = <<Rest("members")>> \o below
         /\ stack' \in Seq(Frame) /\ stack' # <<>>
         /\ Head(stack').at # "exit"
         /\ Sound(below) => Sound(stack)'
<1>1. /\ UNCHANGED <<settings, disk, owed>>
      /\ controller' = [optedIn |-> FALSE,
                        shuttingDown |-> controller.shuttingDown,
                        storage |-> controller.storage, bound |-> FALSE]
  BY DEF DisableCollection, Withdrawn
<1>2. /\ controller.shuttingDown \in BOOLEAN /\ controller.storage \in BOOLEAN
      /\ saved \in Choice /\ queue \in Queue
  BY DEF ConsentTypeOK, Controller
<1>3. /\ controller' \in Controller
      /\ ~controller'.optedIn /\ ~controller'.bound
      /\ controller'.shuttingDown = controller.shuttingDown
      /\ controller'.storage = controller.storage
  BY <1>1, <1>2 DEF Controller
<1>4. "clear" \in Places /\ "members" \in Places
  BY DEF Places
<1>5. NotExit(below)
  BY DEF NotExit
<1>6. CASE queue.live
  <2>. DEFINE clear == <<Rest("clear")>> \o below
  <2>1. CancelInFlightRequest(clear) /\ saved' = saved
    BY <1>6 DEF DisableCollection
  <2>2. \A new : new = clear =>
          new \in Seq(Frame) /\ new # <<>> /\ new[1].at = "clear"
          /\ Head(new) = Rest("clear")
    BY <1>4, RestOnTop
  <2>3. Sound(below) => Sound(clear)
    BY <1>4, <1>5, SoundRest
  <2>4. clear \in Seq(Frame) /\ clear # <<>> /\ clear[1].at = "clear"
        /\ Head(clear) = Rest("clear")
    BY <2>2
  <2>. HIDE DEF clear
  <2>5. NotExit(clear) /\ Head(clear).at # "exit"
    BY <2>4 DEF NotExit, Rest
  <2>6. /\ queue' \in Queue /\ ~queue'.flushing /\ queue'.callbacks = <<>>
        /\ queue'.live = queue.live
        /\ Over(stack', clear)
        /\ Sound(clear) /\ NotExit(clear) => Sound(stack)'
    BY <1>1, <2>1, <2>4, CancelEffect
  <2>7. QueueInv'
    BY <2>6 DEF QueueInv
  <2>8. stack' \in Seq(Frame) /\ stack' # <<>> /\ Head(stack').at # "exit"
    BY <2>4, <2>5, <2>6 DEF Over
  <2>. QED
    BY <1>1, <1>2, <1>3, <1>6, <2>1, <2>3, <2>5, <2>6, <2>7, <2>8 DEF clear
<1>7. CASE ~queue.live
  <2>. DEFINE members == <<Rest("members")>> \o below
  <2>1. stack' = members /\ PersistIfStored("out") /\ queue' = queue
    BY <1>7 DEF DisableCollection
  <2>2. saved' \in Choice
    BY <1>2, <2>1, PersistEffect DEF PersistIfStored
  <2>3. ~queue.flushing /\ queue.callbacks = <<>>
    BY <1>7 DEF QueueInv
  <2>4. QueueInv'
    BY <2>1, <2>3 DEF QueueInv
  <2>5. \A new : new = members =>
          new \in Seq(Frame) /\ new # <<>> /\ Head(new) = Rest("members")
    BY <1>4, RestOnTop
  <2>6. Sound(below) => Sound(members)
    BY <1>4, <1>5, SoundRest
  <2>7. stack' \in Seq(Frame) /\ stack' # <<>> /\ Head(stack') = Rest("members")
    BY <2>1, <2>5
  <2>8. Head(stack').at # "exit"
    BY <2>7 DEF Rest
  <2>9. Sound(below) => Sound(stack)'
    BY <1>1, <2>1, <2>6 DEF Sound
  <2>. QED
    BY <1>1, <1>2, <1>3, <1>7, <2>1, <2>2, <2>3, <2>4, <2>7, <2>8, <2>9
<1>. QED BY <1>6, <1>7

(* What a return finds below it.                                           *)
LEMMA SoundTail ==
  ASSUME stack \in Seq(Frame), stack # <<>>, Sound(stack),
         Head(stack).at # "callbacks"
  PROVE  /\ Tail(stack) \in Seq(Frame) /\ Sound(Tail(stack))
         /\ Head(stack).at # "drain" => NotExit(Tail(stack))
         /\ Head(stack).at \in {"clear", "members"} =>
              Tail(stack) # <<>> /\ Tail(stack)[1].at = "optOut"
<1>1. /\ Tail(stack) \in Seq(Frame)
      /\ Due(stack) = Values(Head(stack).rest) \cup Due(Tail(stack))
      /\ Apart(stack) <=>
           /\ Distinct(Head(stack).rest) /\ Apart(Tail(stack))
           /\ Values(Head(stack).rest) \cap Due(Tail(stack)) = {}
      /\ WellNested(stack) <=>
           WellNested(Tail(stack)) /\ Fits(Head(stack), Tail(stack))
  BY AfterReturn
<1>2. WellNested(Tail(stack)) /\ Fits(Head(stack), Tail(stack))
  BY <1>1 DEF Sound
<1>3. Head(stack).rest = <<>>
  BY <1>2 DEF Fits
<1>4. Sound(Tail(stack))
  BY <1>1, <1>2, <1>3, Empty DEF Sound, EachOnce
<1>. QED BY <1>1, <1>2, <1>4 DEF Fits, NotExit

(* The rest of Clear.                                                      *)
LEMMA ReturnToClearEffect ==
  ASSUME ConsentTypeOK, QueueInv, stack # <<>>, Sound(stack), ReturnToClear
  PROVE  /\ UNCHANGED <<settings, controller, owed>>
         /\ saved' \in Choice
         /\ controller.storage /\ "disk" \notin troubles => saved' = "out"
         /\ DiskOK' /\ Count' <= Count
         /\ "disk" \notin troubles /\ ~Head(stack).stale => Count' = 0
         /\ queue' = NoQueue /\ queue' \in Queue /\ QueueInv'
         /\ Over(stack', <<Rest("members")>> \o Tail(stack))
         /\ Tail(stack) \in Seq(Frame)
         /\ stack' # <<>> /\ Head(stack').at # "exit"
         /\ Sound(stack)'
<1>. DEFINE members == <<Rest("members")>> \o Tail(stack)
<1>1. /\ Head(stack).at = "clear" /\ PersistIfStored("out")
      /\ UNCHANGED <<settings, controller, owed>>
      /\ DestroyQueue(members)
      /\ \/ disk' = Written(0)
         \/ "disk" \in troubles /\ \E n \in 0 .. Count : disk' = Written(n)
         \/ Head(stack).stale /\ UNCHANGED disk
  BY DEF ReturnToClear
<1>2. stack \in Seq(Frame) /\ saved \in Choice /\ disk \in Records
  BY DEF ConsentTypeOK
<1>3. /\ Tail(stack) \in Seq(Frame) /\ Sound(Tail(stack))
      /\ NotExit(Tail(stack))
      /\ Tail(stack) # <<>> /\ Tail(stack)[1].at = "optOut"
  BY <1>1, <1>2, SoundTail
<1>4. "members" \in Places
  BY DEF Places
<1>5. \A new : new = members =>
        new \in Seq(Frame) /\ new # <<>> /\ new[1].at = "members"
        /\ Head(new) = Rest("members")
  BY <1>3, <1>4, RestOnTop
<1>6. Sound(members)
  BY <1>3, <1>4, SoundRest
<1>7. members \in Seq(Frame) /\ members # <<>> /\ members[1].at = "members"
      /\ Head(members) = Rest("members")
  BY <1>5
<1>. HIDE DEF members
<1>8. NotExit(members) /\ Head(members).at # "exit"
  BY <1>7 DEF NotExit, Rest
<1>9. /\ queue' \in Queue /\ ~queue'.flushing /\ queue'.callbacks = <<>>
      /\ queue' = NoQueue
      /\ Over(stack', members)
      /\ Sound(stack)'
  BY <1>1, <1>6, <1>7, <1>8, CancelEffect
<1>10. QueueInv'
  BY <1>9 DEF QueueInv
<1>11. /\ saved' \in Choice
       /\ controller.storage /\ "disk" \notin troubles => saved' = "out"
  BY <1>1, <1>2, PersistEffect DEF PersistIfStored
<1>12. Count \in Nat /\ Count <= MaxRecords /\ MaxRecords \in Nat
  BY CountTyped
<1>13. /\ DiskOK' /\ Count' <= Count
       /\ "disk" \notin troubles /\ ~Head(stack).stale => Count' = 0
  <2>1. \A n \in 0 .. Count : disk' = Written(n) => DiskOK' /\ Count' = n
    BY <1>12, WrittenTyped
  <2>2. UNCHANGED disk => DiskOK' /\ Count' = Count
    BY <1>2, <1>12 DEF DiskOK, Count
  <2>3. 0 \in 0 .. Count
    BY <1>12
  <2>4. CASE disk' = Written(0)
    BY <1>12, <2>1, <2>3, <2>4
  <2>5. CASE "disk" \in troubles /\ \E n \in 0 .. Count : disk' = Written(n)
    BY <1>12, <2>1, <2>5
  <2>6. CASE Head(stack).stale /\ UNCHANGED disk
    BY <1>12, <2>2, <2>6
  <2>. QED BY <1>1, <2>4, <2>5, <2>6
<1>14. stack' # <<>> /\ Head(stack').at # "exit"
  BY <1>7, <1>8, <1>9 DEF Over
<1>. QED BY <1>1, <1>3, <1>9, <1>10, <1>11, <1>13, <1>14 DEF members

(* The rest of DisableCollection, and the wait for the pipe.               *)
LEMMA ReturnEffect ==
  ASSUME ConsentTypeOK, QueueInv, stack # <<>>, Sound(stack),
         ReturnToMembers \/ ReturnToDrain
  PROVE  /\ UNCHANGED <<settings, saved, queue, owed>>
         /\ controller' \in Controller
         /\ controller'.optedIn = controller.optedIn
         /\ controller'.shuttingDown = controller.shuttingDown
         /\ controller'.bound = controller.bound
         /\ ReturnToDrain => controller' = controller
         /\ DiskOK' /\ Count' = Count /\ disk'.pending = 0
         /\ QueueInv'
         /\ stack' = Tail(stack) /\ stack' \in Seq(Frame)
         /\ Sound(stack)'
<1>1. /\ UNCHANGED <<settings, saved, queue, owed>>
      /\ stack' = Tail(stack) /\ disk' = Written(Count)
      /\ Head(stack).at \in {"members", "drain"}
  BY DEF ReturnToMembers, ReturnToDrain
<1>2. controller \in Controller /\ stack \in Seq(Frame)
  BY DEF ConsentTypeOK
<1>3. /\ controller' \in Controller
      /\ controller'.optedIn = controller.optedIn
      /\ controller'.shuttingDown = controller.shuttingDown
      /\ controller'.bound = controller.bound
      /\ ReturnToDrain => controller' = controller
  <2>1. CASE ReturnToMembers
    <3>1. controller' = [optedIn |-> controller.optedIn, storage |-> FALSE,
                         shuttingDown |-> controller.shuttingDown,
                         bound |-> controller.bound]
      BY <2>1 DEF ReturnToMembers
    <3>2. Head(stack).at # "drain"
      BY <2>1 DEF ReturnToMembers
    <3>. QED BY <1>2, <3>1, <3>2 DEF Controller, ReturnToDrain
  <2>2. CASE ReturnToDrain
    BY <1>2, <2>2 DEF ReturnToDrain
  <2>. QED BY <2>1, <2>2
<1>4. Count \in 0 .. MaxRecords
  BY CountTyped
<1>5. DiskOK' /\ Count' = Count /\ disk'.pending = 0
  BY <1>1, <1>4, WrittenTyped
<1>6. QueueInv'
  BY <1>1, <1>3 DEF QueueInv
<1>7. Tail(stack) \in Seq(Frame) /\ Sound(Tail(stack))
  BY <1>1, <1>2, SoundTail
<1>8. Sound(stack)'
  BY <1>1, <1>7 DEF Sound
<1>. QED BY <1>1, <1>3, <1>5, <1>6, <1>7, <1>8

(* The rest of a capture, when the callback has returned.                  *)
LEMMA ReturnToCaptureEffect ==
  ASSUME ConsentTypeOK, QueueInv, stack # <<>>, Sound(stack), ReturnToCapture
  PROVE  /\ UNCHANGED <<settings, saved, controller, owed>>
         /\ DiskOK' /\ Count' >= Count
         /\ Count' > Count => controller.optedIn
         /\ queue' \in Queue /\ queue'.live = queue.live /\ QueueInv'
         /\ ~queue.flushing /\ queue'.flushing => Count' > Count
         /\ stack' = Tail(stack) /\ stack' \in Seq(Frame)
         /\ stack' # <<>> => Head(stack').at # "exit"
         /\ Sound(stack)'
<1>1. /\ UNCHANGED <<settings, saved, controller, owed>>
      /\ stack' = Tail(stack) /\ Head(stack).at = "capture"
  BY DEF ReturnToCapture
<1>2. /\ Sound(Tail(stack)) /\ Tail(stack) \in Seq(Frame)
      /\ NotExit(Tail(stack))
  BY <1>1, SoundTail DEF ConsentTypeOK
<1>3. stack' \in Seq(Frame) /\ (stack' # <<>> => Head(stack').at # "exit")
  BY <1>1, <1>2 DEF NotExit
<1>4. queue'.callbacks = queue.callbacks => Sound(stack)'
  BY <1>1, <1>2 DEF Sound
<1>5. /\ queue \in Queue /\ queue.callbacks \in Seq(Callback)
      /\ queue.live \in BOOLEAN /\ queue.flushing \in BOOLEAN
      /\ disk \in Records
  BY DEF ConsentTypeOK, Queue
<1>6. /\ Count \in Nat /\ Count <= MaxRecords /\ MaxRecords \in Nat
      /\ disk.saved \in Nat /\ disk.pending \in Nat
      /\ Count = disk.saved + disk.pending
  BY CountTyped
<1>7. Count + 1 > Count /\ Count + 1 >= Count /\ Count >= Count
  BY <1>6
<1>8. CASE UNCHANGED <<disk, queue>>
  <2>1. Count' = Count
    BY <1>8 DEF Count
  <2>2. QueueInv' /\ queue' = queue /\ Sound(stack)'
    BY <1>1, <1>4, <1>8 DEF QueueInv
  <2>. QED BY <1>1, <1>3, <1>5, <1>6, <1>8, <2>1, <2>2 DEF DiskOK
<1>9. CASE /\ MayCapture /\ Count < MaxRecords
           /\ disk' = [saved |-> disk.saved, pending |-> disk.pending + 1]
           /\ UNCHANGED queue
  <2>1. Count' = Count + 1
    BY <1>6, <1>9 DEF Count
  <2>2. disk' \in Records
    BY <1>6, <1>9 DEF Records
  <2>3. QueueInv' /\ queue' = queue /\ Sound(stack)'
    BY <1>1, <1>4, <1>9 DEF QueueInv
  <2>4. DiskOK'
    BY <1>6, <1>9, <2>1, <2>2 DEF DiskOK
  <2>5. controller.optedIn
    BY <1>9 DEF MayCapture
  <2>. QED BY <1>1, <1>3, <1>5, <1>7, <2>1, <2>3, <2>4, <2>5
<1>10. CASE /\ MayCapture /\ Count < MaxRecords
            /\ ~queue.flushing /\ disk' = Written(Count + 1)
            /\ queue' = Flushing(<<>>)
  <2>1. DiskOK' /\ Count' = Count + 1
    BY <1>6, <1>10, WrittenTyped
  <2>2. /\ queue'.live = TRUE /\ queue'.flushing = TRUE
        /\ queue'.callbacks = <<>> /\ queue' \in Queue
    BY <1>10 DEF Flushing, Queue
  <2>3. queue.callbacks = <<>>
    BY <1>10 DEF QueueInv
  <2>4. controller.optedIn /\ queue'.live = queue.live
    BY <1>5, <1>10, <2>2 DEF MayCapture
  <2>5. QueueInv' /\ Sound(stack)'
    BY <1>1, <1>4, <2>2, <2>3, <2>4 DEF QueueInv
  <2>. QED BY <1>1, <1>3, <1>7, <2>1, <2>2, <2>4, <2>5
<1>. QED BY <1>8, <1>9, <1>10 DEF ReturnToCapture

(* The next callback is taken from those of a frame.                       *)
LEMMA Taken ==
  ASSUME NEW seq \in Seq(Callback), seq # <<>>
  PROVE  /\ Head(seq) \in Callback /\ Tail(seq) \in Seq(Callback)
         /\ Values(seq) = {Head(seq)} \cup Values(Tail(seq))
         /\ Distinct(seq) => Distinct(Tail(seq)) /\ Head(seq) \notin Values(Tail(seq))
<1>. DEFINE rest == Tail(seq)
<1>1. /\ rest \in Seq(Callback) /\ Head(seq) \in Callback
      /\ Len(rest) \in Nat /\ Len(seq) = Len(rest) + 1
      /\ seq[1] = Head(seq) /\ 1 \in 1 .. Len(seq)
      /\ \A k \in 1 .. Len(rest) :
           k + 1 \in 1 .. Len(seq) /\ k + 1 # 1 /\ seq[k + 1] = rest[k]
  OBVIOUS
<1>2. \A k \in 1 .. Len(seq) :
        k = 1 \/ (k - 1 \in 1 .. Len(rest) /\ k = (k - 1) + 1)
  BY <1>1
<1>. HIDE DEF rest
<1>3. \A k \in 1 .. Len(seq) :
        k = 1 \/ \E l \in 1 .. Len(rest) : k = l + 1 /\ seq[k] = rest[l]
  BY <1>1, <1>2
<1>4. Values(seq) = {Head(seq)} \cup Values(rest)
  <2>1. \A k \in 1 .. Len(seq) : seq[k] \in Values(seq)
    BY DEF Values
  <2>2. Values(rest) \subseteq Values(seq)
    <3>1. \A k \in 1 .. Len(rest) : rest[k] \in Values(seq)
      BY <1>1, <2>1
    <3>. QED BY <3>1 DEF Values
  <2>3. Head(seq) \in Values(seq)
    BY <1>1, <2>1
  <2>4. Values(seq) \subseteq {Head(seq)} \cup Values(rest)
    <3>1. \A l \in 1 .. Len(rest) : rest[l] \in Values(rest)
      BY DEF Values
    <3>2. \A k \in 1 .. Len(seq) : seq[k] \in {Head(seq)} \cup Values(rest)
      BY <1>1, <1>3, <3>1
    <3>. QED BY <3>2 DEF Values
  <2>. QED BY <2>2, <2>3, <2>4
<1>5. ASSUME Distinct(seq) PROVE Distinct(rest) /\ Head(seq) \notin Values(rest)
  <2>1. \A k, l \in 1 .. Len(rest) : rest[k] = rest[l] => k + 1 = l + 1
    BY <1>1, <1>5 DEF Distinct
  <2>2. \A k, l \in 1 .. Len(rest) : k + 1 = l + 1 => k = l
    BY <1>1
  <2>3. \A k \in 1 .. Len(rest) : rest[k] # Head(seq)
    BY <1>1, <1>5 DEF Distinct
  <2>. QED BY <2>1, <2>2, <2>3 DEF Distinct, Values
<1>. QED BY <1>1, <1>4, <1>5 DEF rest

(* A callback is called, or the frame of the callbacks is done.            *)
LEMMA CallNextEffect ==
  ASSUME ConsentTypeOK, stack # <<>>, Sound(stack), CallNext
  PROVE  /\ UNCHANGED <<settings, saved, disk, controller, queue>>
         /\ owed' \subseteq owed
         /\ stack' \in Seq(Frame) /\ Sound(stack)'
         /\ Kinds(stack') \subseteq Kinds(stack) \cup {"quit"}
         /\ Kinds(stack) \subseteq Kinds(stack') \cup {"callbacks"}
         /\ "quit" \in Kinds(stack') /\ "quit" \notin Kinds(stack) =>
              Quit \in owed /\ quit.live
         /\ Exits(stack) => Exits(stack')
         /\ Clears(stack) => Clears(stack')
         /\ Fresh(stack) => Fresh(stack')
         /\ stack' # <<>> => Head(stack').at # "exit"
<1>. DEFINE frame == Head(stack)
            below == Tail(stack)
            called == Head(frame.rest)
            next == [at |-> "callbacks", rest |-> Tail(frame.rest),
                     game |-> called # Quit, stale |-> frame.stale]
<1>1. stack \in Seq(Frame)
  BY DEF ConsentTypeOK
<1>2. /\ frame.at = "callbacks"
      /\ UNCHANGED <<settings, saved, disk, controller, queue>>
      /\ IF frame.rest = <<>>
         THEN stack' = below /\ UNCHANGED owed
         ELSE /\ owed' = owed \ {called}
              /\ stack' = (IF called = Quit /\ quit.live
                           THEN <<Rest("quit"), next>> ELSE <<next>>) \o below
  BY DEF CallNext
<1>3. /\ frame \in Frame /\ below \in Seq(Frame)
      /\ Kinds(stack) = {frame.at} \cup Kinds(below)
      /\ Due(stack) = Values(frame.rest) \cup Due(below)
      /\ Apart(stack) <=>
           /\ Distinct(frame.rest) /\ Apart(below)
           /\ Values(frame.rest) \cap Due(below) = {}
      /\ Fresh(stack) <=> ~frame.stale /\ Fresh(below)
      /\ Exits(stack) => Exits(below)
      /\ Clears(stack) => Clears(below)
      /\ WellNested(stack) <=> WellNested(below) /\ Fits(frame, below)
  BY <1>1, AfterReturn
<1>4. WellNested(below) /\ NotExit(below)
  BY <1>2, <1>3 DEF Sound, Fits, NotExit
<1>5. frame.rest \in Seq(Callback) /\ frame.stale \in BOOLEAN
  BY <1>3 DEF Frame
<1>6. CASE frame.rest = <<>>
  <2>1. stack' = below /\ owed' = owed
    BY <1>2, <1>6
  <2>2. Sound(stack)'
    BY <1>2, <1>3, <1>4, <1>6, <2>1, Empty DEF Sound, EachOnce
  <2>3. stack' # <<>> => Head(stack').at # "exit"
    <3>1. below # <<>> => Head(below) = below[1]
      BY <1>3
    <3>. QED BY <1>4, <2>1, <3>1 DEF NotExit
  <2>4. /\ Kinds(stack') \subseteq Kinds(stack)
        /\ Kinds(stack) \subseteq Kinds(stack') \cup {"callbacks"}
    BY <1>2, <1>3, <2>1
  <2>5. /\ Exits(stack) => Exits(stack')
        /\ Clears(stack) => Clears(stack')
        /\ Fresh(stack) => Fresh(stack')
    BY <1>3, <2>1
  <2>6. stack' \in Seq(Frame)
    BY <1>3, <2>1
  <2>. QED BY <1>2, <2>1, <2>2, <2>3, <2>4, <2>5, <2>6
<1>7. CASE frame.rest # <<>>
  <2>1. /\ called \in Callback /\ Tail(frame.rest) \in Seq(Callback)
        /\ Values(frame.rest) = {called} \cup Values(Tail(frame.rest))
        /\ Distinct(frame.rest) =>
             /\ Distinct(Tail(frame.rest))
             /\ called \notin Values(Tail(frame.rest))
    BY <1>5, <1>7, Taken
  <2>2. /\ next \in Frame /\ next.at = "callbacks"
        /\ next.rest = Tail(frame.rest) /\ next.stale = frame.stale
    BY <1>5, <2>1 DEF Frame
  <2>3. /\ owed' = owed \ {called}
        /\ stack' = (IF called = Quit /\ quit.live
                     THEN <<Rest("quit"), next>> ELSE <<next>>) \o below
    BY <1>2, <1>7
  <2>. DEFINE shorter == <<next>> \o below
  <2>. HIDE DEF next
  <2>4. /\ OnTop(shorter, next, below) /\ shorter # <<>> /\ Head(shorter) = next
    BY <1>3, <2>2, Pushed
  <2>5. shorter \in Seq(Frame) /\ shorter[1] = next
    BY <2>4 DEF OnTop
  <2>6. /\ Kinds(shorter) = {"callbacks"} \cup Kinds(below)
        /\ Fresh(shorter) <=> ~frame.stale /\ Fresh(below)
        /\ Due(shorter) = Values(Tail(frame.rest)) \cup Due(below)
        /\ Apart(shorter) <=>
             /\ Distinct(Tail(frame.rest)) /\ Apart(below)
             /\ Values(Tail(frame.rest)) \cap Due(below) = {}
    BY <2>2, <2>4, KindsOnTop, FreshOnTop, DueOnTop
  <2>7. /\ Exits(below) => Exits(shorter)
        /\ Clears(below) => Clears(shorter)
    BY <2>2, <2>4, SingleOnTop DEF Exits, Clears
  <2>8. WellNested(shorter) /\ NotExit(shorter)
    <3>1. Fits(next, below)
      BY <1>4, <2>2 DEF Fits, NotExit
    <3>. QED BY <1>4, <2>2, <2>4, <2>5, <3>1, NestedOnTop DEF NotExit
  <2>9. called \in owed
    BY <1>3, <2>1 DEF Sound, EachOnce
  <2>10. EachOnce(queue.callbacks, shorter, owed \ {called})
    <3>1. /\ Distinct(queue.callbacks) /\ Apart(stack)
          /\ Values(queue.callbacks) \cap Due(stack) = {}
          /\ owed = Values(queue.callbacks) \cup Due(stack)
      BY DEF Sound, EachOnce
    <3>2. /\ Due(stack) = {called} \cup Due(shorter)
          /\ called \notin Due(shorter) /\ Apart(shorter)
      BY <1>3, <2>1, <2>6, <3>1
    <3>. QED BY <3>1, <3>2 DEF EachOnce
  <2>11. CASE ~(called = Quit /\ quit.live)
    <3>1. stack' = shorter
      BY <2>3, <2>11
    <3>. HIDE DEF shorter, called, frame, below
    <3>2. Sound(stack)'
      BY <1>2, <2>3, <2>8, <2>10, <3>1 DEF Sound
    <3>3. /\ Kinds(stack') = Kinds(stack)
          /\ Exits(stack) => Exits(stack')
          /\ Clears(stack) => Clears(stack')
          /\ Fresh(stack) => Fresh(stack')
      BY <1>2, <1>3, <2>6, <2>7, <3>1
    <3>4. Head(stack').at # "exit"
      BY <2>2, <2>4, <3>1
    <3>. QED BY <1>2, <2>3, <2>5, <3>1, <3>2, <3>3, <3>4
  <2>12. CASE called = Quit /\ quit.live
    <3>1. stack' = <<Rest("quit"), next>> \o below
      BY <2>3, <2>12
    <3>2. stack' = <<Rest("quit")>> \o shorter
      <4>1. Rest("quit") \in Frame
        BY DEF Rest, Frame
      <4>. QED BY <1>3, <2>2, <3>1, <4>1
    <3>3. "quit" \in Places
      BY DEF Places
    <3>. HIDE DEF shorter, called, frame, below
    <3>4. /\ stack' \in Seq(Frame) /\ stack' # <<>> /\ Head(stack') = Rest("quit")
          /\ Kinds(stack') = {"quit"} \cup Kinds(shorter)
          /\ Due(stack') = Due(shorter)
          /\ Apart(stack') <=> Apart(shorter)
          /\ Fresh(stack') <=> Fresh(shorter)
          /\ Exits(stack') <=> Exits(shorter)
          /\ Clears(stack') <=> Clears(shorter)
          /\ WellNested(stack') <=> WellNested(shorter) /\ NotExit(shorter)
      <4>1. PICK at \in Places : at = "quit" /\ stack' = <<Rest(at)>> \o shorter
        BY <3>2, <3>3
      <4>2. Kinds(stack') = {at} \cup Kinds(shorter)
        BY <2>5, <4>1, RestOnTop
      <4>8. Due(stack') = Due(shorter)
        BY <2>5, <4>1, RestDue
      <4>4. Apart(stack') <=> Apart(shorter)
        BY <2>5, <4>1, RestOnTop
      <4>5. Fresh(stack') <=> Fresh(shorter)
        BY <2>5, <4>1, RestOnTop
      <4>6. stack' \in Seq(Frame) /\ stack' # <<>>
        BY <2>5, <4>1, RestOnTop
      <4>7. Head(stack') = Rest(at)
        BY <2>5, <4>1, RestOnTop
      <4>3. /\ Exits(stack') <=>
                 Exits(shorter) /\ (at = "exit" => "exit" \notin Kinds(shorter))
            /\ Clears(stack') <=>
                 /\ Clears(shorter)
                 /\ at \in {"clear", "members"} =>
                      Kinds(shorter) \cap {"clear", "members"} = {}
            /\ WellNested(stack') <=>
                 /\ WellNested(shorter)
                 /\ at \in {"clear", "members"} =>
                      shorter # <<>> /\ shorter[1].at = "optOut"
                 /\ at # "drain" => NotExit(shorter)
        BY <2>5, <4>1, RestOnTop
      <4>. QED BY <4>1, <4>2, <4>8, <4>3, <4>4, <4>5, <4>6, <4>7
    <3>5. Sound(stack)'
      BY <1>2, <2>3, <2>8, <2>10, <3>4 DEF Sound, EachOnce
    <3>6. Head(stack').at # "exit"
      BY <3>4 DEF Rest
    <3>7. /\ Kinds(stack') = {"quit"} \cup Kinds(stack)
          /\ Exits(stack) => Exits(stack')
          /\ Clears(stack) => Clears(stack')
          /\ Fresh(stack) => Fresh(stack')
      BY <1>2, <1>3, <2>6, <2>7, <3>4
    <3>8. Quit \in owed /\ quit.live
      BY <2>9, <2>12
    <3>. QED BY <1>2, <2>3, <3>4, <3>5, <3>6, <3>7, <3>8
  <2>. QED BY <2>11, <2>12
<1>. QED BY <1>6, <1>7

-----------------------------------------------------------------------------
(* What a step must do to keep each part of the invariant.                 *)

Passing == {"callbacks", "drain", "quit", "exit", "destroy", "capture"}

(* No opting in or out has come or gone, nor the rest of one.              *)
SameChoices(new, old) ==
  /\ Kinds(new) \subseteq Kinds(old) \cup Passing
  /\ Kinds(old) \subseteq Kinds(new) \cup Passing
  /\ Clears(old) => Clears(new)
  /\ Fresh(old) => Fresh(new)

(* The types, from the fields.                                             *)
LEMMA TypesKept ==
  ASSUME TypeOK, settings' \in Settings, saved' \in Choice, DiskOK',
         controller' \in Controller, queue' \in Queue, stack' \in Seq(Frame),
         owed' \subseteq Callback, troubles' = troubles, runtime' \in Runtime,
         quit' \in Coordinator, exits' \in Nat,
         wish' \in {"none", "in", "out"}, nested' \in 0 .. MaxNested
  PROVE  TypeOK'
BY DEF TypeOK, ConsentTypeOK, DiskOK, Count

(* A step that changes neither the consent nor its file.                   *)
LEMMA ConsentKept ==
  ASSUME IInv, UNCHANGED <<settings, saved, wish, troubles>>,
         controller'.optedIn = controller.optedIn,
         controller'.storage = controller.storage,
         queue'.live = queue.live,
         runtime'.phase \in {"running", "deinitialized"} => Exists,
         runtime'.phase = "running" => runtime' = runtime,
         SameChoices(stack', stack),
         Count' \in Nat, Count' > Count => controller.optedIn
  PROVE  HandlersInv' /\ SteadyInv' /\ ConsentInv' /\ PlainInv'
<1>1. HandlersInv /\ SteadyInv /\ ConsentInv /\ PlainInv /\ Count \in Nat
  BY CountTyped DEF IInv, TypeOK
<1>2. /\ Kinds(stack') \subseteq Kinds(stack) \cup Passing
      /\ Kinds(stack) \subseteq Kinds(stack') \cup Passing
      /\ Clears(stack) => Clears(stack')
      /\ Fresh(stack) => Fresh(stack')
  BY DEF SameChoices
<1>3. \A at \in {"clear", "members", "optIn", "optOut"} :
        at \in Kinds(stack') <=> at \in Kinds(stack)
  BY <1>2 DEF Passing
<1>4. HandlersInv'
  BY <1>1, <1>3 DEF HandlersInv, Running
<1>5. SteadyInv'
  BY <1>1, <1>2, <1>3 DEF SteadyInv, Exists
<1>6. ConsentInv'
  BY <1>1 DEF ConsentInv
<1>7. PlainInv'
  <2>. SUFFICES ASSUME troubles = {} PROVE PlainInv'
    BY DEF PlainInv
  <2>1. StaysOut' <=> StaysOut
    BY DEF StaysOut
  <2>2. Count' > 0 => saved = "in"
    BY <1>1 DEF PlainInv, ConsentInv
  <2>. QED BY <1>1, <1>3, <2>1, <2>2 DEF PlainInv, Exists
<1>. QED BY <1>4, <1>5, <1>6, <1>7

(* A step of a subsystem that lives on.                                    *)
LEMMA PhaseKept ==
  ASSUME IInv, Exists, runtime'.phase = runtime.phase,
         controller.shuttingDown => controller'.shuttingDown,
         quit'.live => quit.live \/ Running,
         "destroy" \in Kinds(stack') => "destroy" \in Kinds(stack)
  PROVE  PhaseInv'
BY DEF IInv, PhaseInv, Exists, Running

(* A step the coordinator has no part in.                                  *)
LEMMA QuitKept ==
  ASSUME IInv, quit' = quit, owed' \subseteq owed \cup Callbacks,
         "quit" \in Kinds(stack') =>
           "quit" \in Kinds(stack) \/ (Quit \in owed /\ quit.live)
  PROVE  QuitInv'
BY CallbackAssumption DEF IInv, QuitInv

(* A step that neither asks for an exit nor comes nearer to it.            *)
LEMMA ExitKept ==
  ASSUME IInv, quit' = quit, exits' = exits, Exits(stack) => Exits(stack'),
         "exit" \in Kinds(stack') => "exit" \in Kinds(stack),
         stack' # <<>> => Head(stack').at # "exit" \/ disk'.pending = 0
  PROVE  ExitInv'
BY DEF IInv, ExitInv, Idle

(* All of it together.                                                     *)
LEMMA AllKept ==
  ASSUME TypeOK', QueueInv', Sound(stack)', PhaseInv', QuitInv', ExitInv',
         HandlersInv', SteadyInv', ConsentInv', PlainInv'
  PROVE  IInv'
BY DEF IInv, AnswersInv, Sound

(* What a call of the game finds.                                          *)
LEMMA GameCallsEffect ==
  ASSUME IInv, NEW call, GameCalls(call)
  PROVE  /\ Exists /\ NotExit(stack) /\ nested' \in 0 .. MaxNested
         /\ stack # <<>> => /\ call \in CallbackCalls \cup (troubles \cap {"optIn"})
                            /\ Head(stack).at \in {"callbacks", "capture"}
<1>1. nested \in 0 .. MaxNested /\ MaxNested \in Nat /\ stack \in Seq(Frame)
  BY CallAssumption DEF IInv, TypeOK, ConsentTypeOK
<1>2. nested' \in 0 .. MaxNested
  BY <1>1 DEF GameCalls
<1>3. stack # <<>> => /\ call \in CallbackCalls \cup (troubles \cap {"optIn"})
                      /\ Head(stack).at \in {"callbacks", "capture"}
  BY DEF GameCalls, Idle
<1>4. NotExit(stack)
  BY <1>1, <1>3 DEF NotExit
<1>. QED BY <1>2, <1>3, <1>4 DEF GameCalls

(* A call that at most adds a frame of some callbacks, after one of the    *)
(* wait for the pipe or of a capture.                                      *)
LEMMA CallKeeps ==
  ASSUME IInv, Exists,
         UNCHANGED <<settings, saved, wish, troubles, runtime, quit, exits>>,
         nested' \in 0 .. MaxNested,
         controller' \in Controller,
         controller'.optedIn = controller.optedIn,
         controller'.storage = controller.storage,
         controller.shuttingDown => controller'.shuttingDown,
         DiskOK', Count' > Count => controller.optedIn,
         queue' \in Queue, queue'.live = queue.live, QueueInv',
         owed' \subseteq owed \cup Callbacks,
         Sound(stack)', NEW at \in {"drain", "capture"},
         NEW base \in {stack, Put(at, stack)}, Over(stack', base),
         stack' # <<>> => Head(stack').at # "exit"
  PROVE  IInv'
<1>1. TypeOK /\ ConsentTypeOK
  BY DEF IInv, TypeOK
<1>2. Count' \in Nat
  BY RecordAssumption DEF DiskOK, Records, Count
<1>3. /\ Kinds(stack) \subseteq Kinds(base)
      /\ Kinds(base) \subseteq Kinds(stack) \cup {at}
      /\ Exits(stack) => Exits(base)
      /\ Clears(stack) => Clears(base)
      /\ Fresh(stack) => Fresh(base)
  <2>1. CASE base = stack
    BY <2>1
  <2>2. CASE base = Put(at, stack)
    <3>1. stack \in Seq(Frame) /\ at \in Places
      BY <1>1 DEF ConsentTypeOK, Places
    <3>2. Kinds(base) = {at} \cup Kinds(stack)
      BY <2>2, <3>1, PutOnTop
    <3>3. /\ Exits(stack) => Exits(base)
          /\ Clears(stack) => Clears(base)
          /\ Fresh(stack) => Fresh(base)
      BY <2>2, <3>1, PutOnTop
    <3>. QED BY <3>2, <3>3
  <2>. QED BY <2>1, <2>2
<1>4. /\ stack' \in Seq(Frame)
      /\ Kinds(stack) \subseteq Kinds(stack')
      /\ Kinds(stack') \subseteq Kinds(stack) \cup {"callbacks", "drain", "capture"}
      /\ Exits(stack) => Exits(stack')
      /\ Clears(stack) => Clears(stack')
      /\ Fresh(stack) => Fresh(stack')
  BY <1>3 DEF Over
<1>5. TypeOK'
  <2>1. owed' \subseteq Callback
    BY <1>1 DEF ConsentTypeOK, Callback
  <2>. QED BY <1>1, <1>4, <2>1, TypesKept DEF TypeOK, ConsentTypeOK
<1>6. SameChoices(stack', stack)
  BY <1>4 DEF SameChoices, Passing
<1>7. HandlersInv' /\ SteadyInv' /\ ConsentInv' /\ PlainInv'
  BY <1>2, <1>6, ConsentKept DEF Exists
<1>8. PhaseInv'
  BY <1>4, PhaseKept
<1>9. QuitInv'
  BY <1>4, QuitKept
<1>10. ExitInv'
  BY <1>4, ExitKept
<1>. QED BY <1>5, <1>7, <1>8, <1>9, <1>10, AllKept

-----------------------------------------------------------------------------
(* The calls of the game and the callbacks of the engine.                  *)

(* The invariant, for what the effects of the calls ask for.               *)
LEMMA Known ==
  ASSUME IInv
  PROVE  /\ TypeOK /\ ConsentTypeOK /\ QueueInv /\ Sound(stack)
         /\ stack \in Seq(Frame) /\ controller \in Controller
BY DEF IInv, TypeOK, ConsentTypeOK, AnswersInv, Sound

(* A capture, by the game or by the handler of a failed ensure.            *)
LEMMA CaptureKeeps ==
  ASSUME IInv, CaptureEvent \/ EnsureFailed
  PROVE  IInv'
<1>1. /\ Exists /\ NotExit(stack) /\ nested' \in 0 .. MaxNested
      /\ Capture(stack)
      /\ UNCHANGED <<runtime, quit, exits, wish, troubles>>
  <2>1. CASE CaptureEvent
    BY <2>1, GameCallsEffect DEF CaptureEvent
  <2>2. CASE EnsureFailed
    BY <2>2, Known DEF EnsureFailed, Idle, NotExit, TypeOK
  <2>. QED BY <2>1, <2>2
<1>2. /\ UNCHANGED <<settings, saved, disk, controller, queue, owed>>
      /\ stack' \in {stack, Put("capture", stack)} /\ stack' \in Seq(Frame)
      /\ stack' # <<>> => Head(stack').at # "exit"
      /\ Sound(stack)'
  BY <1>1, Known, CaptureEffect
<1>3. /\ DiskOK' /\ ~(Count' > Count)
      /\ queue' \in Queue /\ queue'.live = queue.live /\ QueueInv'
  BY <1>2, Known, CountTyped DEF DiskOK, Count, ConsentTypeOK, QueueInv
<1>4. Over(stack', stack')
  BY <1>2 DEF Over
<1>. QED BY <1>1, <1>2, <1>3, <1>4, Known, CallKeeps

(* A flush asked for by the game or by the timer.                          *)
LEMMA FlushKeeps ==
  ASSUME IInv, FlushQueuedEvents \/ \E callback \in Callbacks : Flush(callback)
  PROVE  IInv'
<1>1. PICK callbacks \in Seq(Callback) :
        /\ Distinct(callbacks) /\ Values(callbacks) \cap owed = {}
        /\ Values(callbacks) \subseteq Callbacks
        /\ Exists /\ NotExit(stack) /\ nested' \in 0 .. MaxNested
        /\ RequestFlushInternal(callbacks, stack)
        /\ UNCHANGED <<runtime, quit, exits, wish, troubles>>
  <2>1. CASE FlushQueuedEvents
    <3>1. <<>> \in Seq(Callback)
      OBVIOUS
    <3>. QED BY <2>1, <3>1, Known, Empty
           DEF FlushQueuedEvents, Idle, NotExit, TypeOK
  <2>2. CASE \E callback \in Callbacks : Flush(callback)
    <3>1. PICK callback \in Callbacks : Flush(callback)
      BY <2>2
    <3>2. /\ <<callback>> \in Seq(Callback)
          /\ Distinct(<<callback>>) /\ Values(<<callback>>) = {callback}
      BY DEF Callback, Distinct, Values
    <3>3. GameCalls("flush") /\ callback \notin owed
          /\ RequestFlushInternal(<<callback>>, stack)
          /\ UNCHANGED <<runtime, quit, exits, wish, troubles>>
      BY <3>1 DEF Flush
    <3>4. Exists /\ NotExit(stack) /\ nested' \in 0 .. MaxNested
      BY <3>3, GameCallsEffect
    <3>. QED BY <3>2, <3>3, <3>4
  <2>. QED BY <2>1, <2>2
<1>2. RequestFlush(callbacks, stack)
  BY <1>1, RequestFlushInternalEffect
<1>3. /\ UNCHANGED <<settings, saved, controller>>
      /\ DiskOK' /\ Count' <= Count
      /\ queue' \in Queue /\ queue'.live = queue.live /\ QueueInv'
      /\ owed' = owed \cup Values(callbacks)
      /\ Over(stack', stack)
      /\ Sound(stack)'
  BY <1>1, <1>2, Known, RequestFlushEffect
<1>4. stack' # <<>> => Head(stack').at # "exit"
  BY <1>1, <1>3, Known DEF NotExit, Over
<1>5. ~(Count' > Count)
  BY <1>3, Known, CountTyped, RecordAssumption DEF DiskOK, Records, Count
<1>. QED BY <1>1, <1>3, <1>4, <1>5, Known, CallKeeps

(* The background handler: a flush, then the wait for the pipe.            *)
LEMMA BackgroundKeeps ==
  ASSUME IInv, ApplicationWillEnterBackground
  PROVE  IInv'
<1>. DEFINE base == <<Rest("drain")>> \o stack
<1>1. /\ Exists /\ stack = <<>> /\ nested' \in 0 .. MaxNested
      /\ RequestFlush(<<>>, base)
      /\ UNCHANGED <<runtime, quit, exits, wish, troubles>>
  BY Known DEF ApplicationWillEnterBackground,
               HandleApplicationEnteringBackground, Idle, TypeOK
<1>2. <<>> \in Seq(Callback)
  OBVIOUS
<1>3. base = Put("drain", stack) /\ "drain" \in Places
  BY DEF Places, Put
<1>4. /\ base \in Seq(Frame) /\ base # <<>> /\ Head(base).at = "drain"
      /\ base[1].at = "drain"
  <2>. HIDE DEF base
  <2>. QED BY <1>3, Known, PutOnTop
<1>5. Sound(base)
  <2>1. PICK at \in Places : at = "drain" /\ base = <<Rest(at)>> \o stack
    BY <1>3
  <2>. QED BY <2>1, Known, SoundRest
<1>6. NotExit(base)
  BY <1>4 DEF NotExit
<1>7. base \in {stack, Put("drain", stack)}
  BY DEF Put
<1>. HIDE DEF base
<1>8. /\ UNCHANGED <<settings, saved, controller>>
      /\ DiskOK' /\ Count' <= Count
      /\ queue' \in Queue /\ queue'.live = queue.live /\ QueueInv'
      /\ owed' = owed \cup Values(<<>>)
      /\ Over(stack', base)
      /\ Sound(stack)'
  BY <1>1, <1>2, <1>4, <1>5, <1>6, Known, Empty, RequestFlushEffect
<1>9. owed' = owed
  BY <1>8, Empty
<1>10. stack' # <<>> => Head(stack').at # "exit"
  BY <1>4, <1>8 DEF Over
<1>11. ~(Count' > Count)
  BY <1>8, Known, CountTyped, RecordAssumption DEF DiskOK, Records, Count
<1>. QED BY <1>1, <1>7, <1>8, <1>9, <1>10, <1>11, Known, CallKeeps

(* Shutdown, by the engine's exit or the application's end.                *)
LEMMA ShutdownKeeps ==
  ASSUME IInv, HandleEnginePreExit \/ ApplicationWillTerminate
  PROVE  IInv'
<1>1. /\ Exists /\ nested' \in 0 .. MaxNested
      /\ Shutdown(stack)
      /\ UNCHANGED <<runtime, quit, exits, wish, troubles>>
  BY Known DEF HandleEnginePreExit, ApplicationWillTerminate, Exists, Running,
               TypeOK
<1>2. /\ UNCHANGED <<settings, saved, disk, owed>>
      /\ controller' \in Controller /\ controller'.shuttingDown
      /\ controller'.optedIn = controller.optedIn
      /\ controller'.storage = controller.storage
      /\ queue' \in Queue /\ queue'.live = queue.live /\ QueueInv'
      /\ Over(stack', Put("drain", stack))
      /\ stack' # <<>> /\ Head(stack').at \in {"drain", "callbacks"}
      /\ Sound(stack)'
  BY <1>1, Known, ShutdownEffect DEF Put
<1>3. DiskOK' /\ ~(Count' > Count)
  BY <1>2, Known, CountTyped DEF DiskOK, Count, ConsentTypeOK
<1>. QED BY <1>1, <1>2, <1>3, Known, CallKeeps

(* The answer to a request.                                                *)
LEMMA AnswerKeeps ==
  ASSUME IInv, AnswerArrives
  PROVE  IInv'
<1>1. /\ stack = <<>> /\ RequestComplete /\ nested' \in 0 .. MaxNested
      /\ UNCHANGED <<runtime, quit, exits, wish, troubles>>
  BY Known DEF AnswerArrives, Idle, TypeOK
<1>2. /\ UNCHANGED <<settings, saved, controller, owed>>
      /\ queue.flushing /\ DiskOK' /\ Count' <= Count
      /\ queue' \in Queue /\ queue'.live = queue.live /\ QueueInv'
      /\ Over(stack', stack)
      /\ Sound(stack)'
  BY <1>1, Known, RequestCompleteEffect
<1>3. Exists
  <2>1. runtime.phase # "destroying"
    <3>1. stack \notin Teardowns
      BY <1>1 DEF Teardowns
    <3>. QED BY <3>1 DEF IInv, PhaseInv
  <2>2. queue # NoQueue
    BY <1>2 DEF NoQueue
  <2>3. runtime.phase \notin {"down", "destroyed"}
    BY <2>2 DEF IInv, PhaseInv, Blank
  <2>. QED BY <2>1, <2>3, Known DEF TypeOK, Runtime, Exists
<1>4. stack' # <<>> => Head(stack').at # "exit"
  BY <1>1, <1>2 DEF Over
<1>5. ~(Count' > Count)
  BY <1>2, Known, CountTyped, RecordAssumption DEF DiskOK, Records, Count
<1>. QED BY <1>1, <1>2, <1>3, <1>4, <1>5, Known, CallKeeps

(* The write pipe.                                                         *)
LEMMA PipeKeeps ==
  ASSUME IInv, PipeRuns
  PROVE  IInv'
<1>1. /\ disk.pending > 0
      /\ disk' = [saved |-> disk.saved + 1, pending |-> disk.pending - 1]
      /\ UNCHANGED <<settings, saved, controller, queue, stack, owed>>
      /\ UNCHANGED <<runtime, quit, exits, wish, nested, troubles>>
  BY DEF PipeRuns, WriteTask
<1>2. /\ disk.saved \in Nat /\ disk.pending \in Nat
      /\ Count = disk.saved + disk.pending /\ Count <= MaxRecords
      /\ MaxRecords \in Nat
  BY Known, CountTyped
<1>3. /\ disk'.saved \in 0 .. MaxRecords /\ disk'.pending \in 0 .. MaxRecords
      /\ disk' = [saved |-> disk'.saved, pending |-> disk'.pending]
      /\ disk'.saved + disk'.pending = Count
  BY <1>1, <1>2
<1>4. DiskOK' /\ Count' = Count
  BY <1>2, <1>3 DEF DiskOK, Count, Records
<1>5. TypeOK'
  BY <1>1, <1>4, Known, TypesKept DEF TypeOK, ConsentTypeOK
<1>6. SameChoices(stack', stack)
  BY <1>1 DEF SameChoices
<1>7. HandlersInv' /\ SteadyInv' /\ ConsentInv' /\ PlainInv'
  BY <1>1, <1>2, <1>4, <1>6, ConsentKept DEF Exists
<1>8. QueueInv' /\ Sound(stack)' /\ PhaseInv' /\ QuitInv'
  BY <1>1, Known DEF IInv, QueueInv, Sound, PhaseInv, Blank, QuitInv
<1>9. ExitInv'
  BY <1>1, <1>2 DEF IInv, ExitInv, Idle
<1>. QED BY <1>5, <1>7, <1>8, <1>9, AllKept

-----------------------------------------------------------------------------
(* The game thread goes on with the frame in front.                        *)

(* No frame but those of the destructor outlives the subsystem.            *)
LEMMA FrameAlive ==
  ASSUME IInv, stack # <<>>
  PROVE  /\ runtime.phase \in {"running", "deinitialized", "destroying"}
         /\ Head(stack).at \notin {"drain", "destroy"} => Exists
         /\ runtime.phase = "destroying" =>
              \/ Head(stack).at = "drain" /\ Tail(stack) = <<Rest("destroy")>>
              \/ Head(stack).at = "destroy" /\ Tail(stack) = <<>>
<1>1. runtime.phase \in {"running", "deinitialized", "destroying"}
  BY Known DEF IInv, PhaseInv, Blank, TypeOK, Runtime
<1>2. ASSUME runtime.phase = "destroying"
      PROVE  \/ Head(stack).at = "drain" /\ Tail(stack) = <<Rest("destroy")>>
             \/ Head(stack).at = "destroy" /\ Tail(stack) = <<>>
  <2>1. stack \in {<<Rest("drain"), Rest("destroy")>>, <<Rest("destroy")>>}
    BY <1>2 DEF IInv, PhaseInv, Teardowns
  <2>2. Rest("drain").at = "drain" /\ Rest("destroy").at = "destroy"
    BY DEF Rest
  <2>3. CASE stack = <<Rest("drain"), Rest("destroy")>>
    <3>1. \A a, b : Head(<<a, b>>) = a /\ Tail(<<a, b>>) = <<b>>
      OBVIOUS
    <3>2. Head(stack) = Rest("drain") /\ Tail(stack) = <<Rest("destroy")>>
      BY <2>3, <3>1
    <3>. QED BY <2>2, <3>2
  <2>4. CASE stack = <<Rest("destroy")>>
    BY <2>2, <2>4
  <2>. QED BY <2>1, <2>3, <2>4
<1>. QED BY <1>1, <1>2 DEF Exists

(* The bound on the calls from callbacks.                                  *)
LEMMA NestedKept ==
  ASSUME IInv, nested' = IF stack' = <<>> THEN 0 ELSE nested
  PROVE  nested' \in 0 .. MaxNested
BY CallAssumption, Known DEF TypeOK

(* The next callback, or the end of them.                                  *)
LEMMA CallNextKeeps ==
  ASSUME IInv, stack # <<>>, CallNext, nested' \in 0 .. MaxNested
  PROVE  IInv'
<1>1. /\ UNCHANGED <<settings, saved, disk, controller, queue>>
      /\ owed' \subseteq owed
      /\ stack' \in Seq(Frame) /\ Sound(stack)'
      /\ Kinds(stack') \subseteq Kinds(stack) \cup {"quit"}
      /\ Kinds(stack) \subseteq Kinds(stack') \cup {"callbacks"}
      /\ "quit" \in Kinds(stack') /\ "quit" \notin Kinds(stack) =>
           Quit \in owed /\ quit.live
      /\ Exits(stack) => Exits(stack')
      /\ Clears(stack) => Clears(stack')
      /\ Fresh(stack) => Fresh(stack')
      /\ stack' # <<>> => Head(stack').at # "exit"
  BY Known, CallNextEffect
<1>2. UNCHANGED <<runtime, quit, exits, wish, troubles>>
      /\ Head(stack).at = "callbacks"
  BY DEF CallNext
<1>3. Exists
  BY <1>2, FrameAlive
<1>4. TypeOK'
  BY <1>1, <1>2, Known, TypesKept, CountTyped
     DEF TypeOK, ConsentTypeOK, DiskOK, Count
<1>5. SameChoices(stack', stack)
  BY <1>1 DEF SameChoices, Passing
<1>6. HandlersInv' /\ SteadyInv' /\ ConsentInv' /\ PlainInv'
  <2>1. Count' = Count /\ Count \in Nat
    BY <1>1, Known, CountTyped DEF Count
  <2>. QED BY <1>1, <1>2, <1>5, <2>1, ConsentKept DEF Exists
<1>7. PhaseInv'
  BY <1>1, <1>2, <1>3, PhaseKept
<1>8. QuitInv'
  BY <1>1, <1>2, QuitKept
<1>9. ExitInv'
  BY <1>1, <1>2, ExitKept
<1>10. QueueInv'
  BY <1>1, Known DEF QueueInv
<1>. QED BY <1>1, <1>4, <1>6, <1>7, <1>8, <1>9, <1>10, AllKept

(* The frames left by a return.                                            *)
LEMMA TailKept ==
  ASSUME IInv, stack # <<>>
  PROVE  /\ Head(stack) \in Frame /\ Tail(stack) \in Seq(Frame)
         /\ Kinds(stack) = {Head(stack).at} \cup Kinds(Tail(stack))
         /\ Fresh(stack) => ~Head(stack).stale /\ Fresh(Tail(stack))
         /\ Exits(stack) => Exits(Tail(stack))
         /\ Exits(stack) /\ Head(stack).at = "exit" =>
              "exit" \notin Kinds(Tail(stack))
         /\ Clears(stack) => Clears(Tail(stack))
         /\ Clears(stack) /\ Head(stack).at \in {"clear", "members"} =>
              Kinds(Tail(stack)) \cap {"clear", "members"} = {}
BY Known, AfterReturn

(* Below all but the wait for the pipe lies no request to exit.            *)
LEMMA NoExitBelow ==
  ASSUME IInv, stack # <<>>, Head(stack).at \notin {"callbacks", "drain"}
  PROVE  /\ NotExit(Tail(stack))
         /\ Tail(stack) # <<>> => Head(Tail(stack)).at # "exit"
<1>1. Tail(stack) \in Seq(Frame) /\ NotExit(Tail(stack))
  BY Known, SoundTail
<1>. QED BY <1>1 DEF NotExit

(* The end of the wait for the pipe.                                       *)
LEMMA DrainKeeps ==
  ASSUME IInv, stack # <<>>, ReturnToDrain, nested' \in 0 .. MaxNested,
         UNCHANGED <<runtime, quit, exits, wish, troubles>>
  PROVE  IInv'
<1>1. /\ UNCHANGED <<settings, saved, queue, owed, controller>>
      /\ DiskOK' /\ Count' = Count /\ disk'.pending = 0
      /\ QueueInv'
      /\ stack' = Tail(stack) /\ stack' \in Seq(Frame)
      /\ Sound(stack)'
  BY Known, ReturnEffect DEF ReturnToDrain
<1>2. Head(stack).at = "drain"
  BY DEF ReturnToDrain
<1>3. /\ Kinds(stack) = {"drain"} \cup Kinds(stack')
      /\ Fresh(stack) => Fresh(stack')
      /\ Exits(stack) => Exits(stack')
      /\ Clears(stack) => Clears(stack')
  BY <1>1, <1>2, TailKept
<1>4. TypeOK'
  BY <1>1, Known, TypesKept DEF TypeOK, ConsentTypeOK
<1>5. HandlersInv' /\ SteadyInv' /\ ConsentInv' /\ PlainInv'
  <2>1. SameChoices(stack', stack)
    BY <1>3 DEF SameChoices, Passing
  <2>2. Count \in Nat
    BY Known, CountTyped
  <2>. QED BY <1>1, <2>1, <2>2, ConsentKept DEF Exists
<1>6. PhaseInv'
  <2>1. CASE runtime.phase = "destroying"
    <3>1. stack' \in Teardowns
      BY <1>1, <1>2, <2>1, FrameAlive DEF Teardowns
    <3>. QED BY <1>1, <2>1, <3>1 DEF IInv, PhaseInv
  <2>2. CASE Exists
    BY <1>1, <1>3, <2>2, PhaseKept
  <2>. QED BY <2>1, <2>2, FrameAlive DEF Exists
<1>7. QuitInv'
  BY <1>1, <1>3, QuitKept
<1>8. ExitInv'
  BY <1>1, <1>3, ExitKept
<1>. QED BY <1>1, <1>4, <1>5, <1>6, <1>7, <1>8, AllKept

(* The end of a capture.                                                   *)
LEMMA CapturedKeeps ==
  ASSUME IInv, stack # <<>>, ReturnToCapture, nested' \in 0 .. MaxNested,
         UNCHANGED <<runtime, quit, exits, wish, troubles>>
  PROVE  IInv'
<1>1. /\ UNCHANGED <<settings, saved, controller, owed>>
      /\ DiskOK' /\ Count' >= Count
      /\ Count' > Count => controller.optedIn
      /\ queue' \in Queue /\ queue'.live = queue.live /\ QueueInv'
      /\ stack' = Tail(stack) /\ stack' \in Seq(Frame)
      /\ stack' # <<>> => Head(stack').at # "exit"
      /\ Sound(stack)'
  BY Known, ReturnToCaptureEffect
<1>2. Head(stack).at = "capture"
  BY DEF ReturnToCapture
<1>3. /\ Kinds(stack) = {"capture"} \cup Kinds(stack')
      /\ Fresh(stack) => Fresh(stack')
      /\ Exits(stack) => Exits(stack')
      /\ Clears(stack) => Clears(stack')
  BY <1>1, <1>2, TailKept
<1>4. Exists
  BY <1>2, FrameAlive
<1>5. TypeOK'
  BY <1>1, Known, TypesKept DEF TypeOK, ConsentTypeOK
<1>6. HandlersInv' /\ SteadyInv' /\ ConsentInv' /\ PlainInv'
  <2>1. SameChoices(stack', stack)
    BY <1>3 DEF SameChoices, Passing
  <2>2. Count' \in Nat
    BY <1>1, RecordAssumption DEF DiskOK, Records, Count
  <2>. QED BY <1>1, <2>1, <2>2, ConsentKept DEF Exists
<1>7. PhaseInv'
  BY <1>1, <1>3, <1>4, PhaseKept
<1>8. QuitInv'
  BY <1>1, <1>3, QuitKept
<1>9. ExitInv'
  BY <1>1, <1>3, ExitKept
<1>. QED BY <1>1, <1>5, <1>6, <1>7, <1>8, <1>9, AllKept

(* The members have gone: the opt-out is done but for its own frame.       *)
LEMMA MembersKeeps ==
  ASSUME IInv, stack # <<>>, ReturnToMembers, nested' \in 0 .. MaxNested,
         UNCHANGED <<runtime, quit, exits, wish, troubles>>
  PROVE  IInv'
<1>1. /\ UNCHANGED <<settings, saved, queue, owed>>
      /\ controller' \in Controller
      /\ controller'.optedIn = controller.optedIn
      /\ controller'.shuttingDown = controller.shuttingDown
      /\ DiskOK' /\ Count' = Count /\ disk'.pending = 0
      /\ QueueInv'
      /\ stack' = Tail(stack) /\ stack' \in Seq(Frame)
      /\ Sound(stack)'
  BY Known, ReturnEffect DEF ReturnToMembers
<1>2. Head(stack).at = "members"
  BY DEF ReturnToMembers
<1>3. /\ Kinds(stack) = {"members"} \cup Kinds(stack')
      /\ Fresh(stack) => Fresh(stack')
      /\ Exits(stack) => Exits(stack')
      /\ Clears(stack) =>
           Clears(stack') /\ Kinds(stack') \cap {"clear", "members"} = {}
  BY <1>1, <1>2, TailKept
<1>4. "optOut" \in Kinds(stack')
  <2>1. Tail(stack) # <<>> /\ Tail(stack)[1].at = "optOut"
    BY <1>2, Known, SoundTail
  <2>2. 1 \in 1 .. Len(Tail(stack))
    BY <1>1, <2>1
  <2>3. "optOut" \in Kinds(Tail(stack))
    BY <2>1, <2>2 DEF Kinds
  <2>. QED BY <1>1, <2>3
<1>5. TypeOK'
  BY <1>1, Known, TypesKept DEF TypeOK, ConsentTypeOK
<1>6. Exists
  BY <1>2, FrameAlive
<1>7. HandlersInv'
  BY <1>4 DEF HandlersInv
<1>8. SteadyInv'
  BY <1>1, <1>3 DEF IInv, SteadyInv
<1>9. ConsentInv'
  BY <1>1 DEF IInv, ConsentInv
<1>10. PlainInv'
  <2>. SUFFICES ASSUME troubles = {} PROVE PlainInv'
    BY DEF PlainInv
  <2>1. StaysOut' <=> StaysOut
    BY <1>1 DEF StaysOut
  <2>2. "clear" \notin Kinds(stack)
    BY <1>3 DEF IInv, SteadyInv
  <2>. QED BY <1>1, <1>6, <2>1, <2>2 DEF IInv, PlainInv, Exists
<1>11. PhaseInv'
  BY <1>1, <1>3, <1>6, PhaseKept
<1>12. QuitInv'
  BY <1>1, <1>3, QuitKept
<1>13. ExitInv'
  BY <1>1, <1>3, ExitKept
<1>. QED BY <1>1, <1>5, <1>7, <1>8, <1>9, <1>10, <1>11, <1>12, <1>13, AllKept

(* The rest of Clear: the records are gone and the choice is written.      *)
LEMMA ClearKeeps ==
  ASSUME IInv, stack # <<>>, ReturnToClear, nested' \in 0 .. MaxNested,
         UNCHANGED <<runtime, quit, exits, wish, troubles>>
  PROVE  IInv'
<1>. DEFINE rest == Put("members", Tail(stack))
<1>1. /\ UNCHANGED <<settings, controller, owed>>
      /\ saved' \in Choice
      /\ controller.storage /\ "disk" \notin troubles => saved' = "out"
      /\ DiskOK' /\ Count' <= Count
      /\ "disk" \notin troubles /\ ~Head(stack).stale => Count' = 0
      /\ queue' = NoQueue /\ queue' \in Queue /\ QueueInv'
      /\ Over(stack', rest)
      /\ stack' # <<>> /\ Head(stack').at # "exit"
      /\ Sound(stack)'
  BY Known, ReturnToClearEffect DEF Put
<1>2. Head(stack).at = "clear"
  BY DEF ReturnToClear
<1>3. /\ Kinds(stack) = {"clear"} \cup Kinds(Tail(stack))
      /\ Fresh(stack) => ~Head(stack).stale /\ Fresh(Tail(stack))
      /\ Exits(stack) => Exits(Tail(stack))
      /\ Clears(stack) => /\ Clears(Tail(stack))
                          /\ Kinds(Tail(stack)) \cap {"clear", "members"} = {}
      /\ Tail(stack) \in Seq(Frame)
  BY <1>2, TailKept
<1>4. /\ Kinds(rest) = {"members"} \cup Kinds(Tail(stack))
      /\ Fresh(Tail(stack)) => Fresh(rest)
      /\ Exits(Tail(stack)) => Exits(rest)
      /\ Clears(Tail(stack)) /\ Kinds(Tail(stack)) \cap {"clear", "members"} = {}
           => Clears(rest)
  <2>1. "members" \in Places
    BY DEF Places
  <2>. QED BY <1>3, <2>1, PutOnTop
<1>. HIDE DEF rest
<1>5. /\ stack' \in Seq(Frame)
      /\ Kinds(stack') \subseteq Kinds(Tail(stack)) \cup {"members", "callbacks"}
      /\ Kinds(Tail(stack)) \cup {"members"} \subseteq Kinds(stack')
      /\ Fresh(stack) => Fresh(stack')
      /\ Exits(stack) => Exits(stack')
      /\ Clears(stack) => Clears(stack') /\ "clear" \notin Kinds(stack')
  BY <1>1, <1>3, <1>4 DEF Over
<1>6. "optOut" \in Kinds(stack')
  <2>1. Tail(stack) # <<>> /\ Tail(stack)[1].at = "optOut"
    BY <1>2, Known, SoundTail
  <2>2. "optOut" \in Kinds(Tail(stack))
    BY <1>3, <2>1 DEF Kinds
  <2>. QED BY <1>5, <2>2
<1>7. TypeOK'
  BY <1>1, <1>5, Known, TypesKept DEF TypeOK, ConsentTypeOK
<1>8. Exists
  BY <1>2, FrameAlive
<1>9. HandlersInv'
  BY <1>6 DEF HandlersInv
<1>10. "optIn" \notin troubles =>
         ~controller.optedIn /\ controller.storage /\ ~Head(stack).stale
  BY <1>3 DEF IInv, SteadyInv
<1>11. SteadyInv'
  BY <1>1, <1>5, <1>10 DEF IInv, SteadyInv
<1>12. ConsentInv'
  BY <1>1, <1>10 DEF ConsentInv
<1>13. PlainInv'
  <2>. SUFFICES ASSUME troubles = {} PROVE PlainInv'
    BY DEF PlainInv
  <2>1. saved' = "out" /\ Count' = 0 /\ ~controller.optedIn
    BY <1>1, <1>10
  <2>2. StaysOut'
    BY <2>1 DEF StaysOut
  <2>. QED BY <1>1, <2>1, <2>2 DEF PlainInv
<1>14. PhaseInv'
  BY <1>1, <1>3, <1>5, <1>8, PhaseKept
<1>15. QuitInv'
  BY <1>1, <1>3, <1>5, QuitKept
<1>16. ExitInv'
  BY <1>1, <1>3, <1>5, ExitKept
<1>. QED BY <1>1, <1>7, <1>9, <1>11, <1>12, <1>13, <1>14, <1>15, <1>16, AllKept

(* The timer is set or cleared, or there is no World to do it.             *)
LEMMA TimerSet ==
  ASSUME IInv
  PROVE  /\ \A timer \in StartFlushTimer :
              timer \in BOOLEAN /\ ("world" \notin troubles => timer = TRUE)
         /\ \A timer \in StopFlushTimer :
              timer \in BOOLEAN /\ ("world" \notin troubles => timer = FALSE)
<1>1. runtime.timer \in BOOLEAN
  BY Known DEF TypeOK, Runtime
<1>. QED BY <1>1 DEF StartFlushTimer, StopFlushTimer, WithoutWorld

(* The rest of SetAnalyticsOptIn: the choice has come to its end.          *)
LEMMA ChoiceKeeps ==
  ASSUME IInv, stack # <<>>, ReturnToSetAnalyticsOptIn,
         nested' \in 0 .. MaxNested
  PROVE  IInv'
<1>1. /\ Head(stack).at \in {"optIn", "optOut"}
      /\ \E timer \in IF controller.optedIn THEN StartFlushTimer ELSE StopFlushTimer :
           runtime' = Subsystem(runtime.phase, timer,
                                UpdateExceptionCaptureRegistration)
      /\ wish' = Fulfilled
      /\ stack' = Tail(stack)
      /\ UNCHANGED <<settings, saved, disk, controller, queue, owed, quit,
                     exits, troubles>>
  BY DEF ReturnToSetAnalyticsOptIn
<1>2. /\ Kinds(stack) = {Head(stack).at} \cup Kinds(stack')
      /\ stack' \in Seq(Frame)
      /\ Fresh(stack) => Fresh(stack')
      /\ Exits(stack) => Exits(stack')
      /\ Clears(stack) => Clears(stack')
  BY <1>1, TailKept
<1>3. stack' # <<>> => Head(stack').at # "exit"
  BY <1>1, NoExitBelow
<1>4. Exists
  BY <1>1, FrameAlive
<1>5. /\ runtime'.phase = runtime.phase
      /\ "world" \notin troubles => runtime'.timer = controller.optedIn
      /\ runtime'.ensure = (Running /\ settings.exceptions /\ controller.optedIn)
      /\ runtime' \in Runtime
  <2>1. controller.optedIn \in BOOLEAN /\ runtime.phase \in
          {"down", "running", "deinitialized", "destroying", "destroyed"}
    BY Known DEF TypeOK, Runtime, Controller
  <2>2. UpdateExceptionCaptureRegistration \in BOOLEAN
    BY DEF UpdateExceptionCaptureRegistration
  <2>3. PICK timer \in IF controller.optedIn THEN StartFlushTimer ELSE StopFlushTimer :
          runtime' = Subsystem(runtime.phase, timer,
                               UpdateExceptionCaptureRegistration)
    BY <1>1
  <2>4. timer \in BOOLEAN /\ ("world" \notin troubles => timer = controller.optedIn)
    BY <2>1, TimerSet
  <2>. QED BY <2>1, <2>2, <2>3, <2>4
         DEF Subsystem, Runtime, UpdateExceptionCaptureRegistration
<1>6. wish' \in {"none", "in", "out"}
  BY <1>1, Known DEF Fulfilled, TypeOK
<1>7. Sound(stack)'
  <2>1. Sound(Tail(stack))
    BY <1>1, Known, SoundTail
  <2>. QED BY <1>1, <2>1 DEF Sound
<1>8. DiskOK' /\ QueueInv' /\ TypeOK'
  <2>1. DiskOK'
    BY <1>1, Known, CountTyped DEF DiskOK, Count, ConsentTypeOK
  <2>2. QueueInv'
    BY <1>1, Known DEF QueueInv
  <2>. QED BY <1>1, <1>2, <1>5, <1>6, <2>1, <2>2, Known, TypesKept
         DEF TypeOK, ConsentTypeOK
<1>9. HandlersInv'
  BY <1>1, <1>5 DEF HandlersInv, Running
<1>10. SteadyInv'
  BY <1>1, <1>2, <1>4, <1>5 DEF IInv, SteadyInv, Exists
<1>11. ConsentInv'
  BY <1>1 DEF IInv, ConsentInv
<1>12. PlainInv'
  <2>. SUFFICES ASSUME troubles = {} PROVE PlainInv'
    BY <1>1 DEF PlainInv
  <2>1. StaysOut' <=> StaysOut
    BY <1>1 DEF StaysOut
  <2>2. "clear" \in Kinds(stack') <=> "clear" \in Kinds(stack)
    BY <1>1, <1>2
  <2>3. Count' = Count
    BY <1>1 DEF Count
  <2>4. wish' = "out" => ~controller.optedIn /\ StaysOut
    <3>1. CASE wish' = wish
      BY <3>1 DEF IInv, PlainInv
    <3>2. CASE Head(stack).at = "optOut" /\
               ~\E i \in 2 .. Len(stack) : stack[i].at \in {"optIn", "optOut"}
      <4>1. ~controller.optedIn
        BY <1>2, <3>2 DEF IInv, SteadyInv
      <4>2. "clear" \notin Kinds(stack)
        <5>. SUFFICES ASSUME NEW i \in 1 .. Len(stack), stack[i].at = "clear"
                      PROVE  FALSE
          BY DEF Kinds
        <5>1. i < Len(stack) /\ stack[i + 1].at = "optOut"
          BY Known DEF Sound, WellNested
        <5>2. Len(stack) \in Nat
          BY Known
        <5>3. i + 1 \in 2 .. Len(stack)
          BY <5>1, <5>2
        <5>. QED BY <3>2, <5>1, <5>3
      <4>. QED BY <1>4, <4>1, <4>2 DEF IInv, PlainInv
    <3>3. wish' = "out" => wish' = wish \/
            (/\ Head(stack).at = "optOut"
             /\ ~\E i \in 2 .. Len(stack) : stack[i].at \in {"optIn", "optOut"})
      BY <1>1 DEF Fulfilled
    <3>. QED BY <3>1, <3>2, <3>3
  <2>5. /\ saved \in {"none", "in", "out"}
        /\ Count' > 0 => saved = "in"
        /\ saved = "in" => settings.valid
        /\ ~controller.optedIn /\ "clear" \notin Kinds(stack') => StaysOut
    BY <1>4, <2>2, <2>3 DEF IInv, PlainInv
  <2>. QED BY <1>1, <2>1, <2>4, <2>5 DEF PlainInv
<1>13. PhaseInv'
  BY <1>1, <1>2, <1>4, <1>5, PhaseKept
<1>14. QuitInv'
  BY <1>1, <1>2, QuitKept
<1>15. ExitInv'
  BY <1>1, <1>2, <1>3, ExitKept
<1>. QED
  BY <1>7, <1>8, <1>9, <1>10, <1>11, <1>12, <1>13, <1>14, <1>15, AllKept

(* The engine is asked to exit.                                            *)
LEMMA ExitKeeps ==
  ASSUME IInv, stack # <<>>, ReturnToFinalizeQuit, nested' \in 0 .. MaxNested
  PROVE  IInv'
<1>1. /\ Head(stack).at = "exit"
      /\ exits' = exits + 1
      /\ stack' = Tail(stack)
      /\ UNCHANGED <<settings, saved, disk, controller, queue, owed,
                     runtime, quit, wish, troubles>>
  BY DEF ReturnToFinalizeQuit
<1>2. /\ Kinds(stack) = {"exit"} \cup Kinds(stack')
      /\ stack' \in Seq(Frame)
      /\ Fresh(stack) => Fresh(stack')
      /\ Exits(stack) => Exits(stack') /\ "exit" \notin Kinds(stack')
      /\ Clears(stack) => Clears(stack')
  BY <1>1, TailKept
<1>3. stack' # <<>> => Head(stack').at # "exit"
  BY <1>1, NoExitBelow
<1>4. Exists
  BY <1>1, FrameAlive
<1>5. quit.finalized /\ exits = 0 /\ exits' = 1
  BY <1>1, <1>2 DEF IInv, ExitInv
<1>6. Sound(stack)'
  <2>1. Sound(Tail(stack))
    BY <1>1, Known, SoundTail
  <2>. QED BY <1>1, <2>1 DEF Sound
<1>7. DiskOK' /\ QueueInv' /\ TypeOK'
  <2>1. DiskOK'
    BY <1>1, Known, CountTyped DEF DiskOK, Count, ConsentTypeOK
  <2>2. QueueInv'
    BY <1>1, Known DEF QueueInv
  <2>. QED BY <1>1, <1>2, <1>5, <2>1, <2>2, Known, TypesKept
         DEF TypeOK, ConsentTypeOK
<1>8. HandlersInv' /\ SteadyInv' /\ ConsentInv' /\ PlainInv'
  <2>1. SameChoices(stack', stack)
    BY <1>2 DEF SameChoices, Passing
  <2>2. Count' = Count /\ Count \in Nat
    BY <1>1, Known, CountTyped DEF Count
  <2>. QED BY <1>1, <2>1, <2>2, ConsentKept DEF Exists
<1>9. PhaseInv'
  BY <1>1, <1>2, <1>4, PhaseKept
<1>10. QuitInv'
  BY <1>1, <1>2, QuitKept
<1>11. ExitInv'
  BY <1>1, <1>2, <1>3, <1>5 DEF IInv, ExitInv, Idle
<1>. QED BY <1>6, <1>7, <1>8, <1>9, <1>10, <1>11, AllKept

(* The destructors come to their end.                                      *)
LEMMA DestroyedKeeps ==
  ASSUME IInv, stack # <<>>, ReturnToDestroy, nested' \in 0 .. MaxNested
  PROVE  IInv'
<1>1. /\ Head(stack).at = "destroy"
      /\ controller' = OptedOutController(TRUE)
      /\ disk' = Written(Count)
      /\ DestroyQueue(Tail(stack))
      /\ runtime' = Subsystem("destroyed", FALSE, FALSE)
      /\ UNCHANGED <<settings, saved, owed, quit, exits, wish, troubles>>
  BY DEF ReturnToDestroy
<1>2. "destroy" \in Kinds(stack) /\ Tail(stack) \in Seq(Frame)
  BY <1>1, TailKept
<1>3. runtime.phase = "destroying"
  BY <1>2 DEF IInv, PhaseInv
<1>4. /\ Tail(stack) = <<>> /\ owed = {} /\ ~controller.bound
      /\ controller.shuttingDown /\ ~quit.live /\ queue.callbacks = <<>>
  BY <1>1, <1>3, FrameAlive DEF IInv, PhaseInv, QueueInv
<1>5. stack' = <<>> /\ queue' = NoQueue
  BY <1>1, <1>4 DEF DestroyQueue, Answering
<1>6. /\ controller' \in Controller /\ controller'.shuttingDown
      /\ ~controller'.bound /\ ~controller'.optedIn
  BY <1>1 DEF OptedOutController, Controller
<1>7. runtime' \in Runtime /\ runtime'.phase = "destroyed"
  BY <1>1 DEF Subsystem, Runtime
<1>8. DiskOK' /\ Count' = Count /\ Count \in Nat
  BY <1>1, Known, CountTyped, WrittenTyped
<1>9. NoQueue \in Queue /\ stack' \in Seq(Frame)
  BY <1>5 DEF NoQueue, Queue
<1>10. TypeOK'
  BY <1>1, <1>5, <1>6, <1>7, <1>8, <1>9, Known, TypesKept
     DEF TypeOK, ConsentTypeOK
<1>11. QueueInv' /\ Sound(stack)'
  <2>1. ~queue'.flushing /\ queue'.callbacks = <<>>
    BY <1>5 DEF NoQueue
  <2>. QED BY <1>1, <1>4, <1>5, <2>1, Empty DEF QueueInv, Sound, EachOnce
<1>12. PhaseInv'
  BY <1>1, <1>4, <1>5, <1>6, <1>7, Empty DEF PhaseInv
<1>13. QuitInv' /\ ExitInv'
  BY <1>1, <1>4, <1>5, Empty DEF IInv, QuitInv, ExitInv, Idle
<1>14. HandlersInv' /\ SteadyInv' /\ ConsentInv' /\ PlainInv'
  <2>1. StaysOut' <=> StaysOut
    BY <1>1 DEF StaysOut
  <2>2. HandlersInv' /\ SteadyInv'
    BY <1>5, <1>7, Empty DEF HandlersInv, SteadyInv, Running, Exists
  <2>3. ConsentInv'
    BY <1>1, <1>6 DEF IInv, ConsentInv
  <2>4. PlainInv'
    BY <1>1, <1>6, <1>7, <1>8, <2>1 DEF IInv, PlainInv, Exists
  <2>. QED BY <2>2, <2>3, <2>4
<1>. QED BY <1>10, <1>11, <1>12, <1>13, <1>14, AllKept

-----------------------------------------------------------------------------
(* The quit coordinator and the end of the subsystem.                      *)

(* The frames below a call, and below no other.                            *)
LEMMA FinalizeKeeps ==
  ASSUME IInv, Exists, NEW below \in Seq(Frame), FinalizeQuit(below),
         UNCHANGED <<runtime, exits, wish, troubles>>,
         nested' \in 0 .. MaxNested,
         Sound(below), NotExit(below),
         Kinds(below) \subseteq Kinds(stack),
         Kinds(stack) \subseteq Kinds(below) \cup {"quit"},
         Exits(stack) => Exits(below), Clears(stack) => Clears(below),
         Fresh(stack) => Fresh(below)
  PROVE  IInv'
<1>1. CASE quit.finalized
  <2>1. /\ stack' = below
        /\ UNCHANGED <<quit, settings, saved, disk, controller, queue, owed>>
    BY <1>1 DEF FinalizeQuit
  <2>2. Sound(stack)'
    BY <2>1 DEF Sound
  <2>3. DiskOK' /\ QueueInv' /\ TypeOK'
    <3>1. DiskOK'
      BY <2>1, Known, CountTyped DEF DiskOK, Count, ConsentTypeOK
    <3>2. QueueInv'
      BY <2>1, Known DEF QueueInv
    <3>. QED BY <2>1, <3>1, <3>2, Known, TypesKept DEF TypeOK, ConsentTypeOK
  <2>4. HandlersInv' /\ SteadyInv' /\ ConsentInv' /\ PlainInv'
    <3>1. SameChoices(stack', stack)
      BY <2>1 DEF SameChoices, Passing
    <3>2. Count' = Count /\ Count \in Nat
      BY <2>1, Known, CountTyped DEF Count
    <3>. QED BY <2>1, <3>1, <3>2, ConsentKept DEF Exists
  <2>5. stack' # <<>> => Head(stack').at # "exit"
    BY <2>1 DEF NotExit
  <2>6. PhaseInv'
    BY <2>1, PhaseKept
  <2>7. QuitInv'
    BY <2>1, QuitKept
  <2>8. ExitInv'
    BY <2>1, <2>5, ExitKept
  <2>. QED BY <2>2, <2>3, <2>4, <2>6, <2>7, <2>8, AllKept
<1>2. CASE ~quit.finalized
  <2>. DEFINE exiting == Put("exit", below)
              draining == Put("drain", exiting)
  <2>1. /\ quit' = [live |-> quit.live, begun |-> quit.begun,
                    finalized |-> TRUE, armed |-> FALSE]
        /\ Shutdown(exiting)
    BY <1>2 DEF FinalizeQuit, Put
  <2>2. /\ "exit" \notin Kinds(stack) /\ exits = 0
    BY <1>2, Known DEF IInv, ExitInv, TypeOK
  <2>3. "exit" \in Places /\ "drain" \in Places
    BY DEF Places
  <2>4. /\ exiting \in Seq(Frame)
        /\ Kinds(exiting) = {"exit"} \cup Kinds(below)
        /\ Fresh(below) => Fresh(exiting)
        /\ Exits(below) => Exits(exiting)
        /\ Clears(below) => Clears(exiting)
    BY <2>2, <2>3, PutOnTop
  <2>5. Sound(exiting)
    <3>1. PICK at \in Places : at = "exit" /\ exiting = <<Rest(at)>> \o below
      BY <2>3 DEF Put
    <3>. QED BY <3>1, SoundRest
  <2>. HIDE DEF exiting
  <2>6. /\ UNCHANGED <<settings, saved, disk, owed>>
        /\ controller' \in Controller /\ controller'.shuttingDown
        /\ controller'.optedIn = controller.optedIn
        /\ controller'.storage = controller.storage
        /\ queue' \in Queue /\ queue'.live = queue.live /\ QueueInv'
        /\ Over(stack', draining)
        /\ stack' # <<>> /\ Head(stack').at \in {"drain", "callbacks"}
        /\ Sound(stack)'
    BY <2>1, <2>4, <2>5, Known, ShutdownEffect DEF Put
  <2>7. /\ Kinds(draining) = {"drain"} \cup Kinds(exiting)
        /\ Fresh(exiting) => Fresh(draining)
        /\ Exits(exiting) => Exits(draining)
        /\ Clears(exiting) => Clears(draining)
    BY <2>3, <2>4, PutOnTop
  <2>. HIDE DEF draining
  <2>8. /\ stack' \in Seq(Frame)
        /\ Kinds(below) \subseteq Kinds(stack')
        /\ Kinds(stack') \subseteq
             Kinds(below) \cup {"exit", "drain", "callbacks"}
        /\ Fresh(stack) => Fresh(stack')
        /\ Exits(stack) => Exits(stack')
        /\ Clears(stack) => Clears(stack')
    BY <2>4, <2>6, <2>7 DEF Over
  <2>9. quit' \in Coordinator
    BY <2>1, Known DEF TypeOK, Coordinator
  <2>10. DiskOK' /\ Count' = Count /\ Count \in Nat
    BY <2>6, Known, CountTyped DEF DiskOK, Count, ConsentTypeOK
  <2>11. TypeOK'
    BY <2>6, <2>8, <2>9, <2>10, Known, TypesKept DEF TypeOK, ConsentTypeOK
  <2>12. HandlersInv' /\ SteadyInv' /\ ConsentInv' /\ PlainInv'
    <3>1. SameChoices(stack', stack)
      BY <2>8 DEF SameChoices, Passing
    <3>. QED BY <2>6, <2>10, <3>1, ConsentKept DEF Exists
  <2>13. PhaseInv'
    BY <2>1, <2>6, <2>8, PhaseKept
  <2>14. QuitInv'
    BY <2>1, <2>6, <2>8 DEF IInv, QuitInv
  <2>15. ExitInv'
    BY <2>1, <2>2, <2>6, <2>8 DEF IInv, ExitInv, Idle
  <2>. QED BY <2>6, <2>11, <2>12, <2>13, <2>14, <2>15, AllKept
<1>. QED BY <1>1, <1>2

(* The timeout.                                                            *)
LEMMA TimeoutKeeps ==
  ASSUME IInv, QuitTimeout
  PROVE  IInv'
<1>1. /\ stack = <<>> /\ quit.armed /\ FinalizeQuit(stack)
      /\ UNCHANGED <<runtime, exits, wish, nested, troubles>>
  BY DEF QuitTimeout, Idle
<1>2. quit.live
  BY <1>1 DEF IInv, QuitInv
<1>3. Exists
  <2>1. runtime.phase # "down"
    <3>1. runtime.phase = "down" => quit = NewCoordinator(FALSE)
      BY DEF IInv, PhaseInv, Blank
    <3>2. ~NewCoordinator(FALSE).live
      BY DEF NewCoordinator
    <3>. QED BY <1>2, <3>1, <3>2
  <2>2. runtime.phase \notin {"destroying", "destroyed"}
    BY <1>2 DEF IInv, PhaseInv
  <2>. QED BY <2>1, <2>2, Known DEF TypeOK, Runtime, Exists
<1>4. NotExit(stack) /\ nested' \in 0 .. MaxNested
  BY <1>1, Known DEF NotExit, TypeOK
<1>. QED BY <1>1, <1>3, <1>4, Known, FinalizeKeeps

(* The completion callback of the coordinator.                             *)
LEMMA CompletedKeeps ==
  ASSUME IInv, stack # <<>>, QuitFlushCompleted, nested' \in 0 .. MaxNested
  PROVE  IInv'
<1>1. /\ Head(stack).at = "quit" /\ FinalizeQuit(Tail(stack))
      /\ UNCHANGED <<runtime, exits, wish, troubles>>
  BY DEF QuitFlushCompleted
<1>2. Exists
  BY <1>1, FrameAlive
<1>3. /\ Tail(stack) \in Seq(Frame) /\ Sound(Tail(stack)) /\ NotExit(Tail(stack))
      /\ Kinds(stack) = {"quit"} \cup Kinds(Tail(stack))
      /\ Exits(stack) => Exits(Tail(stack))
      /\ Clears(stack) => Clears(Tail(stack))
      /\ Fresh(stack) => Fresh(Tail(stack))
  BY <1>1, Known, TailKept, SoundTail, NoExitBelow
<1>. QED BY <1>1, <1>2, <1>3, FinalizeKeeps

(* A quit begins.                                                          *)
LEMMA QuitKeeps ==
  ASSUME IInv, FlushAndQuit
  PROVE  IInv'
<1>1. /\ GameCalls("quit")
      /\ quit.live /\ ~quit.begun /\ ~quit.finalized
      /\ quit' = [live |-> TRUE, begun |-> TRUE, finalized |-> FALSE,
                  armed |-> TRUE]
      /\ RequestFlush(<<Quit>>, stack)
      /\ UNCHANGED <<runtime, exits, wish, troubles>>
  BY DEF FlushAndQuit, BeginFlushAndQuit
<1>2. Exists /\ NotExit(stack) /\ nested' \in 0 .. MaxNested
  BY <1>1, GameCallsEffect
<1>3. /\ <<Quit>> \in Seq(Callback)
      /\ Distinct(<<Quit>>) /\ Values(<<Quit>>) = {Quit}
  BY DEF Callback, Distinct, Values
<1>4. Quit \notin owed
  BY <1>1 DEF IInv, QuitInv
<1>5. /\ UNCHANGED <<settings, saved, controller>>
      /\ DiskOK' /\ Count' <= Count
      /\ queue' \in Queue /\ queue'.live = queue.live /\ QueueInv'
      /\ owed' = owed \cup {Quit}
      /\ Over(stack', stack)
      /\ Sound(stack)'
  BY <1>1, <1>2, <1>3, <1>4, Known, RequestFlushEffect
<1>6. /\ stack' \in Seq(Frame)
      /\ Kinds(stack) \subseteq Kinds(stack')
      /\ Kinds(stack') \subseteq Kinds(stack) \cup {"callbacks"}
      /\ Exits(stack) => Exits(stack')
      /\ Clears(stack) => Clears(stack')
      /\ Fresh(stack) => Fresh(stack')
  BY <1>5 DEF Over
<1>7. stack' # <<>> => Head(stack').at # "exit"
  BY <1>2, <1>5, Known DEF NotExit, Over
<1>8. ~(Count' > Count) /\ Count' \in Nat
  BY <1>5, Known, CountTyped, RecordAssumption DEF DiskOK, Records, Count
<1>9. TypeOK'
  <2>1. owed' \subseteq Callback
    BY <1>5, Known DEF ConsentTypeOK, Callback
  <2>2. quit' \in Coordinator
    BY <1>1 DEF Coordinator
  <2>. QED BY <1>1, <1>2, <1>5, <1>6, <2>1, <2>2, Known, TypesKept
         DEF TypeOK, ConsentTypeOK
<1>10. HandlersInv' /\ SteadyInv' /\ ConsentInv' /\ PlainInv'
  <2>1. SameChoices(stack', stack)
    BY <1>6 DEF SameChoices, Passing
  <2>. QED BY <1>1, <1>5, <1>8, <2>1, ConsentKept DEF Exists
<1>11. PhaseInv'
  BY <1>1, <1>2, <1>5, <1>6, PhaseKept
<1>12. QuitInv'
  BY <1>1 DEF QuitInv
<1>13. ExitInv'
  BY <1>1, <1>6, <1>7 DEF IInv, ExitInv, Idle
<1>. QED BY <1>5, <1>9, <1>10, <1>11, <1>12, <1>13, AllKept

(* Deinitialize.                                                           *)
LEMMA DeinitializeKeeps ==
  ASSUME IInv, Deinitialize
  PROVE  IInv'
<1>. DEFINE draining == Put("drain", stack)
<1>1. /\ stack = <<>> /\ Running
      /\ \E timer \in StopFlushTimer :
           runtime' = Subsystem("deinitialized", timer, FALSE)
      /\ quit' = [live |-> FALSE, begun |-> quit.begun,
                  finalized |-> quit.finalized, armed |-> FALSE]
      /\ Shutdown(stack)
      /\ UNCHANGED <<exits, wish, nested, troubles>>
  BY DEF Deinitialize, Idle
<1>2. /\ UNCHANGED <<settings, saved, disk, owed>>
      /\ controller' \in Controller /\ controller'.shuttingDown
      /\ controller'.optedIn = controller.optedIn
      /\ controller'.storage = controller.storage
      /\ queue' \in Queue /\ queue'.live = queue.live /\ QueueInv'
      /\ Over(stack', draining)
      /\ stack' # <<>> /\ Head(stack').at \in {"drain", "callbacks"}
      /\ Sound(stack)'
  BY <1>1, Known, ShutdownEffect DEF Put
<1>3. /\ Kinds(draining) = {"drain"} \cup Kinds(stack)
      /\ Fresh(stack) => Fresh(draining)
      /\ Exits(stack) => Exits(draining)
      /\ Clears(stack) => Clears(draining)
  <2>1. "drain" \in Places
    BY DEF Places
  <2>. QED BY <2>1, Known, PutOnTop
<1>. HIDE DEF draining
<1>4. /\ stack' \in Seq(Frame) /\ Kinds(stack) = {}
      /\ Kinds(stack') \subseteq {"drain", "callbacks"}
      /\ Fresh(stack) => Fresh(stack')
      /\ Exits(stack) => Exits(stack')
      /\ Clears(stack) => Clears(stack')
  BY <1>1, <1>2, <1>3, Empty DEF Over
<1>5. quit' \in Coordinator /\ runtime' \in Runtime
      /\ runtime'.phase = "deinitialized"
  <2>1. \A timer \in StopFlushTimer : timer \in BOOLEAN
    BY TimerSet
  <2>. QED BY <1>1, <2>1, Known DEF TypeOK, Coordinator, Subsystem, Runtime
<1>6. DiskOK' /\ Count' = Count /\ Count \in Nat
  BY <1>2, Known, CountTyped DEF DiskOK, Count, ConsentTypeOK
<1>7. TypeOK'
  BY <1>1, <1>2, <1>4, <1>5, <1>6, Known, TypesKept DEF TypeOK, ConsentTypeOK
<1>8. HandlersInv' /\ SteadyInv' /\ ConsentInv' /\ PlainInv'
  <2>1. SameChoices(stack', stack)
    BY <1>4 DEF SameChoices, Passing
  <2>2. Exists /\ runtime'.phase # "running"
    BY <1>1, <1>5 DEF Exists, Running
  <2>3. ~(Count' > Count)
    BY <1>6
  <2>4. UNCHANGED <<settings, saved, wish, troubles>>
    BY <1>1, <1>2
  <2>. QED BY <1>2, <1>6, <2>1, <2>2, <2>3, <2>4, ConsentKept
<1>9. PhaseInv'
  BY <1>1, <1>2, <1>4, <1>5 DEF PhaseInv
<1>10. QuitInv'
  BY <1>1, <1>2, <1>4 DEF IInv, QuitInv
<1>11. ExitInv'
  BY <1>1, <1>2, <1>4 DEF IInv, ExitInv, Idle
<1>. QED BY <1>2, <1>7, <1>8, <1>9, <1>10, <1>11, AllKept

(* The destructors begin.                                                  *)
LEMMA DestroyKeeps ==
  ASSUME IInv, Destroy
  PROVE  IInv'
<1>. DEFINE below == <<Rest("destroy")>>
<1>1. /\ stack = <<>> /\ runtime.phase = "deinitialized"
      /\ runtime' = Subsystem("destroying", FALSE, FALSE)
      /\ Shutdown(below)
      /\ UNCHANGED <<quit, exits, wish, nested, troubles>>
  BY DEF Destroy, Idle
<1>2. /\ controller.shuttingDown /\ queue.callbacks = <<>> /\ ~quit.live
      /\ owed = {}
  BY <1>1, Known, Empty DEF IInv, PhaseInv, QueueInv, Sound, EachOnce
<1>3. below = Put("destroy", stack) /\ "destroy" \in Places /\ "drain" \in Places
  <2>1. \A a : <<a>> = <<a>> \o <<>>
    OBVIOUS
  <2>. QED BY <1>1, <2>1 DEF Put, Places
<1>4. Sound(below)
  <2>1. PICK at \in Places : at = "destroy" /\ below = <<Rest(at)>> \o stack
    BY <1>3 DEF Put
  <2>2. NotExit(stack)
    BY <1>1 DEF NotExit
  <2>. QED BY <2>1, <2>2, Known, SoundRest
<1>5. below \in Seq(Frame) /\ Kinds(below) = {"destroy"}
  <2>. HIDE DEF below
  <2>1. below \in Seq(Frame) /\ Kinds(below) = {"destroy"} \cup Kinds(stack)
    BY <1>3, Known, PutOnTop
  <2>. QED BY <1>1, <2>1, Empty
<1>. DEFINE draining == Put("drain", below)
<1>. HIDE DEF below
<1>6. /\ UNCHANGED <<settings, saved, disk, owed>>
      /\ controller' \in Controller /\ controller'.shuttingDown
      /\ ~controller'.bound
      /\ controller'.optedIn = controller.optedIn
      /\ controller'.storage = controller.storage
      /\ queue' \in Queue /\ queue'.live = queue.live /\ QueueInv'
      /\ stack' = draining
      /\ Sound(stack)'
  BY <1>1, <1>2, <1>4, <1>5, Known, ShutdownEffect DEF Put
<1>7. /\ stack' \in Seq(Frame) /\ stack' # <<>> /\ Head(stack').at = "drain"
      /\ Kinds(stack') = {"drain", "destroy"}
  <2>1. /\ draining \in Seq(Frame) /\ draining # <<>>
        /\ Head(draining).at = "drain"
        /\ Kinds(draining) = {"drain"} \cup Kinds(below)
    BY <1>3, <1>5, PutOnTop
  <2>. QED BY <1>5, <1>6, <2>1
<1>8. /\ Exits(stack') /\ Fresh(stack') /\ Clears(stack')
  <2>1. Exits(below) /\ Fresh(below) /\ Clears(below)
    BY <1>1, <1>3, Known, Empty, PutOnTop
  <2>. QED BY <1>3, <1>5, <1>6, <2>1, PutOnTop
<1>9. stack' \in Teardowns
  <2>1. Rest("drain") \in Frame /\ Rest("destroy") \in Frame
    BY DEF Rest, Frame
  <2>2. <<Rest("drain")>> \o <<Rest("destroy")>>
          = <<Rest("drain"), Rest("destroy")>>
    <3>. DEFINE a == Rest("drain")
                b == Rest("destroy")
    <3>. HIDE DEF a, b
    <3>1. a \in Frame /\ b \in Frame
      BY <2>1 DEF a, b
    <3>2. /\ <<a>> \o <<b>> \in Seq(Frame) /\ Len(<<a>> \o <<b>>) = 2
          /\ (<<a>> \o <<b>>)[1] = a /\ (<<a>> \o <<b>>)[2] = b
      BY <3>1
    <3>3. <<a, b>> \in Seq(Frame) /\ Len(<<a, b>>) = 2
          /\ <<a, b>>[1] = a /\ <<a, b>>[2] = b
      BY <3>1
    <3>4. \A s, t \in Seq(Frame) :
            Len(s) = 2 /\ Len(t) = 2 /\ s[1] = t[1] /\ s[2] = t[2] => s = t
      <4>. TAKE s, t \in Seq(Frame)
      <4>1. 1 .. 2 = {1, 2}
        OBVIOUS
      <4>. QED BY <4>1, SeqEqual
    <3>. QED BY <3>2, <3>3, <3>4 DEF a, b
  <2>. QED BY <1>6, <2>2 DEF Put, Teardowns, below
<1>10. runtime' \in Runtime /\ runtime'.phase = "destroying"
  BY <1>1 DEF Subsystem, Runtime
<1>11. DiskOK' /\ Count' = Count /\ Count \in Nat
  BY <1>6, Known, CountTyped DEF DiskOK, Count, ConsentTypeOK
<1>12. TypeOK'
  BY <1>1, <1>6, <1>7, <1>10, <1>11, Known, TypesKept DEF TypeOK, ConsentTypeOK
<1>13. HandlersInv' /\ SteadyInv' /\ ConsentInv' /\ PlainInv'
  <2>1. SameChoices(stack', stack)
    BY <1>1, <1>7, <1>8, Empty DEF SameChoices, Passing
  <2>2. runtime'.phase \notin {"running", "deinitialized"}
    BY <1>10
  <2>3. ~(Count' > Count)
    BY <1>11
  <2>4. UNCHANGED <<settings, saved, wish, troubles>>
    BY <1>1, <1>6
  <2>. QED BY <1>6, <1>11, <2>1, <2>2, <2>3, <2>4, ConsentKept
<1>14. PhaseInv'
  BY <1>1, <1>2, <1>6, <1>9, <1>10 DEF PhaseInv
<1>15. QuitInv'
  BY <1>1, <1>6, <1>7, QuitKept
<1>16. ExitInv'
  BY <1>1, <1>7, <1>8, ExitKept
<1>. QED BY <1>6, <1>12, <1>13, <1>14, <1>15, <1>16, AllKept

-----------------------------------------------------------------------------
(* The consent.                                                            *)

(* Opting in: EnableCollection under the frame of the choice.              *)
LEMMA OptInKeeps ==
  ASSUME IInv, Exists, nested' \in 0 .. MaxNested, NotExit(stack),
         stack = <<>> \/ "optIn" \in troubles,
         ~controller.optedIn, settings.valid,
         EnableCollection(controller.shuttingDown, Put("optIn", stack)),
         wish' = "none", UNCHANGED <<runtime, quit, exits, troubles>>
  PROVE  IInv'
<1>. DEFINE below == Put("optIn", stack)
<1>1. "optIn" \in Places
  BY DEF Places
<1>2. /\ below \in Seq(Frame) /\ below # <<>> /\ Head(below).at = "optIn"
      /\ Kinds(below) = {"optIn"} \cup Kinds(stack)
      /\ Fresh(stack) => Fresh(below)
      /\ Exits(stack) => Exits(below)
      /\ Clears(stack) => Clears(below)
  BY <1>1, Known, PutOnTop
<1>3. Sound(below)
  <2>1. PICK at \in Places : at = "optIn" /\ below = <<Rest(at)>> \o stack
    BY <1>1 DEF Put
  <2>. QED BY <2>1, Known, SoundRest
<1>. HIDE DEF below
<1>4. EnableCollection(controller.shuttingDown, below)
  BY DEF below
<1>5. /\ UNCHANGED <<settings, owed>>
      /\ controller' = [optedIn |-> TRUE,
                        shuttingDown |-> controller.shuttingDown,
                        storage |-> TRUE, bound |-> TRUE]
      /\ controller' \in Controller
      /\ saved' \in Choice /\ ("disk" \notin troubles => saved' = "in")
      /\ DiskOK'
      /\ queue' \in Queue /\ queue'.live /\ QueueInv'
      /\ stack' = Stale(below) /\ stack' \in Seq(Frame)
      /\ Sound(stack)'
  <2>1. controller.shuttingDown \in BOOLEAN
    BY Known DEF Controller
  <2>. QED BY <1>2, <1>3, <1>4, <2>1, Known, EnableCollectionEffect
<1>6. /\ Head(stack').at = "optIn"
      /\ Kinds(stack') = {"optIn"} \cup Kinds(stack)
      /\ Exits(stack) => Exits(stack')
      /\ Clears(stack) => Clears(stack')
      /\ Fresh(stack) /\ "clear" \notin Kinds(stack) => Fresh(stack')
  <2>1. /\ below # <<>> => Head(stack').at = Head(below).at
        /\ Kinds(stack') = Kinds(below)
        /\ Exits(stack') <=> Exits(below)
        /\ Clears(stack') <=> Clears(below)
        /\ Fresh(below) /\ "clear" \notin Kinds(below) => Fresh(stack')
    BY <1>2, <1>5, StaleEffect
  <2>. QED BY <1>2, <2>1
<1>7. controller'.optedIn /\ controller'.storage
      /\ controller'.shuttingDown = controller.shuttingDown
  BY <1>5
<1>8. TypeOK'
  BY <1>5, Known, TypesKept DEF TypeOK, ConsentTypeOK
<1>9. HandlersInv'
  BY <1>6 DEF HandlersInv
<1>10. SteadyInv'
  <2>. SUFFICES ASSUME "optIn" \notin troubles PROVE SteadyInv'
    BY DEF SteadyInv
  <2>1. Kinds(stack) = {} /\ Fresh(stack) /\ Clears(stack)
    BY Empty
  <2>. QED BY <1>5, <1>6, <1>7, <2>1 DEF SteadyInv
<1>11. ConsentInv'
  BY <1>5 DEF ConsentInv
<1>12. PlainInv'
  BY <1>5, <1>7 DEF PlainInv
<1>13. PhaseInv'
  BY <1>6, <1>7, PhaseKept
<1>14. QuitInv'
  BY <1>5, <1>6, QuitKept
<1>15. ExitInv'
  BY <1>6, ExitKept
<1>. QED BY <1>5, <1>8, <1>9, <1>10, <1>11, <1>12, <1>13, <1>14, <1>15, AllKept

(* Opting out: DisableCollection under the frame of the choice.            *)
LEMMA OptOutKeeps ==
  ASSUME IInv, Exists, nested' \in 0 .. MaxNested, NotExit(stack),
         controller.optedIn, DisableCollection(Put("optOut", stack)),
         UNCHANGED <<wish, runtime, quit, exits, troubles>>
  PROVE  IInv'
<1>. DEFINE below == Put("optOut", stack)
            at == IF queue.live THEN "clear" ELSE "members"
            base == Put(at, below)
<1>1. "optOut" \in Places /\ at \in Places /\ at \in {"clear", "members"}
  BY DEF Places
<1>2. /\ below \in Seq(Frame) /\ below # <<>> /\ below[1].at = "optOut"
      /\ Kinds(below) = {"optOut"} \cup Kinds(stack)
      /\ Fresh(stack) => Fresh(below)
      /\ Exits(stack) => Exits(below)
      /\ Clears(stack) => Clears(below)
  BY <1>1, Known, PutOnTop
<1>3. Sound(below)
  <2>1. PICK a \in Places : a = "optOut" /\ below = <<Rest(a)>> \o stack
    BY <1>1 DEF Put
  <2>. QED BY <2>1, Known, SoundRest
<1>. HIDE DEF below
<1>4. DisableCollection(below)
  BY DEF below
<1>5. /\ UNCHANGED <<settings, disk, owed>>
      /\ controller' \in Controller
      /\ ~controller'.optedIn /\ ~controller'.bound
      /\ controller'.shuttingDown = controller.shuttingDown
      /\ controller'.storage = controller.storage
      /\ saved' \in Choice
      /\ queue' \in Queue /\ queue'.live = queue.live /\ QueueInv'
      /\ queue.live => saved' = saved /\ Over(stack', base)
      /\ ~queue.live => stack' = base
      /\ stack' \in Seq(Frame) /\ stack' # <<>>
      /\ Head(stack').at # "exit"
      /\ Sound(stack)'
  BY <1>2, <1>3, <1>4, Known, DisableCollectionEffect DEF Put
<1>6. /\ Kinds(base) = {at} \cup Kinds(below)
      /\ Fresh(below) => Fresh(base)
      /\ Exits(below) => Exits(base)
      /\ Clears(below) /\ Kinds(below) \cap {"clear", "members"} = {} =>
           Clears(base)
  <2>. HIDE DEF at
  <2>. QED BY <1>1, <1>2, PutOnTop
<1>. HIDE DEF base, at
<1>7. /\ Kinds(base) \subseteq Kinds(stack')
      /\ Kinds(stack') \subseteq Kinds(base) \cup {"callbacks"}
      /\ Fresh(base) => Fresh(stack')
      /\ Exits(base) => Exits(stack')
      /\ Clears(base) => Clears(stack')
  BY <1>5 DEF Over
<1>8. /\ "optOut" \in Kinds(stack')
      /\ \A a \in {"quit", "exit", "destroy"} :
           a \in Kinds(stack') => a \in Kinds(stack)
      /\ Exits(stack) => Exits(stack')
  BY <1>1, <1>2, <1>6, <1>7
<1>9. DiskOK' /\ Count' = Count
  BY <1>5, Known, CountTyped DEF DiskOK, Count, ConsentTypeOK
<1>10. TypeOK'
  BY <1>5, <1>9, Known, TypesKept DEF TypeOK, ConsentTypeOK
<1>11. HandlersInv'
  BY <1>8 DEF HandlersInv
<1>12. "optIn" \notin troubles =>
         /\ Kinds(stack) \cap {"clear", "members", "optOut"} = {}
         /\ Fresh(stack) /\ Clears(stack)
         /\ queue.live /\ controller.storage
  BY DEF IInv, SteadyInv
<1>13. SteadyInv'
  BY <1>2, <1>5, <1>6, <1>7, <1>12 DEF SteadyInv
<1>14. ConsentInv'
  BY <1>5 DEF ConsentInv
<1>15. PlainInv'
  <2>. SUFFICES ASSUME troubles = {} PROVE PlainInv'
    BY DEF PlainInv
  <2>1. queue.live /\ saved' = saved /\ "clear" \in Kinds(stack')
    BY <1>5, <1>6, <1>7, <1>12 DEF at
  <2>2. wish # "out"
    BY DEF IInv, PlainInv
  <2>. QED BY <1>5, <1>9, <2>1, <2>2 DEF IInv, PlainInv
<1>16. PhaseInv'
  BY <1>5, <1>8, PhaseKept
<1>17. QuitInv'
  BY <1>5, <1>8, QuitKept
<1>18. ExitInv'
  BY <1>5, <1>8, ExitKept
<1>. QED
  BY <1>5, <1>10, <1>11, <1>13, <1>14, <1>15, <1>16, <1>17, <1>18, AllKept

(* A choice that changes nothing.                                          *)
LEMMA NoChoiceKeeps ==
  ASSUME IInv, Exists, nested' \in 0 .. MaxNested, NotExit(stack),
         NEW at \in {"optIn", "optOut"}, stack' = Put(at, stack),
         at = "optOut" => ~controller.optedIn,
         wish' \in {wish, "none"},
         UNCHANGED <<settings, saved, disk, controller, queue, owed,
                     runtime, quit, exits, troubles>>
  PROVE  IInv'
<1>1. at \in Places
  BY DEF Places
<1>2. /\ stack' \in Seq(Frame) /\ stack' # <<>> /\ Head(stack').at = at
      /\ Kinds(stack') = {at} \cup Kinds(stack)
      /\ Fresh(stack) => Fresh(stack')
      /\ Exits(stack) => Exits(stack')
      /\ Clears(stack) => Clears(stack')
  BY <1>1, Known, PutOnTop
<1>3. Sound(stack)'
  <2>1. PICK a \in Places : a = at /\ stack' = <<Rest(a)>> \o stack
    BY <1>1 DEF Put
  <2>2. Sound(<<Rest(a)>> \o stack)
    BY <2>1, Known, SoundRest
  <2>. QED BY <2>1, <2>2 DEF Sound
<1>4. DiskOK' /\ Count' = Count
  BY Known, CountTyped DEF DiskOK, Count, ConsentTypeOK
<1>5. QueueInv'
  BY Known DEF QueueInv
<1>6. TypeOK'
  BY <1>2, <1>4, Known, TypesKept DEF TypeOK, ConsentTypeOK
<1>7. HandlersInv'
  BY <1>2 DEF HandlersInv
<1>8. SteadyInv'
  BY <1>2 DEF IInv, SteadyInv, Exists
<1>9. ConsentInv'
  BY DEF IInv, ConsentInv
<1>10. PlainInv'
  <2>1. "clear" \in Kinds(stack') <=> "clear" \in Kinds(stack)
    BY <1>2
  <2>2. StaysOut' <=> StaysOut
    BY DEF StaysOut
  <2>. QED BY <1>4, <2>1, <2>2 DEF IInv, PlainInv, Exists
<1>11. PhaseInv'
  BY <1>2, PhaseKept
<1>12. QuitInv'
  BY <1>2, QuitKept
<1>13. ExitInv'
  BY <1>2, ExitKept
<1>. QED
  BY <1>3, <1>5, <1>6, <1>7, <1>8, <1>9, <1>10, <1>11, <1>12, <1>13, AllKept

(* SetAnalyticsOptIn, up to the callbacks of the cancelled flush.          *)
LEMMA SetOptInKeeps ==
  ASSUME IInv, NEW optIn \in BOOLEAN, SetAnalyticsOptIn(optIn)
  PROVE  IInv'
<1>. DEFINE at == IF optIn THEN "optIn" ELSE "optOut"
<1>1. /\ GameCalls(at) /\ SetOptIn(optIn, Put(at, stack))
      /\ wish' = IF optIn THEN "none" ELSE wish
      /\ UNCHANGED <<runtime, quit, exits, troubles>>
  BY DEF SetAnalyticsOptIn, Put
<1>2. /\ Exists /\ NotExit(stack) /\ nested' \in 0 .. MaxNested
      /\ stack # <<>> => at \in CallbackCalls \cup (troubles \cap {"optIn"})
  BY <1>1, GameCallsEffect
<1>3. CASE optIn /\ ~controller.optedIn /\ settings.valid
  <2>1. EnableCollection(controller.shuttingDown, Put("optIn", stack))
    BY <1>1, <1>3 DEF SetOptIn
  <2>2. stack = <<>> \/ "optIn" \in troubles
    BY <1>2, <1>3, CallAssumption
  <2>. QED BY <1>1, <1>2, <1>3, <2>1, <2>2, OptInKeeps
<1>4. CASE ~optIn /\ controller.optedIn
  <2>1. DisableCollection(Put("optOut", stack)) /\ wish' = wish
    BY <1>1, <1>4 DEF SetOptIn
  <2>. QED BY <1>1, <1>2, <1>4, <2>1, OptOutKeeps
<1>5. CASE /\ ~(optIn /\ ~controller.optedIn /\ settings.valid)
           /\ ~(~optIn /\ controller.optedIn)
  <2>1. /\ stack' = Put(at, stack)
        /\ UNCHANGED <<settings, saved, disk, controller, queue, owed>>
    BY <1>1, <1>5 DEF SetOptIn
  <2>2. /\ at \in {"optIn", "optOut"}
        /\ at = "optOut" => ~controller.optedIn
        /\ wish' \in {wish, "none"}
    BY <1>1, <1>5
  <2>. QED BY <1>1, <1>2, <2>1, <2>2, NoChoiceKeeps
<1>. QED BY <1>3, <1>4, <1>5

-----------------------------------------------------------------------------
(* The process: its start and its end.                                     *)

(* A process without a subsystem.                                          *)
LEMMA BlankTyped ==
  ASSUME NEW s, s = OptedOutController(FALSE)
  PROVE  /\ s \in Controller /\ ~s.optedIn /\ ~s.shuttingDown /\ ~s.bound
         /\ NoQueue \in Queue /\ ~NoQueue.flushing /\ ~NoQueue.live
         /\ NoQueue.callbacks = <<>>
         /\ NewCoordinator(FALSE) \in Coordinator
         /\ NewCoordinator(TRUE) \in Coordinator
BY DEF OptedOutController, Controller, NoQueue, Queue, NewCoordinator,
       Coordinator

(* Nothing is owed and nothing is held.                                    *)
LEMMA NothingOwed ==
  /\ EachOnce(<<>>, <<>>, {})
  /\ WellNested(<<>>)
BY Empty DEF EachOnce

(* The start of the subsystem.                                             *)
LEMMA InitializeKeeps ==
  ASSUME IInv, Initialize
  PROVE  IInv'
<1>1. /\ runtime.phase = "down" /\ quit' = NewCoordinator(TRUE)
      /\ UNCHANGED <<exits, wish, nested, troubles>>
  BY DEF Initialize
<1>2. /\ stack = <<>> /\ owed = {} /\ exits = 0
      /\ controller = OptedOutController(FALSE) /\ queue = NoQueue
  BY <1>1 DEF IInv, PhaseInv, Blank
<1>3. /\ ~controller.optedIn /\ ~queue.flushing /\ queue.callbacks = <<>>
  BY <1>2, BlankTyped
<1>4. /\ quit' \in Coordinator /\ ~quit'.armed
  BY <1>1, BlankTyped DEF NewCoordinator
<1>5. ASSUME DiskOK', controller' \in Controller, queue' \in Queue, QueueInv',
             stack' = <<>>, owed' = {}, settings' = settings,
             saved' \in Choice, Sound(stack)',
             controller'.optedIn => queue'.live /\ controller'.storage,
             NEW timer \in BOOLEAN,
             "world" \notin troubles => timer = controller'.optedIn,
             runtime' = Subsystem("running", timer,
                          controller'.optedIn /\ settings.exceptions),
             ConsentInv', PlainInv'
      PROVE  IInv'
  <2>1. /\ runtime'.phase = "running" /\ runtime' \in Runtime
        /\ "world" \notin troubles => runtime'.timer = controller'.optedIn
        /\ runtime'.ensure = (controller'.optedIn /\ settings.exceptions)
    <3>1. controller'.optedIn \in BOOLEAN
      BY <1>5 DEF Controller
    <3>. QED BY <1>5, <3>1 DEF Subsystem, Runtime
  <2>2. /\ stack' \in Seq(Frame) /\ Kinds(stack') = {}
        /\ Exits(stack') /\ Clears(stack') /\ Fresh(stack')
    BY <1>5, Empty
  <2>3. TypeOK'
    BY <1>1, <1>2, <1>4, <1>5, <2>1, <2>2, Known, TypesKept
       DEF TypeOK, ConsentTypeOK
  <2>4. PhaseInv' /\ QuitInv' /\ ExitInv'
    <3>1. PhaseInv'
      BY <2>1, <2>2 DEF PhaseInv
    <3>2. QuitInv'
      BY <1>4, <1>5, <2>2 DEF QuitInv
    <3>3. ExitInv'
      <4>1. exits' = 0 /\ Idle'
        BY <1>1, <1>2, <1>5 DEF Idle
      <4>. QED BY <2>2, <4>1 DEF ExitInv
    <3>. QED BY <3>1, <3>2, <3>3
  <2>5. HandlersInv' /\ SteadyInv'
    BY <1>1, <1>5, <2>1, <2>2 DEF HandlersInv, SteadyInv
  <2>. QED BY <1>5, <2>3, <2>4, <2>5, AllKept
<1>6. CASE /\ TRUE \in ShouldOptIn /\ settings.valid
           /\ EnableCollection(FALSE, stack)
           /\ \E timer \in StartFlushTimer :
                runtime' = Subsystem("running", timer, settings.exceptions)
  <2>1. /\ UNCHANGED <<settings, owed>>
        /\ controller' = [optedIn |-> TRUE, shuttingDown |-> FALSE,
                          storage |-> TRUE, bound |-> TRUE]
        /\ controller' \in Controller
        /\ saved' \in Choice /\ ("disk" \notin troubles => saved' = "in")
        /\ DiskOK'
        /\ queue' \in Queue /\ queue'.live /\ QueueInv'
        /\ stack' = Stale(stack)
        /\ Sound(stack)'
    <3>1. FALSE \in BOOLEAN
      OBVIOUS
    <3>. QED BY <1>3, <1>6, <3>1, Known, EnableCollectionEffect
  <2>2. stack' = <<>>
    BY <1>2, <2>1, StaleEffect, Known
  <2>3. controller'.optedIn = TRUE /\ controller'.storage = TRUE
    BY <2>1
  <2>4. ConsentInv'
    BY <1>1, <2>1 DEF ConsentInv
  <2>5. PlainInv'
    <3>. SUFFICES ASSUME troubles = {} PROVE PlainInv'
      BY <1>1 DEF PlainInv
    <3>1. wish # "out"
      <4>1. TRUE \in ShouldOptIn
        BY <1>6
      <4>2. saved = "in" \/ (saved # "out" /\ settings.byDefault = TRUE)
        BY <4>1 DEF ShouldOptIn
      <4>. QED BY <1>6, <4>2 DEF IInv, PlainInv, StaysOut
    <3>. QED BY <1>1, <1>6, <2>1, <2>3, <3>1 DEF PlainInv
  <2>6. PICK timer \in StartFlushTimer :
          runtime' = Subsystem("running", timer, settings.exceptions)
    BY <1>6
  <2>7. timer \in BOOLEAN /\ ("world" \notin troubles => timer = controller'.optedIn)
    BY <2>3, <2>6, TimerSet
  <2>8. (controller'.optedIn /\ settings.exceptions) = settings.exceptions
    <3>1. settings.exceptions \in BOOLEAN
      BY Known DEF ConsentTypeOK, Settings
    <3>. QED BY <2>3, <3>1
  <2>. QED BY <1>2, <1>5, <2>1, <2>2, <2>3, <2>4, <2>5, <2>6, <2>7, <2>8
<1>7. CASE /\ ~settings.valid \/ FALSE \in ShouldOptIn
           /\ runtime' = Subsystem("running", FALSE, FALSE)
           /\ UNCHANGED consentVars
  <2>1. UNCHANGED <<settings, saved, disk, controller, queue, stack, owed>>
    BY <1>7 DEF consentVars
  <2>2. DiskOK' /\ Count' = Count
    BY <2>1, Known, CountTyped DEF DiskOK, Count, ConsentTypeOK
  <2>3. QueueInv' /\ Sound(stack)'
    BY <2>1, Known DEF QueueInv, Sound
  <2>4. ConsentInv'
    BY <1>3, <2>1 DEF ConsentInv
  <2>5. PlainInv'
    <3>. SUFFICES ASSUME troubles = {} PROVE PlainInv'
      BY <1>1 DEF PlainInv
    <3>1. StaysOut
      <4>1. /\ saved \in {"none", "in", "out"}
            /\ saved = "in" => settings.valid
        BY DEF IInv, PlainInv
      <4>2. ~settings.valid \/ saved = "out"
            \/ (saved = "none" /\ ~settings.byDefault)
        BY <1>7, <4>1, Known DEF ShouldOptIn, ConsentTypeOK, Settings
      <4>. QED BY <4>1, <4>2 DEF StaysOut
    <3>2. StaysOut'
      BY <2>1, <3>1 DEF StaysOut
    <3>. QED BY <1>1, <1>3, <2>1, <2>2, <3>2 DEF IInv, PlainInv
  <2>6. controller'.optedIn = FALSE
    BY <1>3, <2>1, Known DEF Controller
  <2>7. runtime' = Subsystem("running", FALSE,
                             controller'.optedIn /\ settings.exceptions)
    BY <1>7, <2>6
  <2>8. /\ stack' = <<>> /\ owed' = {} /\ settings' = settings
        /\ saved' \in Choice /\ controller' \in Controller /\ queue' \in Queue
    BY <1>2, <2>1, Known DEF ConsentTypeOK
  <2>9. FALSE \in BOOLEAN
    OBVIOUS
  <2>. QED BY <1>5, <2>2, <2>3, <2>4, <2>5, <2>6, <2>7, <2>8, <2>9
         DEF ConsentTypeOK
<1>. QED BY <1>6, <1>7 DEF Initialize

(* The end of the process.                                                 *)
LEMMA ProcessEndsKeeps ==
  ASSUME IInv, ProcessEnds
  PROVE  IInv'
<1>1. PICK n \in disk.saved .. Count : disk' = Written(n)
  BY DEF ProcessEnds
<1>2. /\ settings' \in IF "settings" \in troubles THEN Builds ELSE {settings}
      /\ controller' = OptedOutController(FALSE)
      /\ queue' = NoQueue
      /\ stack' = <<>>
      /\ owed' = {}
      /\ runtime' = Subsystem("down", FALSE, FALSE)
      /\ quit' = NewCoordinator(FALSE)
      /\ exits' = 0
      /\ nested' = 0
      /\ UNCHANGED <<saved, wish, troubles>>
  BY DEF ProcessEnds
<1>3. n \in 0 .. MaxRecords /\ n <= Count
  BY Known, CountTyped
<1>4. DiskOK' /\ Count' = n
  BY <1>1, <1>3, WrittenTyped
<1>5. settings' \in Settings
  BY <1>2, Known, SettingsAssumption DEF Builds, Settings, ConsentTypeOK
<1>6. /\ controller' \in Controller /\ ~controller'.optedIn
      /\ ~controller'.shuttingDown
      /\ queue' \in Queue /\ ~queue'.flushing /\ queue'.callbacks = <<>>
      /\ quit' \in Coordinator
  BY <1>2, BlankTyped
<1>7. runtime' \in Runtime /\ runtime'.phase = "down"
  BY <1>2 DEF Subsystem, Runtime
<1>8. /\ stack' \in Seq(Frame) /\ Kinds(stack') = {}
      /\ Exits(stack') /\ Clears(stack') /\ Fresh(stack')
  BY <1>2, Empty
<1>9. TypeOK'
  <2>1. saved' \in Choice /\ wish' \in {"none", "in", "out"}
        /\ troubles' = troubles
    BY <1>2, Known DEF TypeOK, ConsentTypeOK
  <2>2. owed' \subseteq Callback /\ exits' \in Nat /\ nested' \in 0 .. MaxNested
    BY <1>2, CallAssumption
  <2>. QED BY <1>4, <1>5, <1>6, <1>7, <1>8, <2>1, <2>2, Known, TypesKept
<1>10. QueueInv' /\ Sound(stack)'
  BY <1>2, <1>6, NothingOwed DEF QueueInv, Sound
<1>11. PhaseInv'
  BY <1>2, <1>7, <1>8 DEF PhaseInv, Blank
<1>12. QuitInv' /\ ExitInv'
  BY <1>2, <1>8 DEF QuitInv, ExitInv, NewCoordinator, Idle
<1>13. HandlersInv' /\ SteadyInv' /\ ConsentInv'
  BY <1>6, <1>7, <1>8 DEF HandlersInv, SteadyInv, ConsentInv, Running
<1>14. PlainInv'
  <2>. SUFFICES ASSUME troubles = {} PROVE PlainInv'
    BY <1>2 DEF PlainInv
  <2>1. settings' = settings
    BY <1>2
  <2>2. StaysOut' <=> StaysOut
    BY <1>2, <2>1 DEF StaysOut
  <2>3. Count' > 0 => Count > 0
    BY <1>3, <1>4, Known, CountTyped
  <2>. QED BY <1>2, <1>6, <1>7, <2>1, <2>2, <2>3 DEF IInv, PlainInv, Exists
<1>. QED BY <1>9, <1>10, <1>11, <1>12, <1>13, <1>14, AllKept

(* The game thread goes on.                                                *)
LEMMA ContinueKeeps ==
  ASSUME IInv, Continue
  PROVE  IInv'
<1>1. /\ stack # <<>>
      /\ \/ CallNext \/ QuitFlushCompleted \/ ControllerReturns
         \/ ReturnToFinalizeQuit \/ ReturnToSetAnalyticsOptIn \/ ReturnToDestroy
      /\ nested' = IF stack' = <<>> THEN 0 ELSE nested
  BY DEF Continue, Idle
<1>2. nested' \in 0 .. MaxNested
  BY <1>1, NestedKept
<1>3. CASE ControllerReturns
  BY <1>1, <1>2, <1>3, ClearKeeps, MembersKeeps, DrainKeeps,
     CapturedKeeps
     DEF ControllerReturns
<1>. QED BY <1>1, <1>2, <1>3, CallNextKeeps, CompletedKeeps, ExitKeeps,
            ChoiceKeeps, DestroyedKeeps

-----------------------------------------------------------------------------
(* The invariant.                                                          *)

(* The first process.                                                      *)
LEMMA Initially == Init => IInv
<1>. SUFFICES ASSUME Init PROVE IInv
  OBVIOUS
<1>1. /\ settings \in Builds /\ troubles \in Troubles
      /\ wish = "none" /\ saved = "none"
      /\ disk = Written(0)
      /\ controller = OptedOutController(FALSE)
      /\ queue = NoQueue
      /\ stack = <<>>
      /\ owed = {}
      /\ runtime = Subsystem("down", FALSE, FALSE)
      /\ quit = NewCoordinator(FALSE)
      /\ exits = 0
      /\ nested = 0
  BY DEF Init
<1>2. settings \in Settings /\ troubles \subseteq Trouble
  BY <1>1, SettingsAssumption DEF Builds, Settings
<1>3. disk \in Records /\ disk.saved + disk.pending = 0 /\ Count = 0
  BY <1>1, RecordAssumption DEF Written, Records, Count
<1>4. /\ controller \in Controller /\ ~controller.optedIn
      /\ ~controller.shuttingDown
      /\ queue \in Queue /\ ~queue.flushing /\ queue.callbacks = <<>>
      /\ quit \in Coordinator
  BY <1>1, BlankTyped
<1>5. runtime \in Runtime /\ runtime.phase = "down"
  BY <1>1 DEF Subsystem, Runtime
<1>6. /\ stack \in Seq(Frame) /\ Kinds(stack) = {}
      /\ Exits(stack) /\ Clears(stack) /\ Fresh(stack)
  BY <1>1, Empty
<1>7. TypeOK
  <2>1. ConsentTypeOK
    <3>1. saved \in Choice /\ owed \subseteq Callback
      BY <1>1 DEF Choice
    <3>2. disk.saved + disk.pending <= MaxRecords
      BY <1>3, RecordAssumption
    <3>. QED BY <1>2, <1>3, <1>4, <1>6, <3>1, <3>2 DEF ConsentTypeOK
  <2>2. nested \in 0 .. MaxNested /\ exits \in Nat
    BY <1>1, CallAssumption
  <2>. QED BY <1>1, <1>4, <1>5, <2>1, <2>2 DEF TypeOK
<1>8. QueueInv /\ AnswersInv
  BY <1>1, <1>4, NothingOwed DEF QueueInv, AnswersInv
<1>9. PhaseInv
  BY <1>1, <1>5, <1>6 DEF PhaseInv, Blank
<1>10. QuitInv /\ ExitInv
  BY <1>1, <1>6 DEF QuitInv, ExitInv, NewCoordinator, Idle
<1>11. HandlersInv /\ SteadyInv /\ ConsentInv
  BY <1>4, <1>5, <1>6 DEF HandlersInv, SteadyInv, ConsentInv, Running
<1>12. PlainInv
  <2>1. ~(Count > 0) /\ ~Exists
    BY <1>3, <1>5 DEF Exists
  <2>. QED BY <1>1, <1>4, <2>1 DEF PlainInv
<1>. QED BY <1>7, <1>8, <1>9, <1>10, <1>11, <1>12 DEF IInv

(* Every step.                                                             *)
LEMMA StepKeeps == IInv /\ [Next]_vars => IInv'
<1>. SUFFICES ASSUME IInv, [Next]_vars PROVE IInv'
  OBVIOUS
<1>1. CASE UNCHANGED vars
  <2>1. UNCHANGED <<settings, saved, disk, controller, queue, stack, owed>>
        /\ UNCHANGED <<runtime, quit, exits, wish, nested, troubles>>
    BY <1>1 DEF vars
  <2>2. TypeOK' /\ QueueInv' /\ AnswersInv' /\ Sound(stack)'
    BY <2>1, Known DEF TypeOK, ConsentTypeOK, QueueInv, AnswersInv, Sound
  <2>3. PhaseInv' /\ QuitInv' /\ ExitInv' /\ HandlersInv'
    BY <2>1
       DEF IInv, PhaseInv, Blank, QuitInv, ExitInv, HandlersInv, Idle, Running
  <2>4. SteadyInv' /\ ConsentInv' /\ PlainInv'
    BY <2>1 DEF IInv, SteadyInv, ConsentInv, PlainInv, StaysOut, Count, Exists
  <2>. QED BY <2>2, <2>3, <2>4, AllKept
<1>2. CASE Initialize
  BY <1>2, InitializeKeeps
<1>3. CASE ProcessEnds
  BY <1>3, ProcessEndsKeeps
<1>4. CASE Continue
  BY <1>4, ContinueKeeps
<1>5. CASE FlushAndQuit \/ QuitTimeout
  BY <1>5, QuitKeeps, TimeoutKeeps
<1>6. CASE CaptureEvent \/ EnsureFailed
  BY <1>6, CaptureKeeps
<1>7. CASE FlushQueuedEvents \/ \E callback \in Callbacks : Flush(callback)
  BY <1>7, FlushKeeps
<1>8. CASE \E optIn \in BOOLEAN : SetAnalyticsOptIn(optIn)
  BY <1>8, SetOptInKeeps
<1>9. CASE HandleEnginePreExit \/ ApplicationWillTerminate
  BY <1>9, ShutdownKeeps
<1>10. CASE ApplicationWillEnterBackground
  BY <1>10, BackgroundKeeps
<1>11. CASE Deinitialize \/ Destroy
  BY <1>11, DeinitializeKeeps, DestroyKeeps
<1>12. CASE AnswerArrives \/ PipeRuns
  BY <1>12, AnswerKeeps, PipeKeeps
<1>. QED BY <1>1, <1>2, <1>3, <1>4, <1>5, <1>6, <1>7, <1>8, <1>9, <1>10,
            <1>11, <1>12 DEF Next

(* The types, where the callbacks wait, what may lie on the stack, and how *)
(* the consent, the quit and the teardown are bound to one another hold in *)
(* every reachable state (the whole subsystem).                            *)
THEOREM RuntimeInvariant == Spec => []IInv
<1>. QED BY Initially, StepKeeps, PTL DEF Spec

(* The fields have their types in every reachable state.                   *)
THEOREM Types == Spec => []TypeOK
<1>1. IInv => TypeOK
  BY DEF IInv
<1>. QED BY <1>1, RuntimeInvariant, PTL

-----------------------------------------------------------------------------
(* What follows from it.                                                   *)

(* The places of a callback in a sequence of different ones.               *)
LEMMA PlacesIn ==
  ASSUME NEW seq \in Seq(Callback), Distinct(seq), NEW callback
  PROVE  Cardinality({i \in DOMAIN seq : seq[i] = callback})
           = IF callback \in Values(seq) THEN 1 ELSE 0
<1>. DEFINE there == {i \in DOMAIN seq : seq[i] = callback}
<1>1. DOMAIN seq = 1 .. Len(seq)
  OBVIOUS
<1>2. CASE callback \in Values(seq)
  <2>1. PICK k \in 1 .. Len(seq) : seq[k] = callback
    BY <1>2 DEF Values
  <2>2. there = {k}
    BY <1>1, <2>1 DEF Distinct
  <2>. QED BY <1>2, <2>2, FS_Singleton
<1>3. CASE callback \notin Values(seq)
  <2>1. there = {}
    BY <1>1, <1>3 DEF Values
  <2>. QED BY <1>3, <2>1, FS_EmptySet
<1>. QED BY <1>2, <1>3

(* Its places in the frames.                                               *)
LEMMA PlacesAbove ==
  ASSUME stack \in Seq(Frame), Apart(stack), NEW callback
  PROVE  Cardinality({f \in Waiting : stack[f[1]].rest[f[2]] = callback})
           = IF callback \in Due(stack) THEN 1 ELSE 0
<1>. DEFINE there == {f \in Waiting : stack[f[1]].rest[f[2]] = callback}
            R(i) == stack[i].rest
<1>1. DOMAIN stack = 1 .. Len(stack)
  OBVIOUS
<1>2. \A i \in 1 .. Len(stack) :
        R(i) \in Seq(Callback) /\ DOMAIN R(i) = 1 .. Len(R(i))
  <2>. SUFFICES ASSUME NEW i \in 1 .. Len(stack)
                PROVE  R(i) \in Seq(Callback) /\ DOMAIN R(i) = 1 .. Len(R(i))
    OBVIOUS
  <2>1. stack[i] \in Frame
    OBVIOUS
  <2>2. R(i) \in Seq(Callback)
    BY <2>1 DEF Frame
  <2>. QED BY <2>2
<1>3. \A f \in Waiting : \E i \in 1 .. Len(stack) : \E k \in 1 .. Len(R(i)) :
        f = <<i, k>>
  BY <1>1, <1>2 DEF Waiting
<1>4. \A i \in 1 .. Len(stack) : \A k \in 1 .. Len(R(i)) : <<i, k>> \in Waiting
  BY <1>1, <1>2 DEF Waiting
<1>5. CASE callback \in Due(stack)
  <2>1. PICK i \in 1 .. Len(stack) : callback \in Values(R(i))
    BY <1>5 DEF Due
  <2>2. PICK k \in 1 .. Len(R(i)) : R(i)[k] = callback
    BY <2>1 DEF Values
  <2>3. <<i, k>> \in there
    BY <1>4, <2>2
  <2>4. ASSUME NEW f \in there PROVE f = <<i, k>>
    <3>1. PICK j \in 1 .. Len(stack) : \E l \in 1 .. Len(R(j)) : f = <<j, l>>
      BY <1>3
    <3>2. PICK l \in 1 .. Len(R(j)) : f = <<j, l>>
      BY <3>1
    <3>3. R(j)[l] = callback
      BY <3>2
    <3>4. callback \in Values(R(j)) /\ callback \in Values(R(i))
      BY <2>1, <3>3 DEF Values
    <3>5. j = i
      BY <3>4 DEF Apart
    <3>6. l = k
      BY <2>2, <3>3, <3>5 DEF Apart, Distinct
    <3>. QED BY <3>2, <3>5, <3>6
  <2>5. there = {<<i, k>>}
    BY <2>3, <2>4
  <2>. QED BY <1>5, <2>5, FS_Singleton
<1>6. CASE callback \notin Due(stack)
  <2>1. ASSUME NEW f \in there PROVE FALSE
    <3>1. PICK j \in 1 .. Len(stack) : \E l \in 1 .. Len(R(j)) : f = <<j, l>>
      BY <1>3
    <3>2. PICK l \in 1 .. Len(R(j)) : f = <<j, l>>
      BY <3>1
    <3>3. R(j)[l] = callback
      BY <3>2
    <3>4. callback \in Due(stack)
      BY <3>3 DEF Values, Due
    <3>. QED BY <1>6, <3>4
  <2>2. there = {}
    BY <2>1
  <2>. QED BY <1>6, <2>2, FS_EmptySet
<1>. QED BY <1>5, <1>6

(* Whatever skips, joins, completes, cancels or cuts off a flush, however  *)
(* deep the game's callbacks nest: a callback passed in waits in exactly   *)
(* one place until it is called, and in none after that (RequestFlush).    *)
THEOREM EveryCallbackOnce == Spec => []AnsweredOnce
<1>1. IInv => AnsweredOnce
  <2>. SUFFICES ASSUME IInv, NEW callback \in Callback
                PROVE  Held(callback) = IF callback \in owed THEN 1 ELSE 0
    BY DEF AnsweredOnce
  <2>1. /\ Distinct(queue.callbacks) /\ Apart(stack)
        /\ Values(queue.callbacks) \cap Due(stack) = {}
        /\ owed = Values(queue.callbacks) \cup Due(stack)
    BY Known DEF Sound, EachOnce
  <2>2. queue.callbacks \in Seq(Callback)
    BY Known DEF ConsentTypeOK, Queue
  <2>3. Cardinality({i \in DOMAIN queue.callbacks :
                       queue.callbacks[i] = callback})
          = IF callback \in Values(queue.callbacks) THEN 1 ELSE 0
    BY <2>1, <2>2, PlacesIn
  <2>4. Cardinality({f \in Waiting : stack[f[1]].rest[f[2]] = callback})
          = IF callback \in Due(stack) THEN 1 ELSE 0
    BY <2>1, Known, PlacesAbove
  <2>. QED BY <2>1, <2>3, <2>4 DEF Held
<1>. QED BY <1>1, RuntimeInvariant, PTL

(* A request is out only while the player consents, in every state of an   *)
(* opt-out too (DisableCollection).                                        *)
THEOREM ConsentedRequests == Spec => []NoRequestWithoutConsent
<1>1. IInv => NoRequestWithoutConsent
  BY DEF IInv, QueueInv, NoRequestWithoutConsent
<1>. QED BY <1>1, RuntimeInvariant, PTL

(* Without trouble, an opt-out that has come to its end holds until the    *)
(* next choice, over crashes and restarts: no collection, no record on     *)
(* disk, no timer and no handlers (SetAnalyticsOptIn).                     *)
THEOREM OptOutHolds == Spec => []NothingKeptAfterOptOut
<1>1. IInv => NothingKeptAfterOptOut
  <2>. SUFFICES ASSUME IInv, troubles = {}, Idle, Running, wish = "out"
                PROVE  /\ ~controller.optedIn /\ saved # "in"
                       /\ Count = 0
                       /\ ~runtime.timer /\ ~runtime.ensure
    BY DEF NothingKeptAfterOptOut
  <2>1. ~controller.optedIn /\ StaysOut /\ (Count > 0 => saved = "in")
    BY DEF IInv, PlainInv
  <2>2. saved # "in"
    BY <2>1 DEF StaysOut
  <2>3. Count = 0
    BY <2>1, <2>2, Known, CountTyped
  <2>4. Kinds(stack) = {}
    BY Empty DEF Idle
  <2>5. ~runtime.timer /\ ~runtime.ensure
    BY <2>1, <2>4 DEF IInv, HandlersInv
  <2>. QED BY <2>1, <2>2, <2>3, <2>5
<1>. QED BY <1>1, RuntimeInvariant, PTL

(* On a sound disk, and without a game that opts in from its callbacks,    *)
(* whoever consents has it in writing (EnableCollection).                  *)
THEOREM ConsentWritten == Spec => []ConsentIsOnDisk
<1>1. IInv => ConsentIsOnDisk
  BY DEF IInv, ConsentInv, ConsentIsOnDisk
<1>. QED BY <1>1, RuntimeInvariant, PTL

(* The exit is asked for when nothing waits on the pipe any more, not even *)
(* what the cancelled flush's callbacks captured (Shutdown).               *)
THEOREM ExitAfterTheWrites == Spec => []NothingUnsavedAtExit
<1>1. IInv => NothingUnsavedAtExit
  BY DEF IInv, ExitInv, NothingUnsavedAtExit
<1>. QED BY <1>1, RuntimeInvariant, PTL

(* The destructors find nobody to call and nothing bound (Deinitialize).   *)
THEOREM QuietDestruction == Spec => []DestructionIsQuiet
<1>1. IInv => DestructionIsQuiet
  <2>. SUFFICES ASSUME IInv, runtime.phase \in {"destroying", "destroyed"}
                PROVE  owed = {} /\ ~controller.bound
                       /\ FramesAt("callbacks") = {}
    BY DEF DestructionIsQuiet
  <2>1. owed = {} /\ ~controller.bound
    BY DEF IInv, PhaseInv
  <2>2. "callbacks" \notin Kinds(stack)
    <3>1. CASE stack = <<>>
      BY <3>1, Empty
    <3>2. CASE stack # <<>>
      <4>1. runtime.phase = "destroying"
        BY <3>2 DEF IInv, PhaseInv
      <4>2. \/ Head(stack).at = "drain" /\ Tail(stack) = <<Rest("destroy")>>
            \/ Head(stack).at = "destroy" /\ Tail(stack) = <<>>
        BY <3>2, <4>1, FrameAlive
      <4>3. Kinds(<<Rest("destroy")>>) = {"destroy"}
        BY DEF Kinds, Rest
      <4>4. Kinds(stack) = {Head(stack).at} \cup Kinds(Tail(stack))
        BY <3>2, TailKept
      <4>5. Kinds(Tail(stack)) \subseteq {"destroy"}
        BY <4>2, <4>3, Empty
      <4>6. Head(stack).at # "callbacks"
        BY <4>2
      <4>. QED BY <4>4, <4>5, <4>6
    <3>. QED BY <3>1, <3>2
  <2>3. FramesAt("callbacks") = {}
    <3>1. DOMAIN stack = 1 .. Len(stack)
      BY Known
    <3>. QED BY <2>2, <3>1 DEF FramesAt, Kinds
  <2>. QED BY <2>1, <2>3
<1>. QED BY <1>1, RuntimeInvariant, PTL

(* Between the calls, the exception handlers are those the consent asks    *)
(* for, and so is the timer when there always was a World to set and to    *)
(* clear it (SetAnalyticsOptIn, Initialize, StartFlushTimer,               *)
(* StopFlushTimer).                                                        *)
THEOREM HandlersFollow == Spec => []HandlersFollowConsent
<1>1. IInv => HandlersFollowConsent
  <2>1. Idle => Kinds(stack) \cap {"optIn", "optOut"} = {}
    BY Empty DEF Idle
  <2>. QED BY <2>1 DEF IInv, HandlersInv, HandlersFollowConsent
<1>. QED BY <1>1, RuntimeInvariant, PTL

-----------------------------------------------------------------------------
(* What a step may do.                                                     *)

(* Requests after Shutdown.                                                *)
LEMMA SendStep ==
  ASSUME IInv, [Next]_vars,
         controller.shuttingDown, ~queue.flushing, queue'.flushing
  PROVE  Count' > Count
<1>. SUFFICES ASSUME ~(Count' > Count) PROVE FALSE
  OBVIOUS
<1>1. CASE UNCHANGED <<controller, queue>>
  BY <1>1
<1>2. ASSUME NEW below \in Seq(Frame), Shutdown(below) PROVE FALSE
  BY <1>2, Known, ShutdownEffect
<1>3. ASSUME NEW below \in Seq(Frame), FinalizeQuit(below) PROVE FALSE
  <2>1. <<Rest("exit")>> \o below \in Seq(Frame)
    BY DEF Rest, Frame
  <2>. QED BY <1>1, <1>2, <1>3, <2>1 DEF FinalizeQuit
<1>4. ASSUME NEW callbacks \in Seq(Callback), NEW below \in Seq(Frame),
             RequestFlush(callbacks, below)
      PROVE  FALSE
  BY <1>4, Known, RequestFlushEffect
<1>5. ASSUME NEW below \in Seq(Frame), Capture(below) PROVE FALSE
  BY <1>1, <1>5 DEF Capture
<1>6. CASE Initialize
  BY <1>6, BlankTyped DEF Initialize, IInv, PhaseInv, Blank
<1>7. CASE ProcessEnds
  BY <1>7, BlankTyped DEF ProcessEnds
<1>8. CASE Continue
  <2>1. stack # <<>> /\ Tail(stack) \in Seq(Frame)
    BY <1>8, TailKept DEF Continue, Idle
  <2>2. CASE CallNext
    BY <1>1, <2>2 DEF CallNext
  <2>3. CASE QuitFlushCompleted
    BY <1>3, <2>1, <2>3 DEF QuitFlushCompleted
  <2>4. CASE ReturnToFinalizeQuit \/ ReturnToSetAnalyticsOptIn
    BY <1>1, <2>4 DEF ReturnToFinalizeQuit, ReturnToSetAnalyticsOptIn
  <2>5. CASE ReturnToDestroy
    BY <2>5, BlankTyped DEF ReturnToDestroy, DestroyQueue
  <2>6. CASE ReturnToClear
    BY <2>6, BlankTyped DEF ReturnToClear, DestroyQueue
  <2>7. CASE ReturnToMembers \/ ReturnToDrain
    BY <2>7 DEF ReturnToMembers, ReturnToDrain
  <2>8. CASE ReturnToCapture
    BY <2>1, <2>8, Known, ReturnToCaptureEffect
  <2>. QED BY <1>8, <2>2, <2>3, <2>4, <2>5, <2>6, <2>7, <2>8
         DEF Continue, ControllerReturns
<1>9. CASE FlushAndQuit
  <2>1. <<Quit>> \in Seq(Callback)
    BY DEF Callback
  <2>. QED BY <1>4, <1>9, <2>1, Known DEF FlushAndQuit, BeginFlushAndQuit
<1>10. CASE QuitTimeout
  BY <1>3, <1>10, Known DEF QuitTimeout
<1>11. CASE CaptureEvent \/ EnsureFailed
  BY <1>5, <1>11, Known DEF CaptureEvent, EnsureFailed
<1>12. CASE FlushQueuedEvents \/ \E callback \in Callbacks : Flush(callback)
  <2>1. <<>> \in Seq(Callback)
        /\ \A callback \in Callbacks : <<callback>> \in Seq(Callback)
    BY DEF Callback
  <2>2. \E callbacks \in Seq(Callback) : RequestFlushInternal(callbacks, stack)
    BY <1>12, <2>1 DEF FlushQueuedEvents, Flush
  <2>. QED BY <1>4, <2>2, Known, RequestFlushInternalEffect
<1>13. CASE \E optIn \in BOOLEAN : SetAnalyticsOptIn(optIn)
  <2>1. PICK at \in {"optIn", "optOut"}, optIn \in BOOLEAN :
          SetOptIn(optIn, Put(at, stack)) /\ (at = "optIn" <=> optIn)
    BY <1>13 DEF SetAnalyticsOptIn, Put
  <2>2. at \in Places
    BY DEF Places
  <2>3. Put(at, stack) \in Seq(Frame) /\ Put(at, stack) # <<>>
        /\ Put(at, stack)[1].at = at
    BY <2>2, Known, PutOnTop
  <2>4. CASE optIn /\ ~controller.optedIn /\ settings.valid
    <3>1. EnableCollection(controller.shuttingDown, Put(at, stack))
      BY <2>1, <2>4 DEF SetOptIn
    <3>2. controller.shuttingDown \in BOOLEAN
      BY Known DEF Controller
    <3>. QED BY <2>3, <2>4, <3>1, <3>2, Known, EnableCollectionEffect
  <2>5. CASE ~optIn /\ controller.optedIn
    <3>1. DisableCollection(Put(at, stack)) /\ at = "optOut"
      BY <2>1, <2>5 DEF SetOptIn
    <3>. QED BY <2>3, <3>1, Known, DisableCollectionEffect
  <2>6. CASE /\ ~(optIn /\ ~controller.optedIn /\ settings.valid)
             /\ ~(~optIn /\ controller.optedIn)
    BY <2>1, <2>6 DEF SetOptIn
  <2>. QED BY <2>4, <2>5, <2>6
<1>14. CASE HandleEnginePreExit \/ ApplicationWillTerminate \/ Deinitialize
  BY <1>2, <1>14, Known
     DEF HandleEnginePreExit, ApplicationWillTerminate, Deinitialize
<1>15. CASE Destroy
  <2>1. <<Rest("destroy")>> \in Seq(Frame)
    BY DEF Rest, Frame
  <2>. QED BY <1>2, <1>15, <2>1 DEF Destroy
<1>16. CASE ApplicationWillEnterBackground
  <2>1. <<>> \in Seq(Callback) /\ <<Rest("drain")>> \o stack \in Seq(Frame)
    <3>1. Rest("drain") \in Frame
      BY DEF Rest, Frame
    <3>. QED BY <3>1, Known
  <2>. QED BY <1>4, <1>16, <2>1
         DEF ApplicationWillEnterBackground, HandleApplicationEnteringBackground
<1>17. CASE AnswerArrives \/ PipeRuns
  BY <1>17 DEF AnswerArrives, RequestComplete, PipeRuns, WriteTask
<1>18. CASE UNCHANGED vars
  BY <1>18 DEF vars
<1>. QED BY <1>6, <1>7, <1>8, <1>9, <1>10, <1>11, <1>12, <1>13, <1>14,
            <1>15, <1>16, <1>17, <1>18 DEF Next

(* Once Shutdown has begun only a capture starts a request, in the same    *)
(* step that stores its record (RequestFlush, CaptureEvent).               *)
THEOREM OnlyCapturesSend == Spec => OnlyCapturesSendAfterShutdown
<1>1. IInv /\ [Next]_vars =>
        [(controller.shuttingDown /\ ~queue.flushing /\ queue'.flushing)
           => Count' > Count]_vars
  BY SendStep
<1>. QED BY <1>1, RuntimeInvariant, PTL DEF Spec, OnlyCapturesSendAfterShutdown

-----------------------------------------------------------------------------
(* The subsystem implements the contract of FlushAndQuit, but for its      *)
(* liveness.                                                               *)

(* The stage, where the contract sees it.                                  *)
LEMMA StageKept ==
  ASSUME quit' = quit, exits' = exits,
         runtime'.phase = "down" <=> runtime.phase = "down"
  PROVE  stage' = stage
BY DEF stage

(* No quit asks for the exit twice.                                        *)
LEMMA StageKnown ==
  ASSUME IInv
  PROVE  /\ stage \in Contract!Stages
         /\ stage = "absent" <=> runtime.phase = "down"
         /\ exits \in Nat /\ exits <= 1 /\ (exits = 1 => quit.finalized)
<1>1. exits \in Nat /\ exits <= 1 /\ (exits = 1 => quit.finalized)
  BY Known DEF IInv, ExitInv, TypeOK
<1>. QED BY <1>1 DEF stage, Contract!Stages

(* A quit is finalized: by the timeout or the end of the flush, and once.  *)
LEMMA FinalizeStage ==
  ASSUME IInv, NEW below, FinalizeQuit(below), quit.live, quit.begun,
         runtime.phase # "down", UNCHANGED <<runtime, exits>>
  PROVE  Contract!Finalize \/ stage' = stage
<1>1. CASE quit.finalized
  BY <1>1, StageKept DEF FinalizeQuit
<1>2. CASE ~quit.finalized
  <2>1. exits = 0
    BY <1>2, StageKnown
  <2>2. quit'.finalized
    BY <1>2 DEF FinalizeQuit
  <2>3. stage = "quitting" /\ stage' = "leaving"
    BY <1>2, <2>1, <2>2 DEF stage
  <2>. QED BY <2>3 DEF Contract!Finalize, Contract!Moves
<1>. QED BY <1>1, <1>2

(* Every step is one of the contract's, or changes nothing it sees.        *)
LEMMA ContractStep ==
  IInv /\ [Next]_vars => [Contract!Next]_stage
<1>. SUFFICES ASSUME IInv, [Next]_vars
              PROVE  Contract!Next \/ stage' = stage
  OBVIOUS
<1>1. CASE UNCHANGED <<quit, exits, runtime>>
  BY <1>1, StageKept
<1>2. CASE Initialize
  <2>1. /\ runtime.phase = "down" /\ runtime'.phase = "running"
        /\ quit' = NewCoordinator(TRUE) /\ exits' = exits
    <3>1. runtime.phase = "down" /\ quit' = NewCoordinator(TRUE)
          /\ exits' = exits
      BY <1>2 DEF Initialize
    <3>2. \A timer, ensure : Subsystem("running", timer, ensure).phase = "running"
      BY DEF Subsystem
    <3>3. \E timer, ensure : runtime' = Subsystem("running", timer, ensure)
      BY <1>2 DEF Initialize
    <3>. QED BY <3>1, <3>2, <3>3
  <2>2. exits = 0
    BY <2>1 DEF IInv, PhaseInv, Blank
  <2>3. stage = "absent" /\ stage' = "open"
    BY <2>1, <2>2 DEF stage, NewCoordinator
  <2>. QED BY <2>3 DEF Contract!Next, Contract!Open, Contract!Moves
<1>3. CASE ProcessEnds
  <2>1. runtime.phase # "down" /\ runtime'.phase = "down"
    BY <1>3 DEF ProcessEnds, Subsystem
  <2>2. stage \in Contract!Stages \ {"absent"} /\ stage' = "absent"
    BY <2>1, StageKnown DEF stage
  <2>. QED BY <2>2 DEF Contract!Next, Contract!Restart, Contract!Moves
<1>4. CASE Continue
  <2>1. stack # <<>>
    BY <1>4 DEF Continue, Idle
  <2>2. CASE CallNext \/ ControllerReturns
    BY <1>1, <2>2 DEF CallNext, ControllerReturns
  <2>3. CASE QuitFlushCompleted
    <3>1. /\ Head(stack).at = "quit" /\ FinalizeQuit(Tail(stack))
          /\ UNCHANGED <<runtime, exits>>
      BY <2>3 DEF QuitFlushCompleted
    <3>2. "quit" \in Kinds(stack) /\ runtime.phase # "down"
      BY <2>1, <3>1, TailKept, FrameAlive
    <3>3. quit.live /\ quit.begun
      BY <3>2 DEF IInv, QuitInv
    <3>. QED BY <3>1, <3>2, <3>3, FinalizeStage DEF Contract!Next
  <2>4. CASE ReturnToFinalizeQuit
    <3>1. /\ Head(stack).at = "exit" /\ exits' = exits + 1
          /\ UNCHANGED <<runtime, quit>>
      BY <2>4 DEF ReturnToFinalizeQuit
    <3>2. "exit" \in Kinds(stack) /\ runtime.phase # "down"
      BY <2>1, <3>1, TailKept, FrameAlive
    <3>3. quit.finalized /\ exits = 0 /\ exits' = 1
      BY <3>1, <3>2 DEF IInv, ExitInv
    <3>4. stage = "leaving" /\ stage' = "exited"
      BY <3>1, <3>2, <3>3 DEF stage
    <3>. QED BY <3>4 DEF Contract!Next, Contract!RequestExit, Contract!Moves
  <2>5. CASE ReturnToSetAnalyticsOptIn
    <3>1. runtime'.phase = runtime.phase /\ UNCHANGED <<quit, exits>>
      BY <2>5 DEF ReturnToSetAnalyticsOptIn, Subsystem
    <3>. QED BY <3>1, StageKept
  <2>6. CASE ReturnToDestroy
    <3>1. runtime'.phase = "destroyed" /\ UNCHANGED <<quit, exits>>
      BY <2>6 DEF ReturnToDestroy, Subsystem
    <3>2. runtime.phase # "down"
      BY <2>1, FrameAlive
    <3>. QED BY <3>1, <3>2, StageKept
  <2>. QED BY <1>4, <2>2, <2>3, <2>4, <2>5, <2>6 DEF Continue
<1>5. CASE FlushAndQuit
  <2>1. /\ Exists /\ quit.live /\ ~quit.begun /\ ~quit.finalized
        /\ quit'.live /\ quit'.begun /\ ~quit'.finalized
        /\ UNCHANGED <<runtime, exits>>
    BY <1>5 DEF FlushAndQuit, BeginFlushAndQuit, GameCalls
  <2>2. exits = 0 /\ runtime.phase # "down"
    BY <2>1, StageKnown DEF Exists
  <2>3. stage = "open" /\ stage' = "quitting"
    BY <2>1, <2>2 DEF stage
  <2>. QED BY <2>3 DEF Contract!Next, Contract!Begin, Contract!Moves
<1>6. CASE QuitTimeout
  <2>1. /\ quit.armed /\ FinalizeQuit(stack) /\ UNCHANGED <<runtime, exits>>
    BY <1>6 DEF QuitTimeout
  <2>2. quit.live /\ quit.begun
    BY <2>1 DEF IInv, QuitInv
  <2>3. runtime.phase # "down"
    <3>1. runtime.phase = "down" => quit = NewCoordinator(FALSE)
      BY DEF IInv, PhaseInv, Blank
    <3>2. ~NewCoordinator(FALSE).live
      BY DEF NewCoordinator
    <3>. QED BY <2>2, <3>1, <3>2
  <2>. QED BY <2>1, <2>2, <2>3, FinalizeStage DEF Contract!Next
<1>7. CASE Deinitialize
  <2>1. /\ runtime.phase = "running" /\ runtime'.phase = "deinitialized"
        /\ ~quit'.live /\ quit'.finalized = quit.finalized /\ exits' = exits
    BY <1>7 DEF Deinitialize, Running, Subsystem
  <2>2. CASE exits = 0 /\ ~quit.finalized /\ quit.live
    <3>1. stage \in {"open", "quitting"} /\ stage' = "abandoned"
      BY <2>1, <2>2 DEF stage
    <3>. QED BY <3>1 DEF Contract!Next, Contract!Abandon, Contract!Moves
  <2>3. CASE ~(exits = 0 /\ ~quit.finalized /\ quit.live)
    <3>1. exits \in {0, 1} /\ (exits = 1 => quit.finalized)
      BY StageKnown
    <3>2. CASE exits = 1
      BY <2>1, <3>2 DEF stage
    <3>3. CASE exits = 0 /\ quit.finalized
      BY <2>1, <3>3 DEF stage
    <3>4. CASE exits = 0 /\ ~quit.finalized /\ ~quit.live
      BY <2>1, <3>4 DEF stage
    <3>. QED BY <2>3, <3>1, <3>2, <3>3, <3>4
  <2>. QED BY <2>2, <2>3
<1>8. CASE Destroy
  <2>1. /\ runtime.phase = "deinitialized" /\ runtime'.phase = "destroying"
        /\ UNCHANGED <<quit, exits>>
    BY <1>8 DEF Destroy, Subsystem
  <2>. QED BY <2>1, StageKept
<1>9. CASE \/ CaptureEvent \/ EnsureFailed \/ FlushQueuedEvents
           \/ \E callback \in Callbacks : Flush(callback)
           \/ \E optIn \in BOOLEAN : SetAnalyticsOptIn(optIn)
           \/ HandleEnginePreExit \/ ApplicationWillTerminate
           \/ ApplicationWillEnterBackground \/ AnswerArrives \/ PipeRuns
  <2>1. UNCHANGED <<quit, exits, runtime>>
    BY <1>9 DEF CaptureEvent, EnsureFailed, FlushQueuedEvents, Flush,
                SetAnalyticsOptIn, HandleEnginePreExit,
                ApplicationWillTerminate, ApplicationWillEnterBackground,
                AnswerArrives, PipeRuns
  <2>. QED BY <1>1, <2>1
<1>10. CASE UNCHANGED vars
  BY <1>1, <1>10 DEF vars
<1>. QED BY <1>2, <1>3, <1>4, <1>5, <1>6, <1>7, <1>8, <1>9, <1>10 DEF Next

(* A quit that has begun asks the engine to exit at most once, and only    *)
(* after it was finalized, however the timeout, the end of the flush and   *)
(* the cancellation inside Shutdown race for it (FinalizeQuit).            *)
THEOREM QuitAtMostOnce == Spec => Contract!SafeSpec
<1>1. Init => Contract!Init
  BY DEF Init, Contract!Init, stage, Subsystem
<1>. QED BY <1>1, ContractStep, RuntimeInvariant, PTL DEF Spec, Contract!SafeSpec

=============================================================================
