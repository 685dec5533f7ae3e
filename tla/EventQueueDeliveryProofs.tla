----------------------- MODULE EventQueueDeliveryProofs ---------------------
(***************************************************************************)
(* More about EventQueue for every value of the constants, on top of the   *)
(* invariant of EventQueueProofs: first the back-off and the callbacks,    *)
(* then the order of delivery, the capacity and the emptiness.             *)
(*                                                                         *)
(* A callback that is owed waits in the queue or in a frame of the game    *)
(* thread.  Every handler makes one of a few moves with the callbacks: it  *)
(* adds one to the queue, takes those of the queue to a new frame, or      *)
(* takes off, or shortens, the frame on top.                               *)
(*                                                                         *)
(* A batch is a prefix of the records that are still held when it is       *)
(* built: an older record was deleted, is in the batch, or has been        *)
(* delivered.  From then on older records only disappear.  That is so      *)
(* because the pipe is drained before a batch is built, because no write   *)
(* replaces a file, and because a restart indexes no record that was not   *)
(* indexed before, except torn ones.                                       *)
(*                                                                         *)
(* A flush that finds no usable record has visited all of them, since the  *)
(* oldest usable one would always be visited.                              *)
(***************************************************************************)
EXTENDS EventQueueProofs

(* The callbacks that wait in a sequence.                                  *)
In(cbs) == {cbs[i] : i \in DOMAIN cbs}

Different(cbs) == \A i, k \in DOMAIN cbs : cbs[i] = cbs[k] => i = k

(* Each owed callback waits once; frames that call none hold none.         *)
Once(cbs, frames, owed) ==
  /\ Different(cbs)
  /\ \A j \in DOMAIN frames :
       /\ Different(frames[j].rest)
       /\ In(frames[j].rest) \cap In(cbs) = {}
       /\ frames[j].at # "notify" => frames[j].rest = <<>>
  /\ \A j, k \in DOMAIN frames :
       j # k => In(frames[j].rest) \cap In(frames[k].rest) = {}
  /\ owed = In(cbs) \cup UNION {In(frames[j].rest) : j \in DOMAIN frames}

(* The queue is never paused and flushing at the same time.                *)
PauseOK(q) == q.flushing => q.pause = 0

FlushInv == PauseOK(queue) /\ Once(queue.callbacks, stack, queue.owed)

-----------------------------------------------------------------------------
(* Sequences of callbacks.                                                 *)

(* Short ones.                                                             *)
LEMMA InShort ==
  /\ In(<<>>) = {} /\ Different(<<>>)
  /\ \A c : In(<<c>>) = {c} /\ Different(<<c>>) /\ Tail(<<c>>) = <<>>
BY DEF In, Different

(* One sequence after another.                                             *)
LEMMA InConcat ==
  ASSUME NEW a \in Seq(Callbacks), NEW b \in Seq(Callbacks),
         Different(a), Different(b), In(a) \cap In(b) = {}
  PROVE  /\ In(a \o b) = In(a) \cup In(b)
         /\ Different(a \o b)
<1> DEFINE n == Len(a)  m == Len(b)  ab == a \o b
<1>1. /\ n \in Nat /\ m \in Nat /\ DOMAIN a = 1..n /\ DOMAIN b = 1..m
      /\ DOMAIN ab = 1..(n + m)
      /\ \A i \in 1..n : ab[i] = a[i]
      /\ \A i \in 1..m : ab[n + i] = b[i]
  OBVIOUS
<1> HIDE DEF n, m, ab
<1>2. \A i \in 1..(n + m) : i \in 1..n \/ (i - n \in 1..m /\ i = n + (i - n))
  BY <1>1
<1>3. \A i \in 1..(n + m) : \/ i \in 1..n /\ ab[i] = a[i]
                            \/ i - n \in 1..m /\ ab[i] = b[i - n]
  BY <1>1, <1>2
<1>4. In(ab) = In(a) \cup In(b)
  <2>1. ASSUME NEW x \in In(ab) PROVE x \in In(a) \cup In(b)
    BY <1>1, <1>3 DEF In
  <2>2. ASSUME NEW x \in In(a) PROVE x \in In(ab)
    <3>1. PICK i \in 1..n : x = a[i]
      BY <1>1 DEF In
    <3>2. i \in 1..(n + m) /\ ab[i] = x
      BY <1>1, <3>1
    <3> QED
      BY <1>1, <3>2 DEF In
  <2>3. ASSUME NEW x \in In(b) PROVE x \in In(ab)
    <3>1. PICK i \in 1..m : x = b[i]
      BY <1>1 DEF In
    <3>2. n + i \in 1..(n + m) /\ ab[n + i] = x
      BY <1>1, <3>1
    <3> QED
      BY <1>1, <3>2 DEF In
  <2> QED
    BY <2>1, <2>2, <2>3
<1>5. Different(ab)
  <2> SUFFICES ASSUME NEW i \in 1..(n + m), NEW k \in 1..(n + m), ab[i] = ab[k]
               PROVE  i = k
    BY <1>1 DEF Different
  <2>1. CASE i \in 1..n /\ k \in 1..n
    BY <1>1, <2>1 DEF Different
  <2>2. CASE i - n \in 1..m /\ k - n \in 1..m
    <3>1. i = n + (i - n) /\ k = n + (k - n)
      BY <1>1
    <3>2. b[i - n] = b[k - n]
      BY <1>1, <2>2, <3>1
    <3>3. i - n = k - n
      BY <1>1, <2>2, <3>2 DEF Different
    <3> QED
      BY <1>1, <3>3
  <2>3. CASE i \in 1..n /\ k - n \in 1..m
    <3>1. ab[i] = a[i] /\ ab[k] = b[k - n]
      BY <1>1, <1>2, <2>3
    <3>2. a[i] \in In(a) /\ b[k - n] \in In(b)
      BY <1>1, <2>3 DEF In
    <3> QED
      BY <3>1, <3>2
  <2>4. CASE i - n \in 1..m /\ k \in 1..n
    <3>1. ab[k] = a[k] /\ ab[i] = b[i - n]
      BY <1>1, <1>2, <2>4
    <3>2. a[k] \in In(a) /\ b[i - n] \in In(b)
      BY <1>1, <2>4 DEF In
    <3> QED
      BY <3>1, <3>2
  <2> QED
    BY <1>2, <2>1, <2>2, <2>3, <2>4
<1> QED
  BY <1>4, <1>5 DEF ab

(* The first callback is taken out and called.                             *)
LEMMA InTail ==
  ASSUME NEW a \in Seq(Callbacks), Different(a), a # <<>>
  PROVE  /\ In(Tail(a)) = In(a) \ {Head(a)} /\ Head(a) \in In(a)
         /\ Different(Tail(a)) /\ Tail(a) \in Seq(Callbacks)
         /\ Called(a) = {Head(a)}
<1> DEFINE n == Len(a)  t == Tail(a)
<1>1. /\ n \in Nat /\ n > 0 /\ DOMAIN a = 1..n /\ Head(a) = a[1]
      /\ t \in Seq(Callbacks) /\ DOMAIN t = 1..(n - 1)
      /\ \A i \in 1..(n - 1) : t[i] = a[i + 1]
  OBVIOUS
<1> HIDE DEF n, t
<1>2. Different(t)
  <2> SUFFICES ASSUME NEW i \in 1..(n - 1), NEW k \in 1..(n - 1), t[i] = t[k]
               PROVE  i = k
    BY <1>1 DEF Different
  <2>1. i + 1 \in 1..n /\ k + 1 \in 1..n /\ a[i + 1] = a[k + 1]
    BY <1>1
  <2>2. i + 1 = k + 1
    BY <1>1, <2>1 DEF Different
  <2> QED
    BY <2>2
<1>3. ASSUME NEW x \in In(t) PROVE x \in In(a) \ {a[1]}
  <2>1. PICK i \in 1..(n - 1) : x = t[i]
    BY <1>1 DEF In
  <2>2. i + 1 \in 1..n /\ x = a[i + 1] /\ i + 1 # 1 /\ 1 \in 1..n
    BY <1>1, <2>1
  <2>3. x # a[1]
    BY <1>1, <2>2 DEF Different
  <2> QED
    BY <1>1, <2>2, <2>3 DEF In
<1>4. ASSUME NEW x \in In(a), x # a[1] PROVE x \in In(t)
  <2>1. PICK i \in 1..n : x = a[i]
    BY <1>1 DEF In
  <2>2. i # 1
    BY <1>4, <2>1
  <2>3. i - 1 \in 1..(n - 1) /\ t[i - 1] = x
    <3>1. i - 1 \in 1..(n - 1) /\ (i - 1) + 1 = i
      BY <1>1, <2>2
    <3> QED
      BY <1>1, <2>1, <3>1
  <2> QED
    BY <1>1, <2>3 DEF In
<1>5. a[1] \in In(a)
  BY <1>1 DEF In
<1>6. Called(a) = {Head(a)}
  BY DEF Called
<1> QED
  BY <1>1, <1>2, <1>3, <1>4, <1>5, <1>6 DEF t

-----------------------------------------------------------------------------
(* The moves.                                                              *)

(* A frame on top of the others.                                           *)
LEMMA OnTop ==
  ASSUME NEW f \in Frame, NEW frames \in Seq(Frame)
  PROVE  /\ <<f>> \o frames \in Seq(Frame)
         /\ DOMAIN (<<f>> \o frames) = 1..(Len(frames) + 1)
         /\ DOMAIN frames = 1..Len(frames)
         /\ (<<f>> \o frames)[1] = f
         /\ \A j \in 1..Len(frames) : (<<f>> \o frames)[j + 1] = frames[j]
         /\ \A j \in 1..(Len(frames) + 1) : j = 1 \/ j - 1 \in 1..Len(frames)
         /\ \A j \in 1..(Len(frames) + 1) :
              j # 1 => (<<f>> \o frames)[j] = frames[j - 1]
OBVIOUS

(* A frame is entered with callbacks that wait nowhere.                    *)
LEMMA Entered ==
  ASSUME NEW cbs \in Seq(Callbacks), NEW frames \in Seq(Frame), NEW owed,
         Once(cbs, frames, owed), NEW f \in Frame, Different(f.rest),
         In(f.rest) \cap owed = {}, f.at # "notify" => f.rest = <<>>
  PROVE  Once(cbs, <<f>> \o frames, owed \cup In(f.rest))
<1> DEFINE st == <<f>> \o frames
           n  == Len(frames)
<1>1. /\ n \in Nat /\ DOMAIN st = 1..(n + 1) /\ DOMAIN frames = 1..n
      /\ st[1] = f
      /\ \A j \in 1..(n + 1) : j = 1 \/ j - 1 \in 1..n
      /\ \A j \in 1..(n + 1) : j # 1 => st[j] = frames[j - 1]
      /\ \A j \in 1..n : st[j + 1] = frames[j] /\ j + 1 \in 1..(n + 1)
      /\ 1 \in 1..(n + 1)
  BY OnTop
<1> HIDE DEF st, n
<1>2. /\ \A j \in 1..n : In(frames[j].rest) \subseteq owed
      /\ In(cbs) \subseteq owed
  BY <1>1 DEF Once
<1>3. \A j \in 1..(n + 1) :
        /\ Different(st[j].rest)
        /\ In(st[j].rest) \cap In(cbs) = {}
        /\ st[j].at # "notify" => st[j].rest = <<>>
  <2> SUFFICES ASSUME NEW j \in 1..(n + 1)
               PROVE  /\ Different(st[j].rest)
                      /\ In(st[j].rest) \cap In(cbs) = {}
                      /\ st[j].at # "notify" => st[j].rest = <<>>
    OBVIOUS
  <2>1. CASE j = 1
    BY <1>1, <1>2, <2>1
  <2>2. CASE j # 1
    <3>1. j - 1 \in 1..n /\ st[j] = frames[j - 1]
      BY <1>1, <2>2
    <3> QED
      BY <1>1, <3>1 DEF Once
  <2> QED
    BY <2>1, <2>2
<1>4. ASSUME NEW j \in 1..(n + 1), NEW k \in 1..(n + 1), j # k
      PROVE  In(st[j].rest) \cap In(st[k].rest) = {}
  <2>1. CASE j = 1
    <3>1. k - 1 \in 1..n /\ st[k] = frames[k - 1] /\ st[j] = f
      BY <1>1, <1>4, <2>1
    <3> QED
      BY <1>2, <3>1
  <2>2. CASE k = 1
    <3>1. j - 1 \in 1..n /\ st[j] = frames[j - 1] /\ st[k] = f
      BY <1>1, <1>4, <2>2
    <3> QED
      BY <1>2, <3>1
  <2>3. CASE j # 1 /\ k # 1
    <3>1. /\ j - 1 \in 1..n /\ st[j] = frames[j - 1]
          /\ k - 1 \in 1..n /\ st[k] = frames[k - 1]
          /\ j - 1 # k - 1
      BY <1>1, <1>4, <2>3
    <3> QED
      BY <1>1, <3>1 DEF Once
  <2> QED
    BY <2>1, <2>2, <2>3
<1>5. owed \cup In(f.rest)
        = In(cbs) \cup UNION {In(st[j].rest) : j \in DOMAIN st}
  <2>1. owed = In(cbs) \cup UNION {In(frames[j].rest) : j \in 1..n}
    BY <1>1 DEF Once
  <2>2. ASSUME NEW x \in UNION {In(frames[j].rest) : j \in 1..n}
        PROVE  x \in UNION {In(st[j].rest) : j \in DOMAIN st}
    <3>1. PICK j \in 1..n : x \in In(frames[j].rest)
      OBVIOUS
    <3>2. j + 1 \in DOMAIN st /\ st[j + 1] = frames[j]
      BY <1>1
    <3> QED
      BY <3>1, <3>2
  <2>3. ASSUME NEW x \in UNION {In(st[j].rest) : j \in DOMAIN st}
        PROVE  \/ x \in In(f.rest)
               \/ x \in UNION {In(frames[j].rest) : j \in 1..n}
    <3>1. PICK j \in 1..(n + 1) : x \in In(st[j].rest)
      BY <1>1
    <3>2. CASE j = 1
      BY <1>1, <3>1, <3>2
    <3>3. CASE j # 1
      <4>1. j - 1 \in 1..n /\ st[j] = frames[j - 1]
        BY <1>1, <3>3
      <4> QED
        BY <3>1, <4>1
    <3> QED
      BY <3>2, <3>3
  <2>4. In(f.rest) \subseteq UNION {In(st[j].rest) : j \in DOMAIN st}
    BY <1>1
  <2> QED
    BY <2>1, <2>2, <2>3, <2>4
<1> QED
  BY <1>1, <1>3, <1>4, <1>5 DEF Once, st

(* The frame on top is left.                                               *)
LEMMA Left ==
  ASSUME NEW cbs \in Seq(Callbacks), NEW frames \in Seq(Frame), NEW owed,
         Once(cbs, frames, owed), frames # <<>>
  PROVE  /\ Once(cbs, Tail(frames), owed \ In(Head(frames).rest))
         /\ Tail(frames) \in Seq(Frame) /\ Head(frames) \in Frame
         /\ Different(Head(frames).rest)
         /\ In(Head(frames).rest) \subseteq owed
         /\ Head(frames).at # "notify" => Head(frames).rest = <<>>
<1> DEFINE t == Tail(frames)
           h == Head(frames)
           n == Len(frames)
<1>1. /\ n \in Nat /\ DOMAIN frames = 1..n /\ DOMAIN t = 1..(n - 1)
      /\ t \in Seq(Frame) /\ h \in Frame /\ h = frames[1]
      /\ \A j \in 1..(n - 1) : t[j] = frames[j + 1]
      /\ \A j \in 1..(n - 1) : j + 1 \in 1..n /\ j + 1 # 1
      /\ \A j \in 1..n : j # 1 => j - 1 \in 1..(n - 1) /\ (j - 1) + 1 = j
      /\ \A j, k \in 1..(n - 1) : j # k => j + 1 # k + 1
      /\ 1 \in 1..n
  OBVIOUS
<1> HIDE DEF t, h, n
<1>2. /\ Different(h.rest) /\ In(h.rest) \cap In(cbs) = {}
      /\ In(h.rest) \subseteq owed
      /\ h.at # "notify" => h.rest = <<>>
  <2>1. 1 \in DOMAIN frames /\ h = frames[1]
    BY <1>1
  <2>2. /\ Different(h.rest) /\ In(h.rest) \cap In(cbs) = {}
        /\ h.at # "notify" => h.rest = <<>>
    BY <2>1 DEF Once
  <2>3. owed = In(cbs) \cup UNION {In(frames[j].rest) : j \in DOMAIN frames}
    BY DEF Once
  <2>4. In(h.rest) \subseteq owed
    BY <2>1, <2>3
  <2> QED
    BY <2>2, <2>4
<1>3. ASSUME NEW j \in 1..(n - 1)
      PROVE  /\ Different(t[j].rest)
             /\ In(t[j].rest) \cap In(cbs) = {}
             /\ t[j].at # "notify" => t[j].rest = <<>>
             /\ In(t[j].rest) \cap In(h.rest) = {}
  <2>1. /\ j + 1 \in DOMAIN frames /\ t[j] = frames[j + 1]
        /\ 1 \in DOMAIN frames /\ h = frames[1] /\ j + 1 # 1
    BY <1>1
  <2>2. In(frames[j + 1].rest) \cap In(frames[1].rest) = {}
    BY <2>1 DEF Once
  <2> QED
    BY <2>1, <2>2 DEF Once
<1>4. ASSUME NEW j \in 1..(n - 1), NEW k \in 1..(n - 1), j # k
      PROVE  In(t[j].rest) \cap In(t[k].rest) = {}
  <2>1. /\ j + 1 \in DOMAIN frames /\ t[j] = frames[j + 1]
        /\ k + 1 \in DOMAIN frames /\ t[k] = frames[k + 1] /\ j + 1 # k + 1
    BY <1>1, <1>4
  <2> QED
    BY <2>1 DEF Once
<1>5. owed \ In(h.rest) = In(cbs) \cup UNION {In(t[j].rest) : j \in DOMAIN t}
  <2>1. owed = In(cbs) \cup UNION {In(frames[j].rest) : j \in 1..n}
    BY <1>1 DEF Once
  <2>2. ASSUME NEW x \in owed, x \notin In(h.rest), x \notin In(cbs)
        PROVE  x \in UNION {In(t[j].rest) : j \in DOMAIN t}
    <3>1. PICK j \in 1..n : x \in In(frames[j].rest)
      BY <2>1, <2>2
    <3>2. j # 1
      BY <1>1, <2>2, <3>1
    <3>3. j - 1 \in 1..(n - 1) /\ t[j - 1] = frames[j]
      BY <1>1, <3>2
    <3> QED
      BY <1>1, <3>1, <3>3
  <2>3. ASSUME NEW x \in UNION {In(t[j].rest) : j \in DOMAIN t}
        PROVE  x \in owed \ In(h.rest)
    <3>1. PICK j \in 1..(n - 1) : x \in In(t[j].rest)
      BY <1>1
    <3>2. j + 1 \in 1..n /\ x \in In(frames[j + 1].rest)
      BY <1>1, <3>1
    <3> QED
      BY <1>3, <2>1, <3>1, <3>2
  <2>4. In(cbs) \subseteq owed \ In(h.rest)
    BY <1>2, <2>1
  <2> QED
    BY <2>1, <2>2, <2>3, <2>4
<1> QED
  BY <1>1, <1>2, <1>3, <1>4, <1>5 DEF Once, t, h

(* A callback is registered.                                               *)
LEMMA Registered ==
  ASSUME NEW cbs \in Seq(Callbacks), NEW frames \in Seq(Frame), NEW owed,
         Once(cbs, frames, owed), NEW more \in Seq(Callbacks),
         Different(more), In(more) \cap owed = {}
  PROVE  Once(cbs \o more, frames, owed \cup In(more))
<1>1. In(cbs) \subseteq owed /\ Different(cbs)
      /\ \A j \in DOMAIN frames : In(frames[j].rest) \subseteq owed
  BY DEF Once
<1>2. In(cbs \o more) = In(cbs) \cup In(more) /\ Different(cbs \o more)
  BY <1>1, InConcat
<1> QED
  BY <1>1, <1>2 DEF Once

(* A flush ends: its callbacks move to a frame, the first one is called.   *)
LEMMA Ended ==
  ASSUME NEW cbs \in Seq(Callbacks), NEW frames \in Seq(Frame), NEW owed,
         Once(cbs, frames, owed), NEW result \in Result, NEW tail \in Seq(Frame),
         \/ tail = <<>>
         \/ \E f \in Frame : tail = <<f>> /\ f.rest = <<>> /\ f.at # "notify"
  PROVE  Once(<<>>, Notify(result, cbs, tail) \o frames, owed \ Called(cbs))
<1>1. Once(<<>>, frames, owed \ In(cbs)) /\ Different(cbs) /\ In(cbs) \subseteq owed
  <2> DEFINE U == UNION {In(frames[j].rest) : j \in DOMAIN frames}
  <2>1. Different(cbs) /\ owed = In(cbs) \cup U
    BY DEF Once
  <2>2. U \cap In(cbs) = {}
    BY DEF Once
  <2> HIDE DEF U
  <2>3. owed \ In(cbs) = {} \cup U
    BY <2>1, <2>2
  <2>4. Once(<<>>, frames, {} \cup U)
    BY InShort DEF Once, U
  <2> QED
    BY <2>1, <2>3, <2>4
<1>2. CASE cbs = <<>>
  <2>1. Notify(result, cbs, tail) \o frames = frames
    BY <1>2 DEF Notify
  <2>2. Called(cbs) = {} /\ In(cbs) = {}
    BY <1>2, InShort DEF Called
  <2> QED
    BY <1>1, <2>1, <2>2
<1>3. CASE cbs # <<>>
  <2> DEFINE f == [at |-> "notify", result |-> result, rest |-> Tail(cbs), gen |-> 0]
  <2>1. /\ In(Tail(cbs)) = In(cbs) \ {Head(cbs)} /\ Head(cbs) \in In(cbs)
        /\ Different(Tail(cbs)) /\ Tail(cbs) \in Seq(Callbacks)
        /\ Called(cbs) = {Head(cbs)}
    BY <1>1, <1>3, InTail
  <2>2. f \in Frame /\ f.at = "notify" /\ f.rest = Tail(cbs)
    BY <2>1, GenerationType DEF Frame
  <2>3. Notify(result, cbs, tail) = <<f>> \o tail
    BY <1>3 DEF Notify
  <2> HIDE DEF f
  <2>4. tail \o frames \in Seq(Frame) /\ Once(<<>>, tail \o frames, owed \ In(cbs))
    <3>1. CASE tail = <<>>
      <4>1. tail \o frames = frames
        BY <3>1
      <4> QED
        BY <1>1, <4>1
    <3>2. CASE \E g \in Frame : tail = <<g>> /\ g.rest = <<>> /\ g.at # "notify"
      <4>1. PICK g \in Frame : tail = <<g>> /\ g.rest = <<>> /\ g.at # "notify"
        BY <3>2
      <4>2. <<>> \in Seq(Callbacks) /\ Different(g.rest) /\ In(g.rest) = {}
        BY <4>1, InShort
      <4>3. Once(<<>>, <<g>> \o frames, (owed \ In(cbs)) \cup In(g.rest))
        BY <1>1, <4>1, <4>2, Entered
      <4>4. (owed \ In(cbs)) \cup In(g.rest) = owed \ In(cbs)
        BY <4>2
      <4>5. <<g>> \o frames \in Seq(Frame)
        OBVIOUS
      <4> QED
        BY <4>1, <4>3, <4>4, <4>5
    <3> QED
      BY <3>1, <3>2
  <2>5. Once(<<>>, <<f>> \o (tail \o frames), (owed \ In(cbs)) \cup In(f.rest))
    <3>1. <<>> \in Seq(Callbacks) /\ In(f.rest) \cap (owed \ In(cbs)) = {}
      BY <2>1, <2>2
    <3> QED
      BY <2>1, <2>2, <2>4, <3>1, Entered
  <2>6. (owed \ In(cbs)) \cup In(f.rest) = owed \ Called(cbs)
    BY <1>1, <2>1, <2>2
  <2>7. Notify(result, cbs, tail) \o frames = <<f>> \o (tail \o frames)
    BY <2>2, <2>3
  <2> QED
    BY <2>5, <2>6, <2>7
<1> QED
  BY <1>2, <1>3

(* A caller is answered at once.                                           *)
LEMMA Answered ==
  ASSUME NEW cbs \in Seq(Callbacks), NEW frames \in Seq(Frame), NEW owed,
         Once(cbs, frames, owed), NEW result \in Result,
         NEW more, more = <<>> \/ \E c \in Callbacks : more = <<c>>
  PROVE  Once(cbs, Notify(result, more, <<>>) \o frames, owed)
<1>1. CASE more = <<>>
  BY <1>1 DEF Notify
<1>2. CASE \E c \in Callbacks : more = <<c>>
  <2> DEFINE f == [at |-> "notify", result |-> result, rest |-> <<>>, gen |-> 0]
  <2>1. PICK c \in Callbacks : more = <<c>>
    BY <1>2
  <2>2. f \in Frame /\ f.at = "notify" /\ f.rest = <<>>
    BY GenerationType DEF Frame
  <2>3. Notify(result, more, <<>>) = <<f>> \o <<>>
    <3>1. more # <<>> /\ Tail(more) = <<>>
      BY <2>1
    <3> QED
      BY <3>1 DEF Notify
  <2> HIDE DEF f
  <2>4. <<f>> \o <<>> = <<f>>
    OBVIOUS
  <2>5. Different(f.rest) /\ In(f.rest) = {}
    BY <2>2, InShort
  <2>6. Once(cbs, <<f>> \o frames, owed \cup In(f.rest))
    BY <2>2, <2>5, Entered
  <2>7. owed \cup In(f.rest) = owed
    BY <2>5
  <2> QED
    BY <2>3, <2>4, <2>6, <2>7
<1> QED
  BY <1>1, <1>2

(* The next callback of the frame on top is called.                        *)
LEMMA NextCalled ==
  ASSUME NEW cbs \in Seq(Callbacks), NEW frames \in Seq(Frame), NEW owed,
         Once(cbs, frames, owed), frames # <<>>
  PROVE  LET left == Head(frames).rest
         IN  Once(cbs, Notify(Head(frames).result, left, <<>>) \o Tail(frames),
                  owed \ Called(left))
<1> DEFINE h == Head(frames)  t == Tail(frames)
<1>1. /\ Once(cbs, t, owed \ In(h.rest)) /\ t \in Seq(Frame) /\ h \in Frame
      /\ Different(h.rest) /\ In(h.rest) \subseteq owed
  BY Left
<1> HIDE DEF h, t
<1>2. h.rest \in Seq(Callbacks) /\ h.result \in Result
  BY <1>1 DEF Frame
<1>3. CASE h.rest = <<>>
  <2>1. /\ Notify(h.result, h.rest, <<>>) \o t = t
        /\ In(h.rest) = {} /\ Called(h.rest) = {}
    BY <1>1, <1>3, InShort DEF Notify, Called
  <2> QED
    BY <1>1, <2>1 DEF h, t
<1>4. CASE h.rest # <<>>
  <2> DEFINE left == h.rest
             f == [at |-> "notify", result |-> h.result, rest |-> Tail(left), gen |-> 0]
  <2>1. /\ In(Tail(left)) = In(left) \ {Head(left)} /\ Head(left) \in In(left)
        /\ Different(Tail(left)) /\ Tail(left) \in Seq(Callbacks)
        /\ Called(left) = {Head(left)}
    BY <1>1, <1>2, <1>4, InTail
  <2>2. f \in Frame /\ f.at = "notify" /\ f.rest = Tail(left)
    BY <1>2, <2>1, GenerationType DEF Frame
  <2>3. Notify(h.result, left, <<>>) = <<f>> \o <<>>
    BY <1>4 DEF Notify
  <2> HIDE DEF f
  <2>4. <<f>> \o <<>> = <<f>>
    OBVIOUS
  <2>5. Once(cbs, <<f>> \o t, (owed \ In(left)) \cup In(f.rest))
    <3>1. In(f.rest) \cap (owed \ In(left)) = {} /\ Different(f.rest)
      BY <2>1, <2>2
    <3> QED
      BY <1>1, <2>2, <3>1, Entered
  <2>6. (owed \ In(left)) \cup In(f.rest) = owed \ Called(left)
    BY <1>1, <2>1, <2>2
  <2> QED
    BY <2>3, <2>4, <2>5, <2>6 DEF h, t
<1> QED
  BY <1>3, <1>4

-----------------------------------------------------------------------------
(* The handlers.                                                           *)

(* What is left to do after the callbacks of a flush: nothing, or to       *)
(* return to SendBatch or Clear.                                           *)
Tails == {<<>>} \cup {Rest("sent", g) : g \in Generation}
                \cup {Rest("clear", g) : g \in Generation}

(* They are sequences of at most one frame, in which no callback waits.    *)
LEMMA TailFacts ==
  ASSUME NEW tail \in Tails
  PROVE  /\ tail \in Seq(Frame)
         /\ \/ tail = <<>>
            \/ \E f \in Frame : tail = <<f>> /\ f.rest = <<>> /\ f.at # "notify"
<1>1. CASE tail = <<>>
  BY <1>1
<1>2. CASE \E at \in {"sent", "clear"}, g \in Generation : tail = Rest(at, g)
  <2>1. PICK at \in {"sent", "clear"}, g \in Generation : tail = Rest(at, g)
    BY <1>2
  <2> DEFINE f == [at |-> at, result |-> "Failed", rest |-> <<>>, gen |-> g]
  <2>2. f \in Frame /\ f.rest = <<>> /\ f.at # "notify"
    BY DEF Frame, Result
  <2>3. tail = <<f>>
    BY <2>1 DEF Rest
  <2> HIDE DEF f
  <2> QED
    BY <2>2, <2>3
<1> QED
  BY <1>1, <1>2 DEF Tails

(* A flush that ends.                                                      *)
LEMMA EndKeeps ==
  ASSUME NEW q \in Queue, NEW result \in Result, NEW tail \in Tails,
         stack \in Seq(Frame), Once(q.callbacks, stack, q.owed),
         CompleteFlush(q, result, tail)
  PROVE  FlushInv'
<1>1. /\ queue' = Closed(q)
      /\ stack' = Notify(result, q.callbacks, tail) \o stack
  BY DEF CompleteFlush
<1>2. /\ queue'.flushing = FALSE /\ queue'.callbacks = <<>>
      /\ queue'.owed = q.owed \ Called(q.callbacks)
  BY <1>1 DEF Closed, Queue
<1>3. Once(<<>>, stack', q.owed \ Called(q.callbacks))
  <2>1. q.callbacks \in Seq(Callbacks)
    BY DEF Queue
  <2> QED
    BY <1>1, <2>1, TailFacts, Ended
<1> QED
  BY <1>2, <1>3 DEF FlushInv, PauseOK

(* Sending a batch: the flush goes on, or has failed to start its request. *)
LEMMA SendKeeps ==
  ASSUME NEW q \in Queue, q.pause = 0, NEW batch \in SUBSET Events, NEW requests,
         stack \in Seq(Frame), Once(q.callbacks, stack, q.owed),
         SendBatch(q, batch, requests)
  PROVE  FlushInv'
<1> DEFINE p == [q EXCEPT !.inFlight = @ \cup batch]
<1>1. /\ p \in Queue /\ p.callbacks = q.callbacks /\ p.owed = q.owed /\ p.pause = 0
      /\ p.generation \in Generation
  BY DEF Queue
<1>2. \/ queue' = [p EXCEPT !.handle = p.generation] /\ UNCHANGED stack
      \/ CompleteFlush(RetryState(p, "none"), "Failed", Rest("sent", p.generation))
  BY DEF SendBatch
<1> HIDE DEF p
<1>3. CASE queue' = [p EXCEPT !.handle = p.generation] /\ UNCHANGED stack
  <2>1. queue'.callbacks = q.callbacks /\ queue'.owed = q.owed /\ queue'.pause = 0
    BY <1>1, <1>3 DEF Queue
  <2> QED
    BY <1>3, <2>1 DEF FlushInv, PauseOK
<1>4. CASE CompleteFlush(RetryState(p, "none"), "Failed", Rest("sent", p.generation))
  <2>1. RetryState(p, "none") \in Queue
        /\ RetryState(p, "none").callbacks = p.callbacks
    BY <1>1, RetryStateFacts
  <2>2. RetryState(p, "none").owed = p.owed
    BY <1>1 DEF RetryState, Queue
  <2>3. "Failed" \in Result /\ Rest("sent", p.generation) \in Tails
    BY <1>1 DEF Result, Tails
  <2> QED
    BY <1>1, <1>4, <2>1, <2>2, <2>3, EndKeeps
<1> QED
  BY <1>2, <1>3, <1>4

(* One turn of a flush.                                                    *)
LEMMA TurnKeeps ==
  ASSUME NEW q \in Queue, q.pause = 0, NEW s \in Store, NEW requests,
         stack \in Seq(Frame), Once(q.callbacks, stack, q.owed),
         ContinueFlush(q, s, requests)
  PROVE  FlushInv'
<1>0. {"Empty", "Drained", "ProgressBlocked"} \subseteq Result /\ <<>> \in Tails
  BY DEF Result, Tails
<1>1. CASE s.index = {}
  <2>1. PICK result \in Result : CompleteFlush(q, result, <<>>)
    BY <1>0, <1>1 DEF ContinueFlush
  <2> QED
    BY <1>0, <2>1, EndKeeps
<1>2. CASE s.index # {}
  <2>1. PICK failed \in SaveFailures(s), unreadable \in LoadFailures(s),
             stuck \in DeleteFailures(s) :
          \E torn \in SUBSET failed :
            TryBuildNextBatch(q, s, requests, WaitUntilEmpty(s, failed, torn),
                              unreadable, stuck)
    BY <1>2 DEF ContinueFlush
  <2>2. PICK torn \in SUBSET failed :
          TryBuildNextBatch(q, s, requests, WaitUntilEmpty(s, failed, torn),
                            unreadable, stuck)
    BY <2>1
  <2> DEFINE w       == WaitUntilEmpty(s, failed, torn)
             usable  == Usable(s, w, unreadable)
             visited == FirstOf(s.index, usable, q.batchLimit)
             batch   == visited \cap usable
  <2>3. batch \in SUBSET Events
    BY DEF Store, FirstOf, Usable
  <2>4. \/ CompleteFlush(q, "ProgressBlocked", <<>>)
        \/ CompleteFlush(q, "Drained", <<>>)
        \/ SendBatch(q, batch, requests)
    BY <2>2 DEF TryBuildNextBatch
  <2> HIDE DEF batch
  <2> QED
    BY <1>0, <2>3, <2>4, EndKeeps, SendKeeps
<1> QED
  BY <1>1, <1>2

(* What a caller may pass to Flush: no callback, or one that is not owed.  *)
Passed == {<<>>} \cup {<<c>> : c \in Callbacks \ queue.owed}

(* Flush.                                                                  *)
LEMMA FlushKeeps ==
  ASSUME IInv, FlushInv, NEW s \in Store, NEW more \in Passed, Flush(s, more)
  PROVE  FlushInv'
<1>0. /\ queue \in Queue /\ stack \in Seq(Frame)
      /\ queue.callbacks \in Seq(Callbacks) /\ queue.owed \subseteq Callbacks
  BY DEF IInv, TypeOK, Queue
<1>1. /\ more \in Seq(Callbacks) /\ Different(more) /\ In(more) \cap queue.owed = {}
      /\ Called(more) = In(more) /\ In(more) \subseteq Callbacks
  <2>1. CASE more = <<>>
    BY <2>1, InShort DEF Called
  <2>2. CASE \E c \in Callbacks \ queue.owed : more = <<c>>
    <3>1. PICK c \in Callbacks \ queue.owed : more = <<c>>
      BY <2>2
    <3>2. more \in Seq(Callbacks) /\ more # <<>> /\ Head(more) = c
      BY <3>1
    <3>3. In(more) = {c} /\ Different(more)
      BY <3>1, InShort
    <3> QED
      BY <3>2, <3>3 DEF Called
  <2> QED
    BY <2>1, <2>2 DEF Passed
<1>2. Once(queue.callbacks \o more, stack, queue.owed \cup Called(more))
  BY <1>0, <1>1, Registered DEF FlushInv
<1>3. CASE queue.flushing
  <2>1. /\ UNCHANGED stack
        /\ queue' = [queue EXCEPT !.callbacks = @ \o more,
                                  !.owed = @ \cup Called(more)]
    BY <1>3 DEF Flush
  <2>2. /\ queue'.callbacks = queue.callbacks \o more
        /\ queue'.owed = queue.owed \cup Called(more)
        /\ queue'.pause = queue.pause
    BY <1>0, <2>1 DEF Queue
  <2> QED
    BY <1>2, <1>3, <2>1, <2>2 DEF FlushInv, PauseOK
<1>4. CASE ~queue.flushing /\ (~online \/ queue.pause > 0)
  <2>1. PICK result \in Result : Answer(s, result, more)
    BY <1>4 DEF Flush, Result
  <2>2. /\ stack' = Notify(result, more, <<>>) \o stack
        /\ UNCHANGED queue
    BY <2>1 DEF Answer
  <2>3. more = <<>> \/ \E c \in Callbacks : more = <<c>>
    BY DEF Passed
  <2>4. Once(queue.callbacks, stack', queue.owed)
    BY <1>0, <2>2, <2>3, Answered DEF FlushInv
  <2> QED
    BY <2>2, <2>4 DEF FlushInv, PauseOK
<1>5. CASE ~queue.flushing /\ online /\ ~(queue.pause > 0)
  <2> DEFINE q == Started(s, more)
  <2>1. ContinueFlush(q, s, wire)
    BY <1>5 DEF Flush
  <2>2. queue.callbacks \o more \in Seq(Callbacks)
        /\ NextGeneration(queue.generation) \in Generation
    BY <1>0, <1>1, GenerationType DEF Queue
  <2>3. queue.pause = 0
    BY <1>0, <1>5 DEF Queue
  <2>4. /\ q \in Queue /\ q.pause = 0
        /\ q.callbacks = queue.callbacks \o more
        /\ q.owed = queue.owed \cup Called(more)
    BY <1>0, <1>1, <2>2, <2>3 DEF Queue, Started
  <2> HIDE DEF q
  <2> QED
    BY <1>0, <1>2, <2>1, <2>4, TurnKeeps
<1> QED
  BY <1>3, <1>4, <1>5

(* Accepting an event, and the flush at the threshold.                     *)
LEMMA AcceptKeeps ==
  ASSUME IInv, FlushInv, NEW e \in Events, NEW s \in Store, Accept(s, e)
  PROVE  FlushInv'
<1>1. SaveEvent(s, e) \in Store
  <2> DEFINE longer == Append(s.pipe, e)
  <2>1. longer \in Seq(Events)
    BY DEF Store
  <2>2. SaveEvent(s, e) = [s EXCEPT !.index = @ \cup {e}, !.pipe = longer]
    BY DEF SaveEvent
  <2> HIDE DEF longer
  <2> QED
    BY <2>1, <2>2 DEF Store
<1>2. \/ Flush(SaveEvent(s, e), <<>>)
      \/ UNCHANGED <<queue, stack>>
  BY DEF Accept
<1>3. <<>> \in Passed
  BY DEF Passed
<1> QED
  BY <1>1, <1>2, <1>3, FlushKeeps DEF FlushInv, PauseOK

(* Captures, with the eviction before them.                                *)
LEMMA EnqueueKeeps ==
  ASSUME IInv, FlushInv, Enqueue
  PROVE  FlushInv'
<1>0. store \in Store
  BY DEF IInv, TypeOK
<1>3. PICK e \in Events :
        \/ Accept(store, e)
        \/ \E failed \in SaveFailures(store), stuck \in DeleteFailures(store) :
           \E torn \in SUBSET failed :
             EvictThenAccept(WaitUntilEmpty(store, failed, torn), stuck, e)
  BY DEF Enqueue, NewIds, Earliest
<1>1. CASE Accept(store, e)
  BY <1>0, <1>1, AcceptKeeps
<1>2. CASE \E failed \in SaveFailures(store), stuck \in DeleteFailures(store) :
           \E torn \in SUBSET failed :
             EvictThenAccept(WaitUntilEmpty(store, failed, torn), stuck, e)
  <2>1. PICK failed \in SaveFailures(store), stuck \in DeleteFailures(store) :
          \E torn \in SUBSET failed :
             EvictThenAccept(WaitUntilEmpty(store, failed, torn), stuck, e)
    BY <1>2
  <2>2. PICK torn \in SUBSET failed :
          EvictThenAccept(WaitUntilEmpty(store, failed, torn), stuck, e)
    BY <2>1
  <2> DEFINE w == WaitUntilEmpty(store, failed, torn)
  <2>3. w \in Store
    BY <1>0, WaitFacts DEF IInv
  <2> HIDE DEF w
  <2>4. \A D : Discard(w, D) \in Store \/ ~(D \subseteq Events)
    BY <2>3 DEF Discard, DeleteEvents, Store, FileState
  <2>5. CASE UNCHANGED <<queue, stack>>
    BY <2>5 DEF FlushInv, PauseOK
  <2>6. CASE \E D \in SUBSET Events : Accept(Discard(w, D), e)
    BY <1>0, <2>4, <2>6, AcceptKeeps
  <2>7. (\E D \in SUBSET Events : Accept(Discard(w, D), e)) \/ UNCHANGED <<queue, stack>>
    <3> DEFINE oldest     == Earliest(store.index \ queue.inFlight)
               candidates == oldest \cup (w.index \ queue.inFlight)
               older(x)   == {f \in candidates : f < x}
               tried      == {x \in candidates :
                                \/ x \in oldest
                                \/ Cardinality(w.index \ older(x)) >= Capacity}
               evicted    == {x \in tried : \A f \in tried \cap stuck : x < f}
    <3>1. oldest \subseteq Events /\ w.index \subseteq Events
      BY <1>0, <2>3 DEF Earliest, Store
    <3>2. evicted \in SUBSET Events
      BY <3>1
    <3>3. Accept(Discard(w, evicted), e) \/ UNCHANGED <<queue, stack>>
      BY <2>2 DEF EvictThenAccept, w
    <3> QED
      BY <3>2, <3>3
  <2> QED
    BY <2>5, <2>6, <2>7
<1> QED
  BY <1>1, <1>2, <1>3

(* Flushes asked for by the program.                                       *)
LEMMA RequestFlushKeeps ==
  ASSUME IInv, FlushInv, RequestFlush
  PROVE  FlushInv'
<1>1. \E more \in Passed : Flush(store, more)
  BY DEF RequestFlush, Passed
<1> QED
  BY <1>1, FlushKeeps DEF IInv, TypeOK

(* A cancellation, alone or as the first step of Clear.                    *)
LEMMA CancelKeeps ==
  ASSUME IInv, FlushInv, NEW tail \in Tails, CancelThen(tail)
  PROVE  FlushInv'
<1> DEFINE q == [queue EXCEPT !.generation = NextGeneration(@)]
<1>1. /\ q \in Queue /\ q.callbacks = queue.callbacks /\ q.owed = queue.owed
      /\ stack \in Seq(Frame) /\ "Cancelled" \in Result
  BY GenerationType DEF IInv, TypeOK, Queue, Result
<1>2. CompleteFlush(q, "Cancelled", tail)
  BY DEF CancelThen
<1> HIDE DEF q
<1> QED
  BY <1>1, <1>2, EndKeeps DEF FlushInv

(* Returning to what was interrupted.                                      *)
LEMMA ReturnKeeps ==
  ASSUME IInv, FlushInv, CallNext \/ ReturnToSendBatch \/ ReturnToClear
  PROVE  FlushInv'
<1>0. /\ queue \in Queue /\ stack \in Seq(Frame) /\ queue.callbacks \in Seq(Callbacks)
      /\ Once(queue.callbacks, stack, queue.owed) /\ PauseOK(queue)
  BY DEF IInv, TypeOK, Queue, FlushInv
<1>1. CASE CallNext
  <2> DEFINE left == Head(stack).rest
  <2>1. /\ stack # <<>>
        /\ stack' = Notify(Head(stack).result, left, <<>>) \o Tail(stack)
        /\ queue' = [queue EXCEPT !.owed = @ \ Called(left)]
    BY <1>1 DEF CallNext
  <2>2. Once(queue.callbacks, stack', queue.owed \ Called(left))
    BY <1>0, <2>1, NextCalled
  <2> HIDE DEF left
  <2>3. /\ queue'.callbacks = queue.callbacks /\ queue'.pause = queue.pause
        /\ queue'.owed = queue.owed \ Called(left) /\ queue'.flushing = queue.flushing
    BY <1>0, <2>1 DEF Queue
  <2> QED
    BY <1>0, <2>2, <2>3 DEF FlushInv, PauseOK
<1>2. CASE ReturnToSendBatch \/ ReturnToClear
  <2>1. /\ stack # <<>> /\ Head(stack).at \in {"sent", "clear"}
        /\ UNCHANGED queue /\ stack' = Tail(stack)
    <3>1. CASE ReturnToClear
      BY <3>1 DEF ReturnToClear
    <3>2. CASE ReturnToSendBatch
      <4>1. stack # <<>> /\ Head(stack).at = "sent"
        BY <3>2 DEF ReturnToSendBatch
      <4>2. 1 \in DOMAIN stack /\ Head(stack) = stack[1]
        BY <1>0, <4>1
      <4>3. ~(queue.flushing /\ queue.generation = Head(stack).gen)
        BY <4>1, <4>2 DEF IInv, FlightOK, FramesOK
      <4> QED
        BY <3>2, <4>1, <4>3 DEF ReturnToSendBatch
    <3> QED
      BY <1>2, <3>1, <3>2
  <2>2. /\ Once(queue.callbacks, Tail(stack), queue.owed \ In(Head(stack).rest))
        /\ Head(stack).rest = <<>>
    BY <1>0, <2>1, Left
  <2>3. queue.owed \ In(Head(stack).rest) = queue.owed
    BY <2>2, InShort
  <2> QED
    BY <1>0, <2>1, <2>2, <2>3 DEF FlushInv
<1> QED
  BY <1>1, <1>2

(* The outcome of a request, of which one that was cancelled tells nothing.*)
LEMMA OutcomeKeeps ==
  ASSUME IInv, FlushInv, NEW r \in wire, NEW status, RequestComplete(r, status)
  PROVE  FlushInv'
<1> DEFINE q        == [queue EXCEPT !.handle = NoHandle, !.inFlight = @ \ r.batch]
           requests == wire \ {r}
<1>0. /\ queue \in Queue /\ stack \in Seq(Frame) /\ store \in Store
      /\ r \in Request /\ r.batch \subseteq Events
      /\ Once(queue.callbacks, stack, queue.owed) /\ PauseOK(queue)
      /\ {"Failed", "ProgressBlocked"} \subseteq Result /\ <<>> \in Tails
  BY DEF IInv, TypeOK, FlushInv, Request, Result, Tails
<1>1. q \in Queue /\ q.callbacks = queue.callbacks /\ q.owed = queue.owed
  BY <1>0 DEF Queue
<1>2. \/ UNCHANGED <<queue, stack>>
      \/ HandleSuccess(q, r.batch, requests)
      \/ HandleRejection(q, r.batch, requests)
      \/ HandleRetryable(q, status, requests)
  BY DEF RequestComplete, HandleBatchComplete
<1> HIDE DEF q, requests
<1>3. CASE UNCHANGED <<queue, stack>>
  BY <1>0, <1>3 DEF FlushInv
<1>4. CASE HandleSuccess(q, r.batch, requests)
  <2> DEFINE sent(failed, torn, stuck) == SentRecords(store, r.batch, failed, torn, stuck)
             left(failed, torn, stuck) ==
               DeleteEvents(sent(failed, torn, stuck).store, sent(failed, torn, stuck).gone)
             p == [q EXCEPT !.failures = 0, !.pause = 0]
  <2>1. PICK failed \in SaveFailures(store), stuck \in DeleteFailures(store) :
          \E torn \in SUBSET failed :
            \/ CompleteFlush(p, "ProgressBlocked", <<>>)
            \/ ContinueFlush(p, left(failed, torn, stuck), requests)
    BY <1>4 DEF HandleSuccess
  <2>2. PICK torn \in SUBSET failed :
            \/ CompleteFlush(p, "ProgressBlocked", <<>>)
            \/ ContinueFlush(p, left(failed, torn, stuck), requests)
    BY <2>1
  <2>3. /\ p \in Queue /\ p.pause = 0
        /\ p.callbacks = queue.callbacks /\ p.owed = queue.owed
    BY <1>1 DEF Queue
  <2>4. left(failed, torn, stuck) \in Store
    <3>1. LET here == SentRecords(store, r.batch, failed, torn, stuck)
          IN  /\ here.store \in Store /\ StoreOK(here.store, accepted)
              /\ here.store.pipe = <<>>
              /\ store.index \cup store.lost \subseteq here.store.index \cup here.store.lost
              /\ here.gone \in SUBSET Events /\ here.gone \subseteq r.batch
      BY <1>0, SentRecordsFacts DEF IInv
    <3>2. LET here == sent(failed, torn, stuck)
          IN  /\ here.store \in Store /\ StoreOK(here.store, accepted)
              /\ here.store.pipe = <<>> /\ here.gone \in SUBSET Events
      BY <3>1
    <3> HIDE DEF sent
    <3> QED
      BY <3>2, DeleteFacts
  <2> HIDE DEF p, left
  <2> QED
    BY <1>0, <2>2, <2>3, <2>4, EndKeeps, TurnKeeps
<1>5. CASE HandleRejection(q, r.batch, requests)
  <2>1. CompleteFlush(q, "Failed", <<>>)
    BY <1>5 DEF HandleRejection
  <2> QED
    BY <1>0, <1>1, <2>1, EndKeeps
<1>6. CASE HandleRetryable(q, status, requests)
  <2>1. CompleteFlush(RetryState(q, status), "Failed", <<>>)
    BY <1>6 DEF HandleRetryable
  <2>2. /\ RetryState(q, status) \in Queue
        /\ RetryState(q, status).callbacks = q.callbacks
    BY <1>1, RetryStateFacts
  <2>3. RetryState(q, status).owed = q.owed
    BY <1>1 DEF RetryState, Queue
  <2> QED
    BY <1>0, <1>1, <2>1, <2>2, <2>3, EndKeeps
<1> QED
  BY <1>2, <1>3, <1>4, <1>5, <1>6

-----------------------------------------------------------------------------
(* The invariant and what follows from it.                                 *)

(* Every step keeps it.                                                    *)
LEMMA FlushStep ==
  ASSUME IInv, FlushInv, [Next]_vars
  PROVE  FlushInv'
<1>1. CASE Enqueue
  BY <1>1, EnqueueKeeps
<1>2. CASE RequestFlush
  BY <1>2, RequestFlushKeeps
<1>3. CASE CancelInFlightRequest
  BY <1>3, CancelKeeps DEF CancelInFlightRequest, Tails
<1>4. CASE Clear
  <2>1. CASE CancelThen(Rest("clear", 0))
    BY <2>1, CancelKeeps, GenerationType DEF Tails
  <2>2. CASE UNCHANGED <<queue, stack>>
    BY <2>2 DEF FlushInv, PauseOK
  <2> QED
    BY <1>4, <2>1, <2>2 DEF Clear
<1>5. CASE CallNext \/ ReturnToSendBatch \/ ReturnToClear
  BY <1>5, ReturnKeeps
<1>6. CASE \E r \in wire, status \in Statuses : RequestComplete(r, status)
  BY <1>6, OutcomeKeeps
<1>7. CASE \/ \E r \in wire : ServerIngests(r) \/ Vanish(r)
           \/ BackgroundWrite \/ ReachabilityChanges \/ UNCHANGED vars
  <2>1. UNCHANGED <<queue, stack>>
    BY <1>7 DEF ServerIngests, Vanish, BackgroundWrite, ReachabilityChanges, vars
  <2> QED
    BY <2>1 DEF FlushInv, PauseOK
<1>8. CASE Tick
  <2>1. /\ queue'.callbacks = queue.callbacks /\ queue'.owed = queue.owed
        /\ queue'.flushing = queue.flushing /\ UNCHANGED stack
        /\ queue.pause > 0 /\ queue.pause \in Nat
    BY <1>8 DEF Tick, IInv, TypeOK, Queue
  <2>2. ~queue.flushing
    BY <2>1 DEF FlushInv, PauseOK
  <2> QED
    BY <2>1, <2>2 DEF FlushInv, PauseOK
<1>9. CASE Restart
  <2>1. queue' = NewQueue /\ stack' = <<>>
    BY <1>9 DEF Restart
  <2> QED
    BY <2>1, InShort DEF FlushInv, PauseOK, NewQueue, Once
<1> QED
  BY <1>1, <1>2, <1>3, <1>4, <1>5, <1>6, <1>7, <1>8, <1>9 DEF Next, GameThread

(* The queue is never paused and flushing, and a callback waits once.      *)
THEOREM FlushInvariant == Spec => []FlushInv
<1>1. Init => FlushInv
  BY InShort DEF Init, FlushInv, PauseOK, NewQueue, Once
<1>2. IInv /\ FlushInv /\ [Next]_vars => FlushInv'
  BY FlushStep
<1> QED
  BY <1>1, <1>2, InitHolds, StepHolds, PTL DEF Spec

(* Where a callback stands in a sequence: at one place if it is in it.     *)
PlacesOf(cbs, c) == {k \in DOMAIN cbs : cbs[k] = c}

(* Callbacks that differ stand at one place each.                          *)
LEMMA PlaceFacts ==
  ASSUME NEW cbs, Different(cbs), NEW c
  PROVE  /\ c \in In(cbs) => \E i : PlacesOf(cbs, c) = {i}
         /\ c \notin In(cbs) => PlacesOf(cbs, c) = {}
<1>1. ASSUME c \in In(cbs)
      PROVE  \E i : PlacesOf(cbs, c) = {i}
  <2>1. PICK i \in DOMAIN cbs : cbs[i] = c
    BY <1>1 DEF In
  <2>2. PlacesOf(cbs, c) = {i}
    BY <2>1 DEF Different, PlacesOf
  <2> QED
    BY <2>2
<1>2. ASSUME c \notin In(cbs) PROVE PlacesOf(cbs, c) = {}
  BY <1>2 DEF In, PlacesOf
<1> QED
  BY <1>1, <1>2

(* Every callback that is owed waits once, and no other waits              *)
(* (FlushCompleteCallbacks, CompleteFlush).                                *)
THEOREM ResolvedOnce == Spec => []CallbacksResolveOnce
<1>1. FlushInv => CallbacksResolveOnce
  <2> SUFFICES ASSUME FlushInv, NEW c \in Callbacks
               PROVE  Cardinality(Waiting(c)) = IF c \in queue.owed THEN 1 ELSE 0
    BY DEF CallbacksResolveOnce
  <2> DEFINE cbs == queue.callbacks
             Here  == {<<0, i>> : i \in PlacesOf(cbs, c)}
             At(j) == {<<j, i>> : i \in PlacesOf(stack[j].rest, c)}
             There == UNION {At(j) : j \in DOMAIN stack}
  <2>0. Waiting(c) = Here \cup There
    BY DEF Waiting, PlacesOf
  <2>1. /\ Different(cbs) /\ \A j \in DOMAIN stack : Different(stack[j].rest)
        /\ \A j \in DOMAIN stack : In(stack[j].rest) \cap In(cbs) = {}
        /\ \A j, k \in DOMAIN stack :
             j # k => In(stack[j].rest) \cap In(stack[k].rest) = {}
        /\ queue.owed = In(cbs) \cup UNION {In(stack[j].rest) : j \in DOMAIN stack}
    BY DEF FlushInv, Once
  <2>2. /\ c \in In(cbs) => \E i : PlacesOf(cbs, c) = {i}
        /\ c \notin In(cbs) => PlacesOf(cbs, c) = {}
    BY <2>1, PlaceFacts
  <2>3. \A j \in DOMAIN stack :
          /\ c \in In(stack[j].rest) => \E i : PlacesOf(stack[j].rest, c) = {i}
          /\ c \notin In(stack[j].rest) => PlacesOf(stack[j].rest, c) = {}
    BY <2>1, PlaceFacts
  <2> HIDE DEF cbs
  <2>4. CASE c \in In(cbs)
    <3>1. PICK i : PlacesOf(cbs, c) = {i}
      BY <2>2, <2>4
    <3>2. \A j \in DOMAIN stack : c \notin In(stack[j].rest)
      BY <2>1, <2>4
    <3>3. Here = {<<0, i>>}
      BY <3>1
    <3>4. There = {}
      BY <2>3, <3>2
    <3>5. Waiting(c) = {<<0, i>>} /\ c \in queue.owed
      BY <2>0, <2>1, <2>4, <3>3, <3>4
    <3> QED
      BY <3>5, FS_Singleton
  <2>5. CASE c \notin In(cbs) /\ \E j \in DOMAIN stack : c \in In(stack[j].rest)
    <3>1. PICK j \in DOMAIN stack : c \in In(stack[j].rest)
      BY <2>5
    <3>2. PICK i : PlacesOf(stack[j].rest, c) = {i}
      BY <2>3, <3>1
    <3>3. \A k \in DOMAIN stack : k # j => c \notin In(stack[k].rest)
      BY <2>1, <3>1
    <3>4. \A k \in DOMAIN stack : k # j => At(k) = {}
      BY <2>3, <3>3
    <3>5. At(j) = {<<j, i>>}
      BY <3>2
    <3>6. Here = {}
      BY <2>2, <2>5
    <3> HIDE DEF At
    <3>7. There = {<<j, i>>}
      BY <3>4, <3>5
    <3>8. Waiting(c) = {<<j, i>>} /\ c \in queue.owed
      BY <2>0, <2>1, <3>1, <3>6, <3>7
    <3> QED
      BY <3>8, FS_Singleton
  <2>6. CASE c \notin In(cbs) /\ \A j \in DOMAIN stack : c \notin In(stack[j].rest)
    <3>1. Here = {} /\ There = {}
      BY <2>2, <2>3, <2>6
    <3>2. Waiting(c) = {} /\ c \notin queue.owed
      BY <2>0, <2>1, <2>6, <3>1
    <3> QED
      BY <3>2, FS_EmptySet
  <2> QED
    BY <2>4, <2>5, <2>6
<1> QED
  BY <1>1, FlushInvariant, PTL

(* No request is open while the back-off lasts (PausedUntil).              *)
THEOREM QuietWhilePaused == Spec => []NoRequestWhilePaused
<1>1. IInv /\ FlushInv => NoRequestWhilePaused
  <2> SUFFICES ASSUME IInv, FlushInv, queue.pause > 0
               PROVE  OpenRequests = {}
    BY DEF NoRequestWhilePaused
  <2>1. queue.pause \in Nat
    BY DEF IInv, TypeOK, Queue
  <2>2. ~queue.flushing
    BY <2>1 DEF FlushInv, PauseOK
  <2> QED
    BY <2>2, NotFlushing DEF IInv, FlightOK
<1> QED
  BY <1>1, FlushInvariant, Invariant, PTL

-----------------------------------------------------------------------------
(* The order of delivery, the capacity and the emptiness.                  *)

(* A record that is, or may still become, a good one on disk.              *)
Held(s, e) == e \in Pending(s) \/ s.file[e] = "whole"

(* Good records are indexed.                                               *)
WholeIndexed(s) == \A e \in Events : s.file[e] = "whole" => e \in s.index

(* No request, and no delivery, has overtaken a record that is held, but   *)
(* for those that arrived late.                                            *)
InOrder(s, requests, exempt) ==
  \A e \in Events \ exempt : Held(s, e) =>
    /\ \A f \in delivered : e < f => e \in delivered
    /\ \A r \in requests : \A f \in r.batch : e < f => e \in delivered \cup r.batch

OrderInv == WholeIndexed(store) /\ InOrder(store, wire, late)

(* What storage calls other than a save do: records only disappear.        *)
Reduced(s, t) ==
  /\ t.index \subseteq s.index
  /\ \A e \in Events : Held(t, e) => Held(s, e)
  /\ WholeIndexed(s) => WholeIndexed(t)

-----------------------------------------------------------------------------
(* Storage calls.                                                          *)

(* Draining the pipe turns held records into good ones, or loses them.     *)
LEMMA WaitReduces ==
  ASSUME NEW s \in Store, NEW n, StoreOK(s, n),
         NEW failed \in SaveFailures(s), NEW torn \in SUBSET failed
  PROVE  Reduced(s, WaitUntilEmpty(s, failed, torn))
<1> DEFINE w == WaitUntilEmpty(s, failed, torn)
<1>1. failed \subseteq Pending(s)
  BY DEF SaveFailures
<1>2. /\ w.index = s.index \ failed /\ w.pipe = <<>>
      /\ \A e \in Events : w.file[e] = "whole" =>
           e \notin failed /\ (e \in Pending(s) \/ s.file[e] = "whole")
  BY <1>1 DEF WaitUntilEmpty, StoreOK
<1>3. Pending(w) = {}
  BY <1>2, PipeFacts DEF Pending
<1> QED
  BY <1>2, <1>3 DEF Reduced, Held, WholeIndexed, StoreOK

(* Deleting records only removes them.                                     *)
LEMMA DeleteReduces ==
  ASSUME NEW s \in Store, NEW D
  PROVE  Reduced(s, DeleteEvents(s, D)) /\ Reduced(s, Discard(s, D))
BY DEF Store, DeleteEvents, Discard, Reduced, Held, WholeIndexed, Pending

(* One call after another.                                                 *)
LEMMA ReducedTwice ==
  ASSUME NEW s, NEW t, NEW u, Reduced(s, t), Reduced(t, u)
  PROVE  Reduced(s, u)
BY DEF Reduced

(* Fewer records, and the same requests or fewer, stay in order.           *)
LEMMA ReducedKeeps ==
  ASSUME NEW s, NEW t, Reduced(s, t), NEW requests, NEW others, NEW exempt,
         InOrder(s, requests, exempt),
         \A r \in others : \E o \in requests : o.batch = r.batch
  PROVE  InOrder(t, others, exempt)
BY DEF Reduced, InOrder

-----------------------------------------------------------------------------
(* A turn of a flush.                                                      *)

(* The records visited for a batch are a prefix of the index.              *)
LEMMA VisitedPrefix ==
  ASSUME NEW s \in Store, NEW n, StoreOK(s, n),
         NEW usable \in SUBSET s.index, NEW limit \in Nat,
         NEW f \in FirstOf(s.index, usable, limit), NEW e \in s.index, e < f
  PROVE  e \in FirstOf(s.index, usable, limit)
<1> DEFINE less(g) == {h \in usable : h < g}
<1>1. s.index \subseteq Nat /\ f \in s.index
  BY EventsAssumption DEF Store, FirstOf
<1>2. IsFiniteSet(less(f))
  <2>1. less(f) \in SUBSET Nat /\ \A h \in less(f) : h <= f
    BY <1>1
  <2> QED
    BY <1>1, <2>1, FS_BoundedSetOfNaturals
<1>3. less(e) \in SUBSET less(f)
  BY <1>1
<1>4. /\ Cardinality(less(e)) \in Nat /\ Cardinality(less(f)) \in Nat
      /\ Cardinality(less(e)) <= Cardinality(less(f))
  BY <1>2, <1>3, FS_Subset, FS_CardinalityType
<1>5. Cardinality(less(f)) < limit
  BY DEF FirstOf
<1> QED
  BY <1>4, <1>5 DEF FirstOf

(* A batch overtakes no record that is held when it is sent.               *)
LEMMA ContinueOrder ==
  ASSUME NEW q \in Queue, q.inFlight = {}, NEW s \in Store, NEW n,
         StoreOK(s, n), WholeIndexed(s), NEW requests, NEW exempt,
         InOrder(s, requests, exempt),
         ContinueFlush(q, s, requests), delivered' = delivered
  PROVE  Reduced(s, store') /\ InOrder(store', wire', exempt)
<1>1. CASE s.index = {}
  <2>1. store' = s /\ wire' = requests
    BY <1>1 DEF ContinueFlush
  <2> QED
    BY <2>1 DEF Reduced, InOrder
<1>2. CASE s.index # {}
  <2>1. PICK failed \in SaveFailures(s), unreadable \in LoadFailures(s),
             stuck \in DeleteFailures(s) :
          \E torn \in SUBSET failed :
            TryBuildNextBatch(q, s, requests, WaitUntilEmpty(s, failed, torn),
                              unreadable, stuck)
    BY <1>2 DEF ContinueFlush
  <2>2. PICK torn \in SUBSET failed :
            TryBuildNextBatch(q, s, requests, WaitUntilEmpty(s, failed, torn),
                              unreadable, stuck)
    BY <2>1
  <2> DEFINE w == WaitUntilEmpty(s, failed, torn)
             usable == Usable(s, w, unreadable)
             visited == FirstOf(s.index, usable, q.batchLimit)
             stops == {e \in visited \ usable : e \notin w.index \/ e \in stuck}
             gone == {e \in visited \ usable : e \notin stuck /\ \A f \in stops : e <= f}
             batch == visited \cap usable
             sent == [gen |-> q.generation, batch |-> batch,
                      ingested |-> FALSE, state |-> "open"]
  <2>3. w \in Store /\ w.pipe = <<>> /\ w.index \subseteq s.index /\ Reduced(s, w)
    BY WaitFacts, WaitReduces
  <2>4. store' = Discard(w, gone)
    BY <2>2 DEF TryBuildNextBatch
  <2>5. \/ wire' = requests
        \/ stops = {} /\ wire' = requests \cup {sent}
    <3>1. CASE stops = {} /\ batch # {}
      <4>1. SendBatch(q, batch, requests)
        BY <2>2, <3>1 DEF TryBuildNextBatch
      <4>2. [q EXCEPT !.inFlight = @ \cup batch].generation = q.generation
        BY DEF Queue
      <4> QED
        BY <3>1, <4>1, <4>2 DEF SendBatch
    <3>2. CASE ~(stops = {} /\ batch # {})
      BY <2>2, <3>2 DEF TryBuildNextBatch
    <3> QED
      BY <3>1, <3>2
  <2>6. usable \in SUBSET s.index /\ q.batchLimit \in Nat /\ s.index \subseteq Events
    BY DEF Usable, Queue, Store
  <2> HIDE DEF w, usable
  <2>7. Reduced(s, store') /\ Reduced(w, store')
    BY <2>3, <2>4, DeleteReduces, ReducedTwice
  <2>8. ASSUME stops = {}, NEW e \in Events, Held(store', e), NEW f \in batch, e < f
        PROVE  e \in batch
    <3>1. Held(w, e) /\ e \in w.index
      BY <2>3, <2>7, <2>8, PipeFacts DEF Reduced, Held, WholeIndexed, Pending
    <3>2. e \in s.index /\ f \in visited
      BY <2>3, <3>1
    <3>3. e \in visited
      BY <2>6, <2>8, <3>2, VisitedPrefix
    <3>4. e \notin gone
      BY <2>3, <2>4, <2>8, PipeFacts DEF Discard, DeleteEvents, Held, Store, Pending
    <3>5. e \in usable
      BY <2>8, <3>1, <3>3, <3>4
    <3> QED
      BY <3>3, <3>5
  <2>9. InOrder(store', requests, exempt)
    BY <2>7, ReducedKeeps
  <2> HIDE DEF visited, stops, gone, batch
  <2>10. InOrder(store', wire', exempt)
    BY <2>5, <2>8, <2>9 DEF InOrder
  <2> QED
    BY <2>7, <2>10
<1> QED
  BY <1>1, <1>2

(* Flush, whether it coalesces, answers at once or starts.                 *)
LEMMA FlushOrder ==
  ASSUME queue \in Queue, NEW s \in Store, NEW n, StoreOK(s, n),
         WholeIndexed(s), NEW exempt, InOrder(s, wire, exempt),
         NEW cbs \in Seq(Callbacks), Flush(s, cbs), delivered' = delivered
  PROVE  Reduced(s, store') /\ InOrder(store', wire', exempt)
<1>1. CASE store' = s /\ wire' = wire
  BY <1>1 DEF Reduced, InOrder
<1>2. CASE ContinueFlush(Started(s, cbs), s, wire)
  <2>1. Started(s, cbs) \in Queue /\ Started(s, cbs).inFlight = {}
    <3>1. /\ NoHandle \in Generation \cup {NoHandle}
          /\ NextGeneration(queue.generation) \in Generation
      BY GenerationType DEF Queue
    <3>2. /\ queue.callbacks \o cbs \in Seq(Callbacks)
          /\ queue.owed \cup Called(cbs) \subseteq Callbacks
      BY CalledType DEF Queue
    <3> QED
      BY <3>1, <3>2 DEF Started, Queue
  <2> QED
    BY <1>2, <2>1, ContinueOrder
<1> QED
  BY <1>1, <1>2 DEF Flush, Answer

-----------------------------------------------------------------------------
(* The actions.                                                            *)

(* A step that only removes records, and sends nothing.                    *)
LEMMA QuietKeeps ==
  ASSUME OrderInv, Reduced(store, store'), UNCHANGED <<accepted, late, delivered>>,
         \A r \in wire' : \E o \in wire : o.batch = r.batch
  PROVE  OrderInv'
<1>1. WholeIndexed(store)'
  BY DEF OrderInv, Reduced, WholeIndexed
<1>2. InOrder(store', wire', late)
  BY ReducedKeeps DEF OrderInv
<1> QED
  BY <1>1, <1>2 DEF OrderInv, InOrder

(* The incoming event is older than none that was sent, or counts as late; *)
(* afterwards there are at most as many records as before and one more.    *)
LEMMA AcceptOrder ==
  ASSUME IInv, OrderInv, NEW e \in NewIds, delivered' = delivered,
         NEW s \in Store, StoreOK(s, accepted), Reduced(store, s), Accept(s, e)
  PROVE  OrderInv' /\ store'.index \subseteq s.index \cup {e}
<1> DEFINE added == SaveEvent(s, e)
<1>1. e \in Events \ accepted
  BY DEF NewIds, Earliest
<1>2. /\ added \in Store /\ StoreOK(added, accepted \cup {e})
      /\ added.index = s.index \cup {e} /\ added.file = s.file
      /\ Pending(added) = Pending(s) \cup {e}
  BY <1>1, SaveFacts
<1>3. \A x \in Events : Held(added, x) => Held(s, x) \/ x = e
  BY <1>2 DEF Held
<1>4. WholeIndexed(added)
  BY <1>2 DEF WholeIndexed, Reduced, OrderInv
<1>5. InOrder(s, wire, late)
  BY ReducedKeeps DEF OrderInv
<1>6. late \subseteq late' /\ (e \in late' \/ \A f \in Sent : ~(f > e))
  BY DEF Accept
<1>7. InOrder(added, wire, late')
  <2> SUFFICES ASSUME NEW x \in Events \ late', Held(added, x)
               PROVE  /\ \A f \in delivered : x < f => x \in delivered
                      /\ \A r \in wire : \A f \in r.batch :
                           x < f => x \in delivered \cup r.batch
    BY DEF InOrder
  <2>1. CASE Held(s, x)
    BY <1>5, <1>6, <2>1 DEF InOrder
  <2>2. CASE x = e
    <3>1. \A f \in Sent : f \in Nat /\ e \in Nat /\ ~(f > e)
      BY <1>1, <1>6, <2>2, EventsAssumption DEF Sent, IInv, TypeOK, Request
    <3>2. \A f \in Sent : ~(e < f)
      BY <3>1
    <3> QED
      BY <2>2, <3>2 DEF Sent
  <2> QED
    BY <1>3, <2>1, <2>2
<1>8. \/ store' = added /\ wire' = wire
      \/ Flush(added, <<>>)
  BY DEF Accept
<1> HIDE DEF added
<1>9. Reduced(added, store') /\ InOrder(store', wire', late')
  <2>1. CASE store' = added /\ wire' = wire
    BY <1>7, <2>1 DEF Reduced, InOrder
  <2>2. CASE Flush(added, <<>>)
    <3>1. <<>> \in Seq(Callbacks) /\ queue \in Queue
      BY DEF IInv, TypeOK
    <3> QED
      BY <1>2, <1>4, <1>7, <2>2, <3>1, FlushOrder
  <2> QED
    BY <1>8, <2>1, <2>2
<1>10. WholeIndexed(store)'
  BY <1>4, <1>9 DEF Reduced, WholeIndexed
<1>11. InOrder(store, wire, late)'
  BY <1>9 DEF InOrder
<1> QED
  BY <1>2, <1>9, <1>10, <1>11 DEF OrderInv, Reduced

(* An index holds only ids that were enqueued, of which there are finitely *)
(* many.                                                                   *)
LEMMA IndexFinite ==
  ASSUME NEW s \in Store, NEW n, StoreOK(s, n), IsFiniteSet(n)
  PROVE  IsFiniteSet(s.index)
<1>1. s.index \subseteq n
  BY DEF Store, StoreOK
<1> QED
  BY <1>1, FS_Subset

(* A capture keeps the order, and accepts an event only when there is room *)
(* for it.                                                                 *)
LEMMA EnqueueOrder ==
  ASSUME IInv, OrderInv, Enqueue
  PROVE  /\ OrderInv'
         /\ accepted' # accepted =>
              \E kept \in SUBSET Events, e \in Events :
                /\ IsFiniteSet(kept) /\ Cardinality(kept) < Capacity
                /\ store'.index \subseteq kept \cup {e}
<1>1. delivered' = delivered /\ IsFiniteSet(accepted)
  BY DEF Enqueue, IInv
<1>2. store \in Store /\ StoreOK(store, accepted)
  BY DEF IInv, TypeOK
<1>3. PICK e \in NewIds :
        \/ Cardinality(store.index) < Capacity /\ Accept(store, e)
        \/ \E failed \in SaveFailures(store), stuck \in DeleteFailures(store) :
           \E torn \in SUBSET failed :
             EvictThenAccept(WaitUntilEmpty(store, failed, torn), stuck, e)
  BY DEF Enqueue
<1>0. e \in Events
  BY DEF NewIds, Earliest
<1>4. ASSUME NEW s \in Store, StoreOK(s, accepted), Reduced(store, s),
             Cardinality(s.index) < Capacity, Accept(s, e)
      PROVE  /\ OrderInv'
             /\ \E kept \in SUBSET Events :
                  /\ IsFiniteSet(kept) /\ Cardinality(kept) < Capacity
                  /\ store'.index \subseteq kept \cup {e}
  <2>1. OrderInv' /\ store'.index \subseteq s.index \cup {e}
    BY <1>1, <1>4, AcceptOrder
  <2>2. s.index \in SUBSET Events /\ IsFiniteSet(s.index)
    BY <1>1, <1>4, IndexFinite DEF Store
  <2> QED
    BY <1>4, <2>1, <2>2
<1>5. CASE Cardinality(store.index) < Capacity /\ Accept(store, e)
  <2>1. Reduced(store, store)
    BY DEF Reduced
  <2> QED
    BY <1>0, <1>2, <1>4, <1>5, <2>1
<1>6. CASE \E failed \in SaveFailures(store), stuck \in DeleteFailures(store) :
           \E torn \in SUBSET failed :
             EvictThenAccept(WaitUntilEmpty(store, failed, torn), stuck, e)
  <2>1. PICK failed \in SaveFailures(store), stuck \in DeleteFailures(store) :
          \E torn \in SUBSET failed :
            EvictThenAccept(WaitUntilEmpty(store, failed, torn), stuck, e)
    BY <1>6
  <2>2. PICK torn \in SUBSET failed :
          EvictThenAccept(WaitUntilEmpty(store, failed, torn), stuck, e)
    BY <2>1
  <2> DEFINE w == WaitUntilEmpty(store, failed, torn)
  <2>3. /\ w \in Store /\ StoreOK(w, accepted) /\ w.pipe = <<>>
        /\ Reduced(store, w)
    BY <1>2, WaitFacts, WaitReduces
  <2> HIDE DEF w
  <2>4. PICK evicted \in SUBSET Events :
          \/ /\ Cardinality(Discard(w, evicted).index) < Capacity
             /\ Accept(Discard(w, evicted), e)
          \/ /\ store' = Discard(w, evicted)
             /\ UNCHANGED <<accepted, late, queue, stack, wire>>
    <3> DEFINE oldest == Earliest(store.index \ queue.inFlight)
               candidates == oldest \cup (w.index \ queue.inFlight)
               older(x) == {f \in candidates : f < x}
               tried == {x \in candidates :
                           \/ x \in oldest
                           \/ Cardinality(w.index \ older(x)) >= Capacity}
               evicted == {x \in tried : \A f \in tried \cap stuck : x < f}
    <3>1. candidates \subseteq Events
      BY <1>2, <2>3 DEF Earliest, Store
    <3>2. evicted \in SUBSET Events
      BY <3>1
    <3>3. \/ /\ Cardinality(Discard(w, evicted).index) < Capacity
             /\ Accept(Discard(w, evicted), e)
          \/ /\ store' = Discard(w, evicted)
             /\ UNCHANGED <<accepted, late, queue, stack, wire>>
      BY <2>2 DEF EvictThenAccept, w
    <3> QED
      BY <3>2, <3>3
  <2> DEFINE left == Discard(w, evicted)
  <2>5. /\ left \in Store /\ StoreOK(left, accepted) /\ Reduced(store, left)
    BY <2>3, DeleteFacts, DeleteReduces, ReducedTwice
  <2> HIDE DEF left
  <2>6. CASE Cardinality(left.index) < Capacity /\ Accept(left, e)
    BY <1>0, <1>4, <2>5, <2>6
  <2>7. CASE store' = left /\ UNCHANGED <<accepted, late, queue, stack, wire>>
    BY <1>1, <2>5, <2>7, QuietKeeps
  <2> QED
    BY <2>4, <2>6, <2>7 DEF left
<1> QED
  BY <1>3, <1>5, <1>6

(* A flush requested from the game loop or from a callback.                *)
LEMMA RequestFlushOrder ==
  ASSUME IInv, OrderInv, RequestFlush
  PROVE  OrderInv'
<1>1. PICK cbs \in Seq(Callbacks) : Flush(store, cbs)
  <2>1. <<>> \in Seq(Callbacks) /\ \A c \in Callbacks : <<c>> \in Seq(Callbacks)
    OBVIOUS
  <2>2. Flush(store, <<>>) \/ \E c \in Callbacks : Flush(store, <<c>>)
    BY DEF RequestFlush
  <2> QED
    BY <2>1, <2>2
<1>2. UNCHANGED <<accepted, late, delivered>>
  BY DEF RequestFlush
<1>3. Reduced(store, store') /\ InOrder(store', wire', late)
  <2>1. queue \in Queue /\ store \in Store /\ StoreOK(store, accepted)
    BY DEF IInv, TypeOK
  <2> QED
    BY <1>1, <1>2, <2>1, FlushOrder DEF OrderInv
<1>4. WholeIndexed(store)'
  BY <1>3 DEF OrderInv, Reduced, WholeIndexed
<1>5. InOrder(store, wire, late)'
  BY <1>2, <1>3 DEF InOrder
<1> QED
  BY <1>4, <1>5 DEF OrderInv

(* Clearing the storage only removes records.                              *)
LEMMA ClearReduces ==
  ASSUME IInv, ClearStorage
  PROVE  Reduced(store, store')
<1>1. PICK failed \in SaveFailures(store), stuck \in DeleteFailures(store) :
        \E torn \in SUBSET failed :
          store' = ClearEvents(WaitUntilEmpty(store, failed, torn), stuck)
  BY DEF ClearStorage
<1>2. PICK torn \in SUBSET failed :
        store' = ClearEvents(WaitUntilEmpty(store, failed, torn), stuck)
  BY <1>1
<1> DEFINE w == WaitUntilEmpty(store, failed, torn)
<1>3. w \in Store /\ Reduced(store, w)
  BY WaitFacts, WaitReduces DEF IInv, TypeOK
<1> HIDE DEF w
<1>4. store' = Discard(w, w.index \ stuck)
  BY <1>2 DEF ClearEvents, w
<1> QED
  BY <1>3, <1>4, DeleteReduces, ReducedTwice

(* Cancelling changes no batch.                                            *)
LEMMA CancelledBatches ==
  ASSUME wire \subseteq Request, NEW handle
  PROVE  \A r \in Cancelled(wire, handle) : \E o \in wire : o.batch = r.batch
BY DEF Cancelled, Request

(* CancelInFlightRequest and Clear.                                        *)
LEMMA CancelOrder ==
  ASSUME IInv, OrderInv, CancelInFlightRequest \/ Clear
  PROVE  OrderInv'
<1>1. UNCHANGED <<accepted, late, delivered>>
  BY DEF CancelInFlightRequest, Clear
<1>2. \A r \in wire' : \E o \in wire : o.batch = r.batch
  <2>1. wire' = wire \/ wire' = Cancelled(wire, queue.handle)
    BY DEF CancelInFlightRequest, Clear, CancelThen
  <2> QED
    BY <2>1, CancelledBatches DEF IInv, TypeOK
<1>3. Reduced(store, store')
  <2>1. store' = store \/ ClearStorage
    BY DEF CancelInFlightRequest, Clear
  <2>2. Reduced(store, store)
    BY DEF Reduced
  <2> QED
    BY <2>1, <2>2, ClearReduces
<1> QED
  BY <1>1, <1>2, <1>3, QuietKeeps

(* The outcome of a request: what was sent is deleted, and a success sends *)
(* the next batch.                                                         *)
LEMMA CompleteOrder ==
  ASSUME IInv, OrderInv, NEW r \in wire, NEW status, RequestComplete(r, status)
  PROVE  OrderInv'
<1> DEFINE q        == [queue EXCEPT !.handle = NoHandle, !.inFlight = @ \ r.batch]
           requests == wire \ {r}
<1>1. /\ UNCHANGED <<accepted, late, delivered>> /\ HandleBatchComplete(r, status)
      /\ r.state \in {"open", "cancelled"}
  BY DEF RequestComplete
<1>2. /\ store \in Store /\ StoreOK(store, accepted)
      /\ r.batch \in SUBSET Events /\ queue \in Queue
  BY DEF IInv, TypeOK, Request
<1>3. \A x \in requests : \E o \in wire : o.batch = x.batch
  OBVIOUS
<1>4. /\ q \in Queue
      /\ queue.flushing /\ queue.generation = r.gen => q.inFlight = {}
  <2>1. r.state = "cancelled" => queue.generation # r.gen
    BY DEF IInv, FlightOK, RequestsOK
  <2>2. r.state = "open" => queue.inFlight = r.batch
    BY DEF IInv, FlightOK, SingleActiveRequest, OpenRequests
  <2> QED
    BY <1>1, <1>2, <2>1, <2>2 DEF Queue
<1>5. CASE wire' = requests /\ UNCHANGED store
  <2>1. Reduced(store, store')
    BY <1>5 DEF Reduced
  <2> QED
    BY <1>1, <1>3, <1>5, <2>1, QuietKeeps
<1>6. CASE queue.flushing /\ queue.generation = r.gen /\ HandleSuccess(q, r.batch, requests)
  <2>1. PICK failed \in SaveFailures(store), stuck \in DeleteFailures(store) :
          \E torn \in SUBSET failed :
            LET sent == SentRecords(store, r.batch, failed, torn, stuck)
                left == DeleteEvents(sent.store, sent.gone)
                p    == [q EXCEPT !.failures = 0, !.pause = 0]
            IN  \/ store' = left /\ wire' = requests
                \/ ContinueFlush(p, left, requests)
    BY <1>6 DEF HandleSuccess
  <2>2. PICK torn \in SUBSET failed :
            LET sent == SentRecords(store, r.batch, failed, torn, stuck)
                left == DeleteEvents(sent.store, sent.gone)
                p    == [q EXCEPT !.failures = 0, !.pause = 0]
            IN  \/ store' = left /\ wire' = requests
                \/ ContinueFlush(p, left, requests)
    BY <2>1
  <2> DEFINE sent == SentRecords(store, r.batch, failed, torn, stuck)
             left == DeleteEvents(sent.store, sent.gone)
             p    == [q EXCEPT !.failures = 0, !.pause = 0]
  <2>3. /\ sent.store \in Store /\ StoreOK(sent.store, accepted)
        /\ sent.store.pipe = <<>>
        /\ store.index \cup store.lost \subseteq sent.store.index \cup sent.store.lost
        /\ sent.gone \in SUBSET Events /\ sent.gone \subseteq r.batch
    BY <1>2, SentRecordsFacts
  <2>4. Reduced(store, sent.store)
    <3>1. sent.store = WaitUntilEmpty(store, failed, torn)
      BY DEF SentRecords
    <3> QED
      BY <1>2, <3>1, WaitReduces
  <2>5. p \in Queue /\ p.inFlight = {}
    BY <1>4, <1>6 DEF Queue
  <2>6. (store' = left /\ wire' = requests) \/ ContinueFlush(p, left, requests)
    BY <2>2
  <2> HIDE DEF sent, p
  <2>7. left \in Store /\ StoreOK(left, accepted) /\ Reduced(store, left)
    BY <2>3, <2>4, DeleteFacts, DeleteReduces, ReducedTwice
  <2> HIDE DEF left
  <2>8. CASE store' = left /\ wire' = requests
    BY <1>1, <1>3, <2>7, <2>8, QuietKeeps
  <2>9. CASE ContinueFlush(p, left, requests)
    <3>1. WholeIndexed(left) /\ InOrder(left, requests, late)
      <4>1. WholeIndexed(left)
        BY <2>7 DEF OrderInv, Reduced
      <4> QED
        BY <1>3, <2>7, <4>1, ReducedKeeps DEF OrderInv
    <3>2. Reduced(left, store') /\ InOrder(store', wire', late)
      BY <1>1, <1>2, <2>5, <2>7, <2>9, <3>1, ContinueOrder
    <3>3. InOrder(store, wire, late)'
      BY <1>1, <3>2 DEF InOrder
    <3>4. WholeIndexed(store)'
      BY <3>1, <3>2 DEF Reduced, WholeIndexed
    <3> QED
      BY <3>3, <3>4 DEF OrderInv
  <2> QED
    BY <2>6, <2>8, <2>9
<1>7. CASE HandleRejection(q, r.batch, requests)
  <2>1. PICK failed \in SaveFailures(store), stuck \in DeleteFailures(store) :
          \E torn \in SUBSET failed :
            LET sent == SentRecords(store, r.batch, failed, torn, stuck)
            IN  store' = Discard(sent.store, sent.gone) /\ wire' = requests
    BY <1>7 DEF HandleRejection
  <2>2. PICK torn \in SUBSET failed :
            LET sent == SentRecords(store, r.batch, failed, torn, stuck)
            IN  store' = Discard(sent.store, sent.gone) /\ wire' = requests
    BY <2>1
  <2> DEFINE sent == SentRecords(store, r.batch, failed, torn, stuck)
  <2>3. sent.store \in Store /\ sent.store = WaitUntilEmpty(store, failed, torn)
    <3>1. /\ sent.store \in Store /\ StoreOK(sent.store, accepted)
          /\ sent.store.pipe = <<>>
          /\ store.index \cup store.lost \subseteq sent.store.index \cup sent.store.lost
          /\ sent.gone \in SUBSET Events /\ sent.gone \subseteq r.batch
      BY <1>2, SentRecordsFacts
    <3> QED
      BY <3>1 DEF SentRecords
  <2>4. Reduced(store, sent.store)
    BY <1>2, <2>3, WaitReduces
  <2>5. store' = Discard(sent.store, sent.gone) /\ wire' = requests
    BY <2>2
  <2> HIDE DEF sent
  <2>6. Reduced(store, store')
    BY <2>3, <2>4, <2>5, DeleteReduces, ReducedTwice
  <2> QED
    BY <1>1, <1>3, <2>5, <2>6, QuietKeeps
<1> QED
  BY <1>1, <1>5, <1>6, <1>7 DEF HandleBatchComplete, HandleRetryable

(* What the server ingests overtakes nothing, as its batch did not.        *)
LEMMA IngestOrder ==
  ASSUME IInv, OrderInv, NEW r \in wire, ServerIngests(r)
  PROVE  OrderInv'
<1> DEFINE a == [r EXCEPT !.ingested = TRUE]
<1>1. /\ wire' = (wire \ {r}) \cup {a} /\ delivered' = delivered \cup r.batch
      /\ UNCHANGED <<store, accepted, late>>
  BY DEF ServerIngests
<1>2. a.batch = r.batch
  BY DEF IInv, TypeOK, Request
<1> HIDE DEF a
<1>3. InOrder(store, wire, late)'
  BY <1>1, <1>2 DEF OrderInv, InOrder, Held
<1>4. WholeIndexed(store)'
  BY <1>1 DEF OrderInv, WholeIndexed
<1> QED
  BY <1>3, <1>4 DEF OrderInv

(* A write task makes a held record a good one, or loses it.               *)
LEMMA WriteOrder ==
  ASSUME IInv, OrderInv, BackgroundWrite
  PROVE  OrderInv'
<1>1. WriteTask /\ UNCHANGED <<accepted, late, wire, delivered>>
  BY DEF BackgroundWrite
<1> DEFINE e    == Head(store.pipe)
           rest == Tail(store.pipe)
<1>2. \/ store' = [store EXCEPT !.pipe = rest, !.file[e] = "whole"]
      \/ \E left \in {store.file[e], "corrupt"} :
           store' = [store EXCEPT !.pipe = rest, !.index = @ \ {e},
                                  !.file[e] = left, !.lost = @ \cup {e}]
  BY <1>1 DEF WriteTask
<1>0. /\ store.pipe # <<>> /\ store.pipe \in Seq(Events) /\ IsInjective(store.pipe)
      /\ store \in Store /\ StoreOK(store, accepted)
  BY <1>1 DEF WriteTask, IInv, TypeOK, Store, StoreOK
<1>3. /\ e \in Pending(store) /\ e \in store.index /\ e \in Events
      /\ store.file[e] = "absent" /\ Range(rest) = Pending(store) \ {e}
  BY <1>0, PipeFacts DEF StoreOK, Pending
<1> HIDE DEF e, rest
<1>4. Reduced(store, store')
  <2>1. CASE store' = [store EXCEPT !.pipe = rest, !.file[e] = "whole"]
    BY <1>0, <1>3, <2>1 DEF Store, Reduced, Held, WholeIndexed, Pending
  <2>2. ASSUME NEW left \in {store.file[e], "corrupt"},
               store' = [store EXCEPT !.pipe = rest, !.index = @ \ {e},
                                      !.file[e] = left, !.lost = @ \cup {e}]
        PROVE  Reduced(store, store')
    BY <1>0, <1>3, <2>2 DEF Store, Reduced, Held, WholeIndexed, Pending
  <2> QED
    BY <1>2, <2>1, <2>2
<1> QED
  BY <1>1, <1>4, QuietKeeps

(* The next process finds no good record that was not indexed before.      *)
LEMMA RestartOrder ==
  ASSUME IInv, OrderInv, Restart
  PROVE  OrderInv'
<1>1. PICK torn \in SUBSET BeingWritten(store) :
        store' = LoadEventIndexFromDisk(store, torn)
  BY DEF Restart
<1>2. /\ wire' = {[r EXCEPT !.state = "orphan"] : r \in wire}
      /\ UNCHANGED <<accepted, late, delivered>>
  BY DEF Restart
<1>3. \A r \in wire' : \E o \in wire : o.batch = r.batch
  BY <1>2 DEF IInv, TypeOK, Request
<1>4. WholeIndexed(store)' /\ \A e \in Events : Held(store', e) => Held(store, e)
  BY <1>1, PipeFacts DEF LoadEventIndexFromDisk, WholeIndexed, Held, Pending
<1>5. InOrder(store, wire, late)'
  BY <1>2, <1>3, <1>4 DEF OrderInv, InOrder
<1> QED
  BY <1>4, <1>5 DEF OrderInv

-----------------------------------------------------------------------------
(* The invariant and what follows from it.                                 *)

(* At first nothing has been sent.                                         *)
LEMMA OrderInit == Init => OrderInv
BY DEF Init, OrderInv, InOrder, WholeIndexed

(* Every step keeps the order.                                             *)
LEMMA OrderStep == IInv /\ OrderInv /\ [Next]_vars => OrderInv'
<1> SUFFICES ASSUME IInv, OrderInv, [Next]_vars
             PROVE  OrderInv'
  OBVIOUS
<1>1. CASE UNCHANGED <<store, accepted, late, wire, delivered>>
  <2>1. Reduced(store, store')
    BY <1>1 DEF Reduced
  <2> QED
    BY <1>1, <2>1, QuietKeeps
<1>2. CASE ReturnToClear
  BY <1>2, ClearReduces, QuietKeeps DEF ReturnToClear
<1>3. CASE \E r \in wire : Vanish(r)
  <2>1. Reduced(store, store')
    BY <1>3 DEF Vanish, Reduced
  <2> QED
    BY <1>3, <2>1, QuietKeeps DEF Vanish
<1>4. CASE Enqueue
  BY <1>4, EnqueueOrder
<1>5. CASE RequestFlush
  BY <1>5, RequestFlushOrder
<1>6. CASE CancelInFlightRequest \/ Clear
  BY <1>6, CancelOrder
<1>7. CASE \E r \in wire, status \in Statuses : RequestComplete(r, status)
  BY <1>7, CompleteOrder
<1>8. CASE \E r \in wire : ServerIngests(r)
  BY <1>8, IngestOrder
<1>9. CASE BackgroundWrite
  BY <1>9, WriteOrder
<1>10. CASE Restart
  BY <1>10, RestartOrder
<1>11. CASE CallNext \/ ReturnToSendBatch \/ Tick \/ ReachabilityChanges \/ UNCHANGED vars
  BY <1>1, <1>11 DEF CallNext, ReturnToSendBatch, Tick, ReachabilityChanges, vars
<1> QED
  BY <1>2, <1>3, <1>4, <1>5, <1>6, <1>7, <1>8, <1>9, <1>10, <1>11 DEF Next, GameThread

(* No request carries, and no delivery was, an event younger than a record *)
(* that is held, was not late and is not delivered (TryBuildNextBatch).    *)
THEOREM OrderInvariant == Spec => []OrderInv
<1> QED
  BY OrderInit, OrderStep, Invariant, PTL DEF Spec

(* The server gets no event before an older one that is still to come,     *)
(* through evictions, failures, late answers and restarts, in whatever     *)
(* order the ids arrive: the one exception is an event enqueued after a    *)
(* younger one had been sent (SaveEvent sorts, TryBuildNextBatch reads the *)
(* oldest first).                                                          *)
THEOREM Ordered == Spec => []NeverOvertaken
<1>1. IInv /\ OrderInv => NeverOvertaken
  BY DEF IInv, TypeOK, Store, OrderInv, InOrder, Held, NeverOvertaken
<1> QED
  BY <1>1, Invariant, OrderInvariant, PTL

(* What a step that accepts an event leaves.                               *)
WithinCapacity == accepted' # accepted => Cardinality(store'.index) <= Capacity

(* Room for one more is room for the incoming event.                       *)
LEMMA CapacityStep ==
  ASSUME IInv, OrderInv, [Next]_vars
  PROVE  WithinCapacity
<1> SUFFICES ASSUME accepted' # accepted
             PROVE  Cardinality(store'.index) <= Capacity
  BY DEF WithinCapacity
<1>1. Enqueue
  <2>1. CASE RequestFlush \/ CancelInFlightRequest \/ Clear \/ CallNext
             \/ ReturnToSendBatch \/ ReturnToClear
    BY <2>1 DEF RequestFlush, CancelInFlightRequest, Clear, CallNext,
                ReturnToSendBatch, ReturnToClear
  <2>2. CASE \E r \in wire, status \in Statuses : RequestComplete(r, status)
    BY <2>2 DEF RequestComplete
  <2>3. CASE (\E r \in wire : ServerIngests(r)) \/ (\E r \in wire : Vanish(r))
    BY <2>3 DEF ServerIngests, Vanish
  <2>4. CASE BackgroundWrite \/ Tick \/ ReachabilityChanges \/ Restart \/ UNCHANGED vars
    BY <2>4 DEF BackgroundWrite, Tick, ReachabilityChanges, Restart, vars
  <2> QED
    BY <2>1, <2>2, <2>3, <2>4 DEF Next, GameThread
<1>2. PICK kept \in SUBSET Events, e \in Events :
        /\ IsFiniteSet(kept) /\ Cardinality(kept) < Capacity
        /\ store'.index \subseteq kept \cup {e}
  BY <1>1, EnqueueOrder
<1>3. Cardinality(kept) \in Nat
  BY <1>2, FS_CardinalityType
<1>4. /\ IsFiniteSet(kept \cup {e})
      /\ Cardinality(kept \cup {e}) \in Nat
      /\ Cardinality(kept \cup {e}) <= Cardinality(kept) + 1
  BY <1>2, <1>3, FS_AddElement, FS_CardinalityType
<1>5. /\ Cardinality(store'.index) \in Nat
      /\ Cardinality(store'.index) <= Cardinality(kept \cup {e})
  BY <1>2, <1>4, FS_Subset, FS_CardinalityType
<1>6. Capacity \in Nat
  BY LimitsAssumption DEF Capacity, AtLeastOne
<1> QED
  BY <1>2, <1>3, <1>4, <1>5, <1>6

(* Accepting an event never leaves more than MaxQueueSize records, however *)
(* many a restart has found (EnsureCapacityForSave).                       *)
THEOREM CapacityKept == Spec => CapacityAfterEnqueue
<1>1. IInv /\ OrderInv /\ [Next]_vars => [WithinCapacity]_vars
  BY CapacityStep
<1> QED
  BY <1>1, Invariant, OrderInvariant, PTL DEF Spec, CapacityAfterEnqueue, WithinCapacity

-----------------------------------------------------------------------------
(* What a drained flush leaves.                                            *)

(* What a step that reports a drained flush leaves.                        *)
DrainedEmpty ==
  Len(stack') > Len(stack) /\ Head(stack').result = "Drained" => store'.index = {}

(* The oldest usable record is visited, so a batch without records means   *)
(* that none is usable, and that all of the index has been visited.        *)
LEMMA NothingUsable ==
  ASSUME NEW s \in Store, NEW n, StoreOK(s, n), IsFiniteSet(n),
         NEW usable \in SUBSET s.index, NEW limit \in Nat \ {0},
         FirstOf(s.index, usable, limit) \cap usable = {}
  PROVE  FirstOf(s.index, usable, limit) = s.index
<1> DEFINE less(e) == {h \in usable : h < e}
           sets == {less(e) : e \in usable}
<1>1. usable \subseteq Nat /\ IsFiniteSet(usable)
  <2>1. s.index \subseteq Nat
    BY EventsAssumption DEF Store
  <2> QED
    BY <2>1, IndexFinite, FS_Subset
<1>2. usable = {}
  <2> SUFFICES ASSUME usable # {}
               PROVE  FALSE
    OBVIOUS
  <2>1. sets \subseteq FiniteSubsetsOf(usable) /\ sets # {}
    <3>1. \A e \in usable : less(e) \in SUBSET usable /\ IsFiniteSet(less(e))
      BY <1>1, FS_Subset
    <3> QED
      BY <3>1 DEF FiniteSubsetsOf
  <2>2. PICK x \in sets : \A y \in sets : <<y, x>> \notin StrictSubsetOrdering(usable)
    <3>1. IsWellFoundedOn(StrictSubsetOrdering(usable), FiniteSubsetsOf(usable))
      BY FS_StrictSubsetOrderingWellFounded
    <3> HIDE DEF sets
    <3> QED
      BY <2>1, <3>1, WFMin
  <2>3. PICK e \in usable : x = less(e)
    BY <2>2
  <2>4. less(e) = {}
    <3> SUFFICES ASSUME NEW h \in less(e)
                 PROVE  FALSE
      OBVIOUS
    <3>0. h \in usable /\ h < e /\ h \in Nat /\ e \in Nat
      BY <1>1
    <3>1. less(h) \subseteq less(e) /\ less(h) # less(e) /\ h \in usable
      <4>1. \A k \in usable : k < h => k < e
        BY <1>1, <3>0
      <4>2. h \notin less(h)
        BY <3>0
      <4> QED
        BY <3>0, <4>1, <4>2
    <3>2. less(h) \in sets /\ less(h) \in SUBSET usable /\ less(e) \in SUBSET usable
      BY <3>1
    <3> QED
      BY <2>2, <2>3, <3>1, <3>2 DEF StrictSubsetOrdering
  <2>5. Cardinality(less(e)) < limit
    BY <2>4, FS_EmptySet
  <2> QED
    BY <2>5 DEF FirstOf
<1>3. \A e \in s.index : Cardinality({h \in usable : h < e}) < limit
  <2>1. \A e \in s.index : {h \in usable : h < e} = {}
    BY <1>2
  <2> QED
    BY <2>1, FS_EmptySet
<1> QED
  BY <1>3 DEF FirstOf

(* A flush that ends otherwise is not reported as drained.                 *)
LEMMA OtherResult ==
  ASSUME stack \in Seq(Frame), NEW q \in Queue, NEW tail \in Seq(Frame),
         NEW result \in Result, result # "Drained",
         stack' = Notify(result, q.callbacks, tail) \o stack
  PROVE  DrainedEmpty
<1>1. CASE q.callbacks = <<>>
  <2>1. stack' = stack
    BY <1>1 DEF Notify
  <2> QED
    BY <2>1 DEF DrainedEmpty
<1>2. CASE q.callbacks # <<>>
  <2> DEFINE frame == [at |-> "notify", result |-> result,
                       rest |-> Tail(q.callbacks), gen |-> 0]
  <2>1. q.callbacks \in Seq(Callbacks)
    BY DEF Queue
  <2>2. frame \in Frame
    BY <1>2, <2>1, GenerationType DEF Frame
  <2>3. stack' = (<<frame>> \o tail) \o stack
    BY <1>2 DEF Notify
  <2>4. Head(stack') = frame
    <3> HIDE DEF frame
    <3> QED
      BY <2>2, <2>3
  <2>5. Head(stack').result = result
    <3>1. frame.result = result
      OBVIOUS
    <3> HIDE DEF frame
    <3> QED
      BY <2>4, <3>1
  <2> QED
    BY <2>5 DEF DrainedEmpty
<1> QED
  BY <1>1, <1>2

(* A turn reports a drained flush only if it leaves an empty index.        *)
LEMMA ContinueDrained ==
  ASSUME stack \in Seq(Frame), NEW q \in Queue, NEW s \in Store, NEW n,
         StoreOK(s, n), IsFiniteSet(n), NEW requests, ContinueFlush(q, s, requests)
  PROVE  DrainedEmpty
<1>0. /\ <<>> \in Seq(Frame) /\ {"ProgressBlocked", "Failed"} \subseteq Result
  BY DEF Result
<1>1. CASE s.index = {}
  BY <1>1 DEF ContinueFlush, DrainedEmpty
<1>2. CASE s.index # {}
  <2>1. PICK failed \in SaveFailures(s), unreadable \in LoadFailures(s),
             stuck \in DeleteFailures(s) :
          \E torn \in SUBSET failed :
            TryBuildNextBatch(q, s, requests, WaitUntilEmpty(s, failed, torn),
                              unreadable, stuck)
    BY <1>2 DEF ContinueFlush
  <2>2. PICK torn \in SUBSET failed :
            TryBuildNextBatch(q, s, requests, WaitUntilEmpty(s, failed, torn),
                              unreadable, stuck)
    BY <2>1
  <2> DEFINE w == WaitUntilEmpty(s, failed, torn)
             usable == Usable(s, w, unreadable)
             visited == FirstOf(s.index, usable, q.batchLimit)
             stops == {e \in visited \ usable : e \notin w.index \/ e \in stuck}
             gone == {e \in visited \ usable : e \notin stuck /\ \A f \in stops : e <= f}
             batch == visited \cap usable
  <2>3. w \in Store /\ w.index \subseteq s.index
    BY WaitFacts
  <2>4. usable \in SUBSET s.index /\ q.batchLimit \in Nat \ {0}
    BY DEF Usable, Queue
  <2>5. store' = Discard(w, gone)
    BY <2>2 DEF TryBuildNextBatch
  <2>6. CASE stops # {}
    <3>1. CompleteFlush(q, "ProgressBlocked", <<>>)
      BY <2>2, <2>6 DEF TryBuildNextBatch
    <3> QED
      BY <1>0, <3>1, OtherResult DEF CompleteFlush
  <2>7. CASE stops = {} /\ batch = {}
    <3> HIDE DEF w, usable
    <3>1. visited = s.index
      BY <2>4, <2>7, NothingUsable
    <3>2. gone = s.index
      BY <2>7, <3>1
    <3> HIDE DEF gone
    <3>3. store'.index = w.index \ s.index
      BY <2>3, <2>5, <3>2 DEF Discard, DeleteEvents, Store
    <3> QED
      BY <2>3, <3>3 DEF DrainedEmpty
  <2>8. CASE stops = {} /\ batch # {}
    <3>1. SendBatch(q, batch, requests)
      BY <2>2, <2>8 DEF TryBuildNextBatch
    <3> DEFINE p == [q EXCEPT !.inFlight = @ \cup batch]
    <3>2. p \in Queue /\ RetryState(p, "none") \in Queue /\ p.generation \in Generation
      <4>1. batch \subseteq Events
        BY <2>4 DEF Store
      <4> HIDE DEF batch
      <4>2. p \in Queue
        BY <4>1 DEF Queue
      <4> QED
        BY <4>2, RetryStateFacts DEF Queue
    <3>3. CASE UNCHANGED stack
      BY <3>3 DEF DrainedEmpty
    <3>4. CASE CompleteFlush(RetryState(p, "none"), "Failed", Rest("sent", p.generation))
      <4> HIDE DEF p
      <4> QED
        BY <1>0, <3>2, <3>4, RestType, OtherResult DEF CompleteFlush
    <3> QED
      BY <3>1, <3>3, <3>4 DEF SendBatch
  <2> QED
    BY <2>6, <2>7, <2>8
<1> QED
  BY <1>1, <1>2

(* A flush that is asked for, whether it starts or not.                    *)
LEMMA FlushDrained ==
  ASSUME IInv, NEW s \in Store, NEW n, StoreOK(s, n), IsFiniteSet(n),
         NEW cbs \in Seq(Callbacks), Flush(s, cbs)
  PROVE  DrainedEmpty
<1>0. /\ stack \in Seq(Frame) /\ queue \in Queue /\ <<>> \in Seq(Frame)
      /\ {"SkippedOffline", "Paused"} \subseteq Result
  BY DEF IInv, TypeOK, Result
<1>1. CASE UNCHANGED stack
  BY <1>1 DEF DrainedEmpty
<1>2. CASE \E result \in {"SkippedOffline", "Paused"} : Answer(s, result, cbs)
  <2>1. PICK result \in {"SkippedOffline", "Paused"} :
          stack' = Notify(result, cbs, <<>>) \o stack
    BY <1>2 DEF Answer
  <2> DEFINE q == [queue EXCEPT !.callbacks = cbs]
  <2>2. q \in Queue /\ q.callbacks = cbs
    BY <1>0 DEF Queue
  <2> HIDE DEF q
  <2> QED
    BY <1>0, <2>1, <2>2, OtherResult
<1>3. CASE ContinueFlush(Started(s, cbs), s, wire)
  <2>1. Started(s, cbs) \in Queue
    <3>1. /\ NoHandle \in Generation \cup {NoHandle}
          /\ NextGeneration(queue.generation) \in Generation
      BY <1>0, GenerationType DEF Queue
    <3>2. /\ queue.callbacks \o cbs \in Seq(Callbacks)
          /\ queue.owed \cup Called(cbs) \subseteq Callbacks
      BY <1>0, CalledType DEF Queue
    <3> QED
      BY <1>0, <3>1, <3>2 DEF Started, Queue
  <2> QED
    BY <1>0, <1>3, <2>1, ContinueDrained
<1> QED
  BY <1>1, <1>2, <1>3 DEF Flush

(* A capture may reach the threshold.                                      *)
LEMMA EnqueueDrained ==
  ASSUME IInv, Enqueue
  PROVE  DrainedEmpty
<1>1. store \in Store /\ StoreOK(store, accepted) /\ IsFiniteSet(accepted)
  BY DEF IInv, TypeOK
<1>0. PICK e \in Events \ accepted :
        \/ Accept(store, e)
        \/ \E failed \in SaveFailures(store), stuck \in DeleteFailures(store) :
           \E torn \in SUBSET failed :
             EvictThenAccept(WaitUntilEmpty(store, failed, torn), stuck, e)
  BY DEF Enqueue, NewIds, Earliest
<1>2. ASSUME NEW s \in Store, StoreOK(s, accepted), Accept(s, e)
      PROVE  DrainedEmpty
  <2>1. /\ SaveEvent(s, e) \in Store
        /\ StoreOK(SaveEvent(s, e), accepted \cup {e})
        /\ IsFiniteSet(accepted \cup {e})
    BY <1>1, <1>2, SaveFacts, FS_AddElement
  <2>2. CASE Flush(SaveEvent(s, e), <<>>)
    <3>1. <<>> \in Seq(Callbacks)
      OBVIOUS
    <3> QED
      BY <2>1, <2>2, <3>1, FlushDrained
  <2>3. CASE UNCHANGED stack
    BY <2>3 DEF DrainedEmpty
  <2> QED
    BY <1>2, <2>2, <2>3 DEF Accept
<1>3. CASE Accept(store, e)
  BY <1>1, <1>2, <1>3
<1>4. CASE \E failed \in SaveFailures(store), stuck \in DeleteFailures(store) :
           \E torn \in SUBSET failed :
             EvictThenAccept(WaitUntilEmpty(store, failed, torn), stuck, e)
  <2>1. PICK failed \in SaveFailures(store), stuck \in DeleteFailures(store) :
          \E torn \in SUBSET failed :
            EvictThenAccept(WaitUntilEmpty(store, failed, torn), stuck, e)
    BY <1>4
  <2>2. PICK torn \in SUBSET failed :
          EvictThenAccept(WaitUntilEmpty(store, failed, torn), stuck, e)
    BY <2>1
  <2> DEFINE w == WaitUntilEmpty(store, failed, torn)
  <2>3. w \in Store /\ StoreOK(w, accepted) /\ w.pipe = <<>>
    BY <1>1, WaitFacts
  <2> DEFINE oldest == Earliest(store.index \ queue.inFlight)
             candidates == oldest \cup (w.index \ queue.inFlight)
             older(x) == {f \in candidates : f < x}
             tried == {x \in candidates :
                         \/ x \in oldest
                         \/ Cardinality(w.index \ older(x)) >= Capacity}
             evicted == {x \in tried : \A f \in tried \cap stuck : x < f}
  <2>4. evicted \in SUBSET Events
    BY <1>1, <2>3 DEF Earliest, Store
  <2>5. Accept(Discard(w, evicted), e) \/ UNCHANGED stack
    BY <2>2 DEF EvictThenAccept
  <2> HIDE DEF w, evicted
  <2>6. Discard(w, evicted) \in Store /\ StoreOK(Discard(w, evicted), accepted)
    BY <2>3, <2>4, DeleteFacts
  <2> QED
    BY <1>2, <2>5, <2>6 DEF DrainedEmpty
<1> QED
  BY <1>0, <1>3, <1>4

(* The outcome of a request may end the flush.                             *)
LEMMA CompleteDrained ==
  ASSUME IInv, NEW r \in wire, NEW status, RequestComplete(r, status)
  PROVE  DrainedEmpty
<1> DEFINE q        == [queue EXCEPT !.handle = NoHandle, !.inFlight = @ \ r.batch]
           requests == wire \ {r}
<1>1. /\ store \in Store /\ StoreOK(store, accepted) /\ IsFiniteSet(accepted)
      /\ r.batch \in SUBSET Events /\ queue \in Queue /\ stack \in Seq(Frame)
      /\ <<>> \in Seq(Frame) /\ {"ProgressBlocked", "Failed"} \subseteq Result
  BY DEF IInv, TypeOK, Request, Result
<1>2. q \in Queue
  BY <1>1 DEF Queue
<1>3. CASE UNCHANGED stack
  BY <1>3 DEF DrainedEmpty
<1>4. CASE HandleSuccess(q, r.batch, requests)
  <2>1. PICK failed \in SaveFailures(store), stuck \in DeleteFailures(store) :
          \E torn \in SUBSET failed :
            LET sent == SentRecords(store, r.batch, failed, torn, stuck)
                left == DeleteEvents(sent.store, sent.gone)
                p    == [q EXCEPT !.failures = 0, !.pause = 0]
            IN  CompleteFlush(p, "ProgressBlocked", <<>>) \/ ContinueFlush(p, left, requests)
    BY <1>4 DEF HandleSuccess
  <2>2. PICK torn \in SUBSET failed :
            LET sent == SentRecords(store, r.batch, failed, torn, stuck)
                left == DeleteEvents(sent.store, sent.gone)
                p    == [q EXCEPT !.failures = 0, !.pause = 0]
            IN  CompleteFlush(p, "ProgressBlocked", <<>>) \/ ContinueFlush(p, left, requests)
    BY <2>1
  <2> DEFINE sent == SentRecords(store, r.batch, failed, torn, stuck)
             left == DeleteEvents(sent.store, sent.gone)
             p    == [q EXCEPT !.failures = 0, !.pause = 0]
  <2>3. /\ sent.store \in Store /\ StoreOK(sent.store, accepted)
        /\ sent.store.pipe = <<>>
        /\ store.index \cup store.lost \subseteq sent.store.index \cup sent.store.lost
        /\ sent.gone \in SUBSET Events /\ sent.gone \subseteq r.batch
    BY <1>1, SentRecordsFacts
  <2>4. p \in Queue
    BY <1>2 DEF Queue
  <2>5. CompleteFlush(p, "ProgressBlocked", <<>>) \/ ContinueFlush(p, left, requests)
    BY <2>2
  <2> HIDE DEF sent, p
  <2>6. left \in Store /\ StoreOK(left, accepted)
    BY <2>3, DeleteFacts
  <2> HIDE DEF left
  <2>7. CASE CompleteFlush(p, "ProgressBlocked", <<>>)
    BY <1>1, <2>4, <2>7, OtherResult DEF CompleteFlush
  <2>8. CASE ContinueFlush(p, left, requests)
    BY <1>1, <2>4, <2>6, <2>8, ContinueDrained
  <2> QED
    BY <2>5, <2>7, <2>8
<1>5. CASE HandleRejection(q, r.batch, requests)
  <2>1. CompleteFlush(q, "Failed", <<>>)
    BY <1>5 DEF HandleRejection
  <2> HIDE DEF q
  <2> QED
    BY <1>1, <1>2, <2>1, OtherResult DEF CompleteFlush
<1>6. CASE HandleRetryable(q, status, requests)
  <2>1. CompleteFlush(RetryState(q, status), "Failed", <<>>)
    BY <1>6 DEF HandleRetryable
  <2> HIDE DEF q
  <2>2. RetryState(q, status) \in Queue
    BY <1>2, RetryStateFacts
  <2> QED
    BY <1>1, <2>1, <2>2, OtherResult DEF CompleteFlush
<1> QED
  BY <1>3, <1>4, <1>5, <1>6 DEF RequestComplete, HandleBatchComplete

(* Returning to what was interrupted never adds a frame.                   *)
LEMMA ReturnDrained ==
  ASSUME IInv, CallNext \/ ReturnToSendBatch \/ ReturnToClear
  PROVE  DrainedEmpty
<1>1. stack \in Seq(Frame) /\ stack # <<>> /\ queue \in Queue
      /\ Head(stack) \in Frame
  <2>1. stack # <<>>
    BY DEF CallNext, ReturnToSendBatch, ReturnToClear
  <2>2. stack \in Seq(Frame) /\ queue \in Queue
    BY DEF IInv, TypeOK
  <2> QED
    BY <2>1, <2>2
<1>2. ASSUME NEW result \in Result, NEW cbs \in Seq(Callbacks),
             stack' = Notify(result, cbs, <<>>) \o Tail(stack)
      PROVE  DrainedEmpty
  <2>1. Notify(result, cbs, <<>>) \in Seq(Frame) /\ Len(Notify(result, cbs, <<>>)) <= 1
    <3>1. <<>> \in Seq(Frame)
      OBVIOUS
    <3>2. Notify(result, cbs, <<>>) \in Seq(Frame)
      BY <3>1, NotifyType
    <3> QED
      BY <3>2 DEF Notify
  <2>2. Tail(stack) \in Seq(Frame) /\ Len(Tail(stack)) = Len(stack) - 1
    BY <1>1
  <2>3. Len(stack') <= Len(stack)
    BY <1>1, <1>2, <2>1, <2>2
  <2> QED
    BY <1>1, <2>1, <2>2, <2>3, <1>2 DEF DrainedEmpty
<1>3. CASE stack' = Tail(stack)
  BY <1>1, <1>3 DEF DrainedEmpty
<1>4. CASE CallNext
  BY <1>1, <1>2, <1>4 DEF CallNext, Frame
<1>5. CASE ReturnToSendBatch
  BY <1>1, <1>2, <1>3, <1>5 DEF ReturnToSendBatch, Queue, Result
<1> QED
  BY <1>3, <1>4, <1>5 DEF ReturnToClear

(* A cancelled flush is not drained.                                       *)
LEMMA CancelDrained ==
  ASSUME IInv, CancelInFlightRequest \/ Clear
  PROVE  DrainedEmpty
<1>1. CASE UNCHANGED stack
  BY <1>1 DEF DrainedEmpty
<1>2. CASE CancelThen(<<>>) \/ CancelThen(Rest("clear", 0))
  <2> DEFINE q == [queue EXCEPT !.generation = NextGeneration(@)]
  <2>1. PICK tail \in {<<>>, Rest("clear", 0)} : CompleteFlush(q, "Cancelled", tail)
    BY <1>2 DEF CancelThen
  <2>2. /\ tail \in Seq(Frame) /\ stack \in Seq(Frame) /\ q \in Queue
        /\ "Cancelled" \in Result
    <3>1. Rest("clear", 0) \in Seq(Frame) /\ <<>> \in Seq(Frame)
      BY GenerationType, RestType
    <3>2. q \in Queue
      BY GenerationType DEF IInv, TypeOK, Queue
    <3> QED
      BY <3>1, <3>2 DEF IInv, TypeOK, Result
  <2> HIDE DEF q
  <2> QED
    BY <2>1, <2>2, OtherResult DEF CompleteFlush
<1> QED
  BY <1>1, <1>2 DEF CancelInFlightRequest, Clear

(* Every step.                                                             *)
LEMMA DrainedStep ==
  ASSUME IInv, [Next]_vars
  PROVE  DrainedEmpty
<1>1. CASE UNCHANGED stack
  BY <1>1 DEF DrainedEmpty
<1>2. CASE RequestFlush
  <2>1. PICK cbs \in Seq(Callbacks) : Flush(store, cbs)
    <3>1. <<>> \in Seq(Callbacks) /\ \A c \in Callbacks : <<c>> \in Seq(Callbacks)
      OBVIOUS
    <3>2. Flush(store, <<>>) \/ \E c \in Callbacks : Flush(store, <<c>>)
      BY <1>2 DEF RequestFlush
    <3> QED
      BY <3>1, <3>2
  <2> QED
    BY <2>1, FlushDrained DEF IInv, TypeOK
<1>3. CASE Restart
  <2>1. stack' = <<>> /\ stack \in Seq(Frame)
    BY <1>3 DEF Restart, IInv, TypeOK
  <2> QED
    BY <2>1 DEF DrainedEmpty
<1>4. CASE (\E r \in wire : ServerIngests(r)) \/ (\E r \in wire : Vanish(r))
  BY <1>1, <1>4 DEF ServerIngests, Vanish
<1>5. CASE BackgroundWrite \/ Tick \/ ReachabilityChanges \/ UNCHANGED vars
  BY <1>1, <1>5 DEF BackgroundWrite, Tick, ReachabilityChanges, vars
<1>6. CASE Enqueue
  BY <1>6, EnqueueDrained
<1>7. CASE CancelInFlightRequest \/ Clear
  BY <1>7, CancelDrained
<1>8. CASE CallNext \/ ReturnToSendBatch \/ ReturnToClear
  BY <1>8, ReturnDrained
<1>9. CASE \E r \in wire, status \in Statuses : RequestComplete(r, status)
  BY <1>9, CompleteDrained
<1> QED
  BY <1>2, <1>3, <1>4, <1>5, <1>6, <1>7, <1>8, <1>9 DEF Next, GameThread

(* A flush reported as drained leaves an empty index, whatever was         *)
(* captured while its batches were under way (ContinueFlush).              *)
THEOREM Emptied == Spec => DrainedMeansEmpty
<1>1. IInv /\ [Next]_vars => [DrainedEmpty]_vars
  BY DrainedStep
<1> QED
  BY <1>1, Invariant, PTL DEF Spec, DrainedMeansEmpty, DrainedEmpty

=============================================================================
