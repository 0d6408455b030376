--------------------------- MODULE IngestionProofs ---------------------------
(***************************************************************************)
(* Theorems about EventIngestion, for any policies, vault objects, events  *)
(* and any sizes of the batch, the channel and the queue's delivery count. *)
(*                                                                         *)
(* IngestionType   every state is well typed: the bounded channel and the  *)
(*                 delivery counts keep their bounds                       *)
(* NothingLost     no rotation is lost between the vault and a reconcile   *)
(*                                                                         *)
(* Messages are acknowledged before their policies are reconciled, so the  *)
(* invariant NoLostRotation is about a policy that is on its way for some  *)
(* reason, and is not inductive: a policy that is on its way because of    *)
(* one event could be dropped with another.  Its strengthening OnItsWay    *)
(* says for each event by itself where it is.                              *)
(***************************************************************************)
EXTENDS EventIngestion, TLAPS

\* Where the news of one event is: in the workqueue or the channel, in the
\* handler when it is the event being handled, else in the queue.
OnItsWay(p, m) ==
    \/ p \in workqueue \cup ToSet(channel)
    \/ m = current /\ p \in todo
    \/ m # current /\ queue[m] # "completed"

\* What the queue and the listener know of each other.
ListenerInv ==
    /\ \A m \in Messages : queue[m] # "unsent" => m[2] <= upstream[m[1]]
    /\ \A m \in Messages : queue[m] = "unsent" => deliveries[m] = 0
    /\ \A m \in Messages : queue[m] = "ready" => deliveries[m] < MaxDelivery
    /\ \A m \in batch : queue[m] \notin {"unsent", "completed"}
    /\ current # NoMessage => current \in batch
    /\ current = NoMessage => todo = {}

\* The inductive invariant.
IngestionInv ==
    /\ TypeOK
    /\ ListenerInv
    /\ BusyIsQueued
    /\ \A p \in Policies, m \in Messages :
          News(p, m) /\ ~Undeliverable(p, m) => OnItsWay(p, m)

-----------------------------------------------------------------------------

\* A message is a vault object and one of its versions.
LEMMA MessageFacts ==
    /\ \A m \in Messages : m[1] \in Objects /\ m[2] \in Nat /\ m[2] <= MaxVersion[m[1]]
    /\ \A o \in Objects, v \in Nat : v > 0 /\ v <= MaxVersion[o] => <<o, v>> \in Messages
    /\ \A p \in Policies : ObjectOf[p] \in Objects
    /\ NoMessage \notin Messages
  BY IngestionAssumption DEF Messages, Objects, NoMessage

\* The channel as a set: a send adds one policy, a receive takes the first.
LEMMA ChannelFacts ==
    ASSUME NEW ch \in Seq(Policies)
    PROVE  /\ ToSet(ch) \subseteq Policies
           /\ ToSet(<<>>) = {}
           /\ \A p \in Policies : /\ Append(ch, p) \in Seq(Policies)
                                  /\ Len(Append(ch, p)) = Len(ch) + 1
                                  /\ ToSet(ch) \subseteq ToSet(Append(ch, p))
                                  /\ p \in ToSet(Append(ch, p))
           /\ ch # <<>> => /\ Head(ch) \in Policies /\ Tail(ch) \in Seq(Policies)
                           /\ Len(Tail(ch)) = Len(ch) - 1
                           /\ ToSet(ch) \subseteq ToSet(Tail(ch)) \cup {Head(ch)}
  <1>1. ToSet(ch) \subseteq Policies /\ ToSet(<<>>) = {}
    BY DEF ToSet
  <1>2. ASSUME NEW p \in Policies
        PROVE  /\ Append(ch, p) \in Seq(Policies) /\ Len(Append(ch, p)) = Len(ch) + 1
               /\ ToSet(ch) \subseteq ToSet(Append(ch, p)) /\ p \in ToSet(Append(ch, p))
    <2>1. /\ Append(ch, p) \in Seq(Policies) /\ Len(Append(ch, p)) = Len(ch) + 1 /\ Len(ch) \in Nat
          /\ DOMAIN ch = 1..Len(ch) /\ DOMAIN Append(ch, p) = 1..(Len(ch) + 1)
          /\ Append(ch, p)[Len(ch) + 1] = p
          /\ \A i \in 1..Len(ch) : Append(ch, p)[i] = ch[i]
      OBVIOUS
    <2> QED BY <2>1 DEF ToSet
  <1>3. ASSUME ch # <<>>
        PROVE  /\ Head(ch) \in Policies /\ Tail(ch) \in Seq(Policies) /\ Len(Tail(ch)) = Len(ch) - 1
               /\ ToSet(ch) \subseteq ToSet(Tail(ch)) \cup {Head(ch)}
    <2>1. /\ Head(ch) \in Policies /\ Tail(ch) \in Seq(Policies) /\ Len(Tail(ch)) = Len(ch) - 1
          /\ Len(ch) \in Nat /\ Head(ch) = ch[1]
          /\ DOMAIN ch = 1..Len(ch) /\ DOMAIN Tail(ch) = 1..(Len(ch) - 1)
          /\ \A i \in 1..(Len(ch) - 1) : Tail(ch)[i] = ch[i + 1]
      BY <1>3
    <2>2. ASSUME NEW i \in 1..Len(ch) PROVE ch[i] \in ToSet(Tail(ch)) \cup {Head(ch)}
      <3>1. CASE i = 1
        BY <2>1, <3>1
      <3>2. CASE i # 1
        <4>1. i - 1 \in 1..(Len(ch) - 1) /\ Tail(ch)[i - 1] = ch[i]
          BY <2>1, <3>2
        <4> QED BY <2>1, <4>1 DEF ToSet
      <3> QED BY <3>1, <3>2
    <2> QED BY <2>1, <2>2 DEF ToSet
  <1>4. QED
    BY <1>1, <1>2, <1>3

\* What a released message becomes, and nothing else changes.
LEMMA ReleasedFacts ==
    ASSUME IngestionInv, NEW m \in Messages
    PROVE  /\ Released(m) \in [Messages -> {"unsent", "ready", "locked", "completed", "dead"}]
           /\ Released(m)[m] \in {"ready", "dead"}
           /\ Released(m)[m] = "ready" => deliveries[m] < MaxDelivery
           /\ \A n \in Messages : n # m => Released(m)[n] = queue[n]
  BY IngestionAssumption DEF Released, IngestionInv, TypeOK

-----------------------------------------------------------------------------
(* Each step keeps the invariant.                                          *)

\* A rotation publishes an event nobody has seen.
LEMMA RotateKeeps ==
    ASSUME IngestionInv, NEW o \in Objects, Rotate(o)
    PROVE  IngestionInv'
  <1> DEFINE m0 == <<o, upstream[o] + 1>>
  <1>1. upstream[o] \in Nat /\ upstream[o] + 1 <= MaxVersion[o]
    <2>1. upstream[o] \in Nat /\ MaxVersion[o] \in Nat
      BY IngestionAssumption DEF IngestionInv, TypeOK
    <2> QED BY <2>1 DEF Rotate
  <1>2. m0 \in Messages /\ m0[1] = o /\ m0[2] = upstream[o] + 1
    BY <1>1, MessageFacts
  <1>3. queue[m0] = "unsent" /\ m0 \notin batch /\ m0 # current
    BY <1>1, <1>2, MessageFacts DEF IngestionInv, ListenerInv, TypeOK
  <1> HIDE DEF m0
  <1>4. /\ queue' = [queue EXCEPT ![m0] = "ready"] /\ upstream' = [upstream EXCEPT ![o] = @ + 1]
        /\ UNCHANGED <<noticed, busy, deliveries, batch, current, todo, channel, workqueue, crashes>>
    BY DEF Rotate, m0, listenerVars
  <1>5. /\ upstream' \in [Objects -> Nat] /\ \A x \in Objects : upstream'[x] >= upstream[x] /\ upstream'[x] <= MaxVersion[x]
        /\ upstream'[o] = upstream[o] + 1
        /\ queue' \in [Messages -> {"unsent", "ready", "locked", "completed", "dead"}]
        /\ queue'[m0] = "ready" /\ \A m \in Messages : m # m0 => queue'[m] = queue[m]
    BY <1>1, <1>2, <1>4, IngestionAssumption DEF IngestionInv, TypeOK
  <1>6. TypeOK'
    BY <1>4, <1>5, MessageFacts DEF IngestionInv, TypeOK
  <1>7. ListenerInv'
    BY <1>2, <1>3, <1>4, <1>5, MessageFacts, IngestionAssumption DEF IngestionInv, TypeOK, ListenerInv
  <1>8. ASSUME NEW p \in Policies, NEW m \in Messages, News(p, m)', ~Undeliverable(p, m)'
        PROVE  OnItsWay(p, m)'
    BY <1>3, <1>4, <1>5, <1>8 DEF IngestionInv, News, Undeliverable, OnItsWay
  <1>9. QED
    BY <1>4, <1>6, <1>7, <1>8 DEF IngestionInv, BusyIsQueued

\* A lock that expires hands the message back to the queue.
LEMMA LockExpiresKeeps ==
    ASSUME IngestionInv, NEW m0 \in Messages, LockExpires(m0)
    PROVE  IngestionInv'
  <1>1. /\ queue[m0] = "locked" /\ queue' = Released(m0)
        /\ UNCHANGED <<upstream, noticed, busy, deliveries, batch, current, todo, channel, workqueue, crashes>>
    BY DEF LockExpires, vaultVars, listenerVars
  <1>2. /\ queue' \in [Messages -> {"unsent", "ready", "locked", "completed", "dead"}]
        /\ queue'[m0] \in {"ready", "dead"} /\ (queue'[m0] = "ready" => deliveries[m0] < MaxDelivery)
        /\ \A n \in Messages : n # m0 => queue'[n] = queue[n]
    BY <1>1, ReleasedFacts
  <1>3. TypeOK'
    BY <1>1, <1>2 DEF IngestionInv, TypeOK
  <1>4. ListenerInv'
    BY <1>1, <1>2 DEF IngestionInv, TypeOK, ListenerInv
  <1>5. ASSUME NEW p \in Policies, NEW m \in Messages, News(p, m)', ~Undeliverable(p, m)'
        PROVE  OnItsWay(p, m)'
    BY <1>1, <1>2, <1>5 DEF IngestionInv, News, Undeliverable, OnItsWay
  <1>6. QED
    BY <1>1, <1>3, <1>4, <1>5 DEF IngestionInv, BusyIsQueued

\* A batch is received when the last one is handled.
LEMMA ReceiveKeeps ==
    ASSUME IngestionInv, ReceiveMessages
    PROVE  IngestionInv'
  <1>1. PICK received \in SUBSET {m \in Messages : queue[m] = "ready"} :
           /\ batch' = received
           /\ queue' = [m \in Messages |-> IF m \in received THEN "locked" ELSE queue[m]]
           /\ deliveries' = [m \in Messages |-> deliveries[m] + IF m \in received THEN 1 ELSE 0]
    BY DEF ReceiveMessages
  <1>2. batch = {} /\ UNCHANGED <<upstream, noticed, busy, current, todo, channel, workqueue, crashes>>
    BY DEF ReceiveMessages, vaultVars
  <1>3. current = NoMessage
    BY <1>2 DEF IngestionInv, ListenerInv
  <1>4. /\ deliveries' \in [Messages -> 0..MaxDelivery]
        /\ \A m \in Messages : m \notin received => deliveries'[m] = deliveries[m]
    BY <1>1, IngestionAssumption DEF IngestionInv, TypeOK, ListenerInv
  <1>5. queue' \in [Messages -> {"unsent", "ready", "locked", "completed", "dead"}]
    BY <1>1 DEF IngestionInv, TypeOK
  <1>6. TypeOK'
    BY <1>1, <1>2, <1>4, <1>5 DEF IngestionInv, TypeOK
  <1>7. ListenerInv'
    BY <1>1, <1>2, <1>3, <1>4 DEF IngestionInv, TypeOK, ListenerInv
  <1>8. ASSUME NEW p \in Policies, NEW m \in Messages, News(p, m)', ~Undeliverable(p, m)'
        PROVE  OnItsWay(p, m)'
    BY <1>1, <1>2, <1>8 DEF IngestionInv, News, Undeliverable, OnItsWay
  <1>9. QED
    BY <1>2, <1>6, <1>7, <1>8 DEF IngestionInv, BusyIsQueued

\* The handler takes on a message: every policy it can reach is in todo.
LEMMA BeginKeeps ==
    ASSUME IngestionInv, NEW m0 \in Messages, BeginMessage(m0)
    PROVE  IngestionInv'
  <1>1. /\ current = NoMessage /\ m0 \in batch /\ current' = m0 /\ todo' = Matching(m0)
        /\ UNCHANGED <<upstream, noticed, busy, queue, deliveries, batch, channel, workqueue, crashes>>
    BY DEF BeginMessage, vaultVars, brokerVars
  <1>2. Matching(m0) \subseteq Policies
    BY IngestionAssumption DEF Matching
  <1>3. TypeOK'
    BY <1>1, <1>2 DEF IngestionInv, TypeOK
  <1>4. ListenerInv'
    BY <1>1, MessageFacts DEF IngestionInv, ListenerInv
  <1>5. ASSUME NEW p \in Policies, NEW m \in Messages, News(p, m)', ~Undeliverable(p, m)'
        PROVE  OnItsWay(p, m)'
    BY <1>1, <1>5, MessageFacts DEF IngestionInv, News, Undeliverable, OnItsWay
  <1>6. QED
    BY <1>1, <1>3, <1>4, <1>5 DEF IngestionInv, BusyIsQueued

\* An abandoned message is in the queue again, or set aside: what its
\* handler had not enqueued is in the queue with it.
LEMMA AbandonKeeps ==
    ASSUME IngestionInv, NEW m0 \in batch, current \in {m0, NoMessage}, Abandon(m0),
           UNCHANGED <<vaultVars, channel, workqueue, crashes>>
    PROVE  IngestionInv'
  <1>1. /\ batch' = batch \ {m0} /\ current' = NoMessage /\ todo' = {}
        /\ UNCHANGED <<upstream, noticed, busy, deliveries, channel, workqueue, crashes>>
    BY DEF Abandon, vaultVars
  <1>2. m0 \in Messages /\ queue[m0] \notin {"unsent", "completed"}
    BY DEF IngestionInv, TypeOK, ListenerInv
  <1>3. /\ queue' \in [Messages -> {"unsent", "ready", "locked", "completed", "dead"}]
        /\ queue'[m0] \notin {"unsent", "completed"}
        /\ queue'[m0] = "ready" => deliveries[m0] < MaxDelivery
        /\ \A n \in Messages : n # m0 => queue'[n] = queue[n]
    BY <1>2, ReleasedFacts DEF Abandon, IngestionInv, TypeOK, ListenerInv
  <1>4. TypeOK'
    BY <1>1, <1>3 DEF IngestionInv, TypeOK
  <1>5. ListenerInv'
    BY <1>1, <1>2, <1>3 DEF IngestionInv, TypeOK, ListenerInv
  <1>6. ASSUME NEW p \in Policies, NEW m \in Messages, News(p, m)', ~Undeliverable(p, m)'
        PROVE  OnItsWay(p, m)'
    <2>1. CASE m = m0
      BY <1>1, <1>3, <2>1, MessageFacts DEF OnItsWay
    <2>2. CASE m # m0
      <3>1. News(p, m) /\ ~Undeliverable(p, m)
        BY <1>1, <1>3, <1>6, <2>2 DEF News, Undeliverable
      <3>2. OnItsWay(p, m) /\ m # current
        BY <3>1, <2>2, MessageFacts DEF IngestionInv
      <3> QED BY <1>1, <1>3, <2>2, <3>2, MessageFacts DEF OnItsWay
    <2> QED BY <2>1, <2>2
  <1>7. QED
    BY <1>1, <1>4, <1>5, <1>6 DEF IngestionInv, BusyIsQueued

\* A message is acknowledged when all its policies are in the channel.
LEMMA AckKeeps ==
    ASSUME IngestionInv, Ack
    PROVE  IngestionInv'
  <1>1. /\ current \in batch /\ current \in Messages /\ todo = {}
        /\ UNCHANGED <<vaultVars, channel, workqueue, crashes>>
    BY DEF Ack, IngestionInv, ListenerInv, TypeOK
  <1>2. CASE Abandon(current)
    BY <1>1, <1>2, AbandonKeeps
  <1>3. CASE /\ queue[current] = "locked" /\ queue' = [queue EXCEPT ![current] = "completed"] /\ batch' = batch \ {current}
             /\ current' = NoMessage /\ UNCHANGED <<deliveries, todo>>
    <2>1. UNCHANGED <<upstream, noticed, busy, deliveries, todo, channel, workqueue, crashes>>
      BY <1>1, <1>3 DEF vaultVars
    <2>2. /\ queue' \in [Messages -> {"unsent", "ready", "locked", "completed", "dead"}]
          /\ queue'[current] = "completed" /\ \A n \in Messages : n # current => queue'[n] = queue[n]
      BY <1>1, <1>3 DEF IngestionInv, TypeOK
    <2>3. TypeOK'
      BY <1>3, <2>1, <2>2 DEF IngestionInv, TypeOK
    <2>4. ListenerInv'
      BY <1>1, <1>3, <2>1, <2>2 DEF IngestionInv, TypeOK, ListenerInv
    <2>5. ASSUME NEW p \in Policies, NEW m \in Messages, News(p, m)', ~Undeliverable(p, m)'
          PROVE  OnItsWay(p, m)'
      <3>1. News(p, m) /\ ~Undeliverable(p, m)
        BY <1>1, <1>3, <2>1, <2>2, <2>5 DEF News, Undeliverable
      <3> QED BY <1>1, <1>3, <2>1, <2>2, <3>1, MessageFacts DEF IngestionInv, OnItsWay
    <2> QED BY <2>1, <2>3, <2>4, <2>5 DEF IngestionInv, BusyIsQueued
  <1>4. QED
    BY <1>2, <1>3 DEF Ack

\* A send to the channel, and the channel's hand-over to the workqueue.
LEMMA ChannelKeeps ==
    ASSUME IngestionInv, (\E p \in Policies : Enqueue(p)) \/ Dispatch
    PROVE  IngestionInv'
  <1>c. channel \in Seq(Policies) /\ Len(channel) <= BufferSize /\ workqueue \subseteq Policies /\ BufferSize \in Nat
    BY IngestionAssumption DEF IngestionInv, TypeOK
  <1>1. UNCHANGED <<upstream, noticed, busy, queue, deliveries, batch, current, crashes>>
    BY DEF Enqueue, Dispatch, vaultVars, brokerVars, listenerVars
  <1>2. /\ channel' \in Seq(Policies) /\ Len(channel') <= BufferSize
        /\ todo' \subseteq todo /\ workqueue' \subseteq Policies /\ workqueue \subseteq workqueue'
        /\ workqueue \cup ToSet(channel) \subseteq workqueue' \cup ToSet(channel')
        /\ todo \subseteq todo' \cup ToSet(channel')
    <2>1. ASSUME NEW p \in Policies, Enqueue(p)
          PROVE  <1>2!:
      BY <1>c, <2>1, ChannelFacts DEF Enqueue
    <2>2. ASSUME Dispatch
          PROVE  <1>2!:
      BY <1>c, <2>2, ChannelFacts DEF Dispatch, listenerVars
    <2> QED BY <2>1, <2>2
  <1>3. TypeOK'
    BY <1>1, <1>2 DEF IngestionInv, TypeOK
  <1>4. ListenerInv'
    BY <1>1, <1>2 DEF IngestionInv, ListenerInv
  <1>5. ASSUME NEW p \in Policies, NEW m \in Messages, News(p, m)', ~Undeliverable(p, m)'
        PROVE  OnItsWay(p, m)'
    <2>1. OnItsWay(p, m)
      BY <1>1, <1>5 DEF IngestionInv, News, Undeliverable
    <2> QED BY <1>1, <1>2, <2>1 DEF OnItsWay
  <1>6. QED
    BY <1>1, <1>2, <1>3, <1>4, <1>5 DEF IngestionInv, BusyIsQueued

\* A reconcile that asks the vault has no news left; one that does not keeps
\* its key.
LEMMA ReconcileKeeps ==
    ASSUME IngestionInv, NEW p0 \in Policies, CheckUpstream(p0) \/ FinishRotation(p0)
    PROVE  IngestionInv'
  <1>t. ObjectOf[p0] \in Objects /\ upstream[ObjectOf[p0]] \in Nat
    BY MessageFacts DEF IngestionInv, TypeOK
  <1>1. UNCHANGED <<upstream, queue, deliveries, batch, current, todo, channel, crashes>>
    BY DEF CheckUpstream, FinishRotation, brokerVars, listenerVars
  <1>2. /\ noticed' \in [Policies -> Nat]
        /\ \A p \in Policies : noticed'[p] <= upstream[ObjectOf[p]]
        /\ \A p \in Policies \ {p0} : noticed'[p] = noticed[p]
    <2>1. noticed \in [Policies -> Nat] /\ \A p \in Policies : noticed[p] <= upstream[ObjectOf[p]]
      BY DEF IngestionInv, TypeOK
    <2>2. noticed' = noticed \/ noticed' = [noticed EXCEPT ![p0] = upstream[ObjectOf[p0]]]
      BY DEF CheckUpstream, FinishRotation
    <2> QED BY <1>t, <2>1, <2>2
  <1>3. /\ busy' \subseteq Policies /\ workqueue' \subseteq Policies /\ busy' \subseteq workqueue'
        /\ workqueue \ {p0} \subseteq workqueue'
        /\ p0 \in workqueue' \/ noticed'[p0] = upstream[ObjectOf[p0]]
    BY DEF CheckUpstream, FinishRotation, IngestionInv, TypeOK, BusyIsQueued
  <1>4. TypeOK'
    BY <1>1, <1>2, <1>3 DEF IngestionInv, TypeOK
  <1>5. ListenerInv'
    BY <1>1 DEF IngestionInv, ListenerInv
  <1>6. ASSUME NEW p \in Policies, NEW m \in Messages, News(p, m)', ~Undeliverable(p, m)'
        PROVE  OnItsWay(p, m)'
    <2>1. CASE p = p0
      <3>1. queue[m] # "unsent" /\ m[1] = ObjectOf[p0] /\ m[2] > noticed'[p0]
        BY <1>1, <1>6, <2>1 DEF News
      <3>2. m[2] <= upstream[ObjectOf[p0]] /\ m[2] \in Nat
        BY <3>1, MessageFacts DEF IngestionInv, ListenerInv
      <3>3. p0 \in workqueue'
        BY <1>t, <1>3, <3>1, <3>2
      <3> QED BY <2>1, <3>3 DEF OnItsWay
    <2>2. CASE p # p0
      <3>1. OnItsWay(p, m)
        BY <1>1, <1>2, <1>6, <2>2 DEF IngestionInv, News, Undeliverable
      <3> QED BY <1>1, <1>3, <2>2, <3>1 DEF OnItsWay
    <2> QED BY <2>1, <2>2
  <1>7. QED
    BY <1>3, <1>4, <1>5, <1>6 DEF IngestionInv, BusyIsQueued

\* A resync, and the list a new process starts with, queue every policy.
LEMMA RelistKeeps ==
    ASSUME IngestionInv, Resync \/ Crash
    PROVE  IngestionInv'
  <1>1. /\ workqueue' = Policies
        /\ UNCHANGED <<upstream, noticed, busy, queue, deliveries>>
    BY DEF Resync, Crash, Restart, vaultVars, brokerVars
  <1>2. \/ UNCHANGED <<batch, current, todo, channel, crashes>>
        \/ /\ batch' = {} /\ current' = NoMessage /\ todo' = {} /\ channel' = <<>>
           /\ crashes < MaxCrashes /\ crashes' = crashes + 1
    BY DEF Resync, Crash, listenerVars
  <1>3. TypeOK'
    <2>1. crashes' \in 0..MaxCrashes
      BY <1>2, IngestionAssumption DEF IngestionInv, TypeOK
    <2>2. channel' \in Seq(Policies) /\ Len(channel') <= BufferSize
      <3>1. channel \in Seq(Policies) /\ Len(channel) <= BufferSize /\ BufferSize \in Nat
        BY IngestionAssumption DEF IngestionInv, TypeOK
      <3>2. channel' = channel \/ channel' = <<>>
        BY <1>2
      <3>3. <<>> \in Seq(Policies) /\ Len(<<>>) = 0
        OBVIOUS
      <3>4. CASE channel' = channel
        BY <3>1, <3>4
      <3>5. CASE channel' = <<>>
        BY <3>1, <3>3, <3>5
      <3> QED BY <3>2, <3>4, <3>5
    <2>3. batch' \subseteq Messages /\ current' \in Messages \cup {NoMessage} /\ todo' \subseteq Policies
      BY <1>2 DEF IngestionInv, TypeOK
    <2> QED BY <1>1, <2>1, <2>2, <2>3 DEF IngestionInv, TypeOK
  <1>4. ListenerInv'
    BY <1>1, <1>2 DEF IngestionInv, ListenerInv
  <1>5. QED
    BY <1>1, <1>3, <1>4 DEF IngestionInv, BusyIsQueued, OnItsWay, TypeOK

\* Every step keeps the invariant.
LEMMA IngestionStep ==
    ASSUME IngestionInv, [Next]_vars
    PROVE  IngestionInv'
  <1>1. ASSUME NEW m \in Messages, Reject(m) PROVE IngestionInv'
    BY <1>1, AbandonKeeps DEF Reject
  <1>2. CASE NackChannelFull
    <2>1. current \in batch
      BY <1>2 DEF NackChannelFull, IngestionInv, ListenerInv
    <2> QED BY <1>2, <2>1, AbandonKeeps DEF NackChannelFull
  <1>3. CASE UNCHANGED vars
    BY <1>3 DEF vars, vaultVars, brokerVars, listenerVars, IngestionInv, TypeOK, ListenerInv, BusyIsQueued,
                News, Undeliverable, OnItsWay
  <1>4. QED
    BY <1>1, <1>2, <1>3, RotateKeeps, LockExpiresKeeps, ReceiveKeeps, BeginKeeps, AckKeeps, ChannelKeeps,
       ReconcileKeeps, RelistKeeps
    DEF Next, Listener

\* Before the first rotation there is nothing to notice.
LEMMA IngestionInit == Init => IngestionInv
  <1> SUFFICES ASSUME Init PROVE IngestionInv
    OBVIOUS
  <1>1. TypeOK
    BY IngestionAssumption, MessageFacts DEF Init, TypeOK
  <1>2. ListenerInv
    BY MessageFacts DEF Init, ListenerInv
  <1>3. QED
    BY <1>1, <1>2 DEF Init, IngestionInv, BusyIsQueued, News

-----------------------------------------------------------------------------

\* Type correctness of the ingestion path: the channel never exceeds its
\* buffer and no message is delivered more often than the queue allows.
THEOREM IngestionType == Spec => []TypeOK
  <1>1. IngestionInv => TypeOK
    BY DEF IngestionInv
  <1>2. QED
    BY <1>1, IngestionInit, IngestionStep, PTL DEF Spec

\* No rotation is lost on its way from the vault to a reconcile, whatever
\* locks expire, batches are abandoned half enqueued, duplicates arrive and
\* processes stop, and no rotation in progress is without a queued key:
\* unless none of the events since can reach the policy at all.
THEOREM NothingLost == Spec => [](NoLostRotation /\ BusyIsQueued)
  <1>1. ASSUME IngestionInv PROVE NoLostRotation /\ BusyIsQueued
    <2>1. ASSUME NEW p \in Policies, NEW m \in Messages, News(p, m), ~Undeliverable(p, m)
          PROVE  Pending(p)
      BY <1>1, <2>1 DEF IngestionInv, OnItsWay, Pending
    <2> QED BY <1>1, <2>1 DEF NoLostRotation, IngestionInv
  <1>2. QED
    BY <1>1, IngestionInit, IngestionStep, PTL DEF Spec
=============================================================================
