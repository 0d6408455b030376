--------------------------- MODULE EventIngestion ---------------------------
(***************************************************************************)
(* From a rotation in the vault to a reconcile that notices it: the        *)
(* peek-lock queue, the ServiceBusListener loop, the event handler wired   *)
(* in main.go, the bounded channel and the controller's workqueue.  The    *)
(* message is acknowledged once its policies are in the channel, not once  *)
(* their revisions are materialized, and everything behind the queue is    *)
(* lost when the process stops.                                            *)
(*                                                                         *)
(* Service Bus and controller-runtime are external: the queue delivers at  *)
(* least once and sets a message aside after MaxDelivery deliveries; the   *)
(* workqueue merges duplicate keys.                                        *)
(***************************************************************************)
EXTENDS Naturals, Sequences, FiniteSets, SequencesExt

CONSTANTS Policies,     \* DynamicSecretPolicy objects
          ObjectOf,     \* policy -> name of the vault object it follows
          Malformed,    \* messages whose body cannot be parsed
          Anonymous,    \* messages that name no object: they match every policy
          Named,        \* message -> policies that have the policyName it gives
          Scope,        \* message -> policies in the namespace it gives, or all
          MaxVersion,   \* bound: object -> number of versions it goes through
          MaxDelivery,  \* the queue's maximum delivery count
          BufferSize,   \* --event-buffer-size
          MaxMessages,  \* messages per receive
          MaxCrashes    \* bound: restarts of the operator

Objects == {ObjectOf[p] : p \in Policies}
NoMessage == <<>>

\* The event for version rev of an object.
Messages == UNION {{o} \X (1..MaxVersion[o]) : o \in Objects}

ASSUME IngestionAssumption ==
    /\ ObjectOf \in [Policies -> Objects]
    /\ Malformed \subseteq Messages /\ Anonymous \subseteq Messages
    /\ Named \in [Messages -> SUBSET Policies] /\ Scope \in [Messages -> SUBSET Policies]
    /\ MaxVersion \in [Objects -> Nat]
    /\ {MaxDelivery, BufferSize, MaxMessages} \subseteq Nat \ {0}
    /\ MaxCrashes \in Nat

VARIABLES
    upstream,    \* latest version of each vault object
    noticed,     \* version each policy last materialized
    busy,        \* policies with a rotation in progress
    queue,       \* state of each message in Service Bus
    deliveries,  \* delivery count of each message
    batch,       \* messages received and not yet handled
    current,     \* message the handler works on, or NoMessage
    todo,        \* matching policies the handler has still to enqueue
    channel,     \* eventsChannel
    workqueue,   \* keys waiting in the controller's workqueue
    crashes      \* restarts so far

vaultVars    == <<upstream, noticed, busy>>
brokerVars   == <<queue, deliveries>>
listenerVars == <<batch, current, todo>>
vars == <<vaultVars, brokerVars, listenerVars, channel, workqueue, crashes>>

TypeOK ==
    /\ upstream \in [Objects -> Nat] /\ \A o \in Objects : upstream[o] <= MaxVersion[o]
    /\ noticed \in [Policies -> Nat] /\ \A p \in Policies : noticed[p] <= upstream[ObjectOf[p]]
    /\ busy \subseteq Policies
    /\ queue \in [Messages -> {"unsent", "ready", "locked", "completed", "dead"}]
    /\ deliveries \in [Messages -> 0..MaxDelivery]
    /\ batch \subseteq Messages
    /\ current \in Messages \cup {NoMessage}
    /\ todo \subseteq Policies
    /\ channel \in Seq(Policies) /\ Len(channel) <= BufferSize
    /\ workqueue \subseteq Policies
    /\ crashes \in 0..MaxCrashes

Init ==
    /\ upstream = [o \in Objects |-> 0]
    /\ noticed = [p \in Policies |-> 0]
    /\ busy = {}
    /\ queue = [m \in Messages |-> "unsent"]
    /\ deliveries = [m \in Messages |-> 0]
    /\ batch = {}
    /\ current = NoMessage
    /\ todo = {}
    /\ channel = <<>>
    /\ workqueue = {}
    /\ crashes = 0

-----------------------------------------------------------------------------
(* The vault and the queue.                                                *)

\* A vault object gets a new version and its event is published.
Rotate(o) ==
    /\ upstream[o] < MaxVersion[o]
    /\ upstream' = [upstream EXCEPT ![o] = @ + 1]
    /\ queue' = [queue EXCEPT ![<<o, upstream[o] + 1>>] = "ready"]
    /\ UNCHANGED <<noticed, busy, deliveries, listenerVars, channel, workqueue, crashes>>

\* A released message is delivered again, until the queue sets it aside.
Released(m) ==
    IF deliveries[m] < MaxDelivery THEN [queue EXCEPT ![m] = "ready"]
                                   ELSE [queue EXCEPT ![m] = "dead"]

\* The peek-lock runs out, while the message is handled or after a crash.
LockExpires(m) ==
    /\ queue[m] = "locked"
    /\ queue' = Released(m)
    /\ UNCHANGED <<vaultVars, deliveries, listenerVars, channel, workqueue, crashes>>

-----------------------------------------------------------------------------
(* The listener loop and the handler it calls for each message in turn.    *)

ReceiveMessages ==
    /\ batch = {}
    /\ \E received \in (SUBSET {m \in Messages : queue[m] = "ready"}) \ {{}} :
           /\ Cardinality(received) <= MaxMessages
           /\ batch' = received
           /\ queue' = [m \in Messages |-> IF m \in received THEN "locked" ELSE queue[m]]
           /\ deliveries' = [m \in Messages |-> deliveries[m] + IF m \in received THEN 1 ELSE 0]
    /\ UNCHANGED <<vaultVars, current, todo, channel, workqueue, crashes>>

\* The policies a message concerns.
Matching(m) == {p \in Scope[m] : m \in Anonymous \/ ObjectOf[p] = m[1] \/ p \in Named[m]}

BeginMessage(m) ==
    /\ current = NoMessage
    /\ m \in batch \ Malformed
    /\ current' = m
    /\ todo' = Matching(m)
    /\ UNCHANGED <<vaultVars, brokerVars, batch, channel, workqueue, crashes>>

\* The handler is done with m and returned an error: the lock is given up.
\* If the lock had expired already, AbandonMessage fails and nothing changes.
Abandon(m) ==
    /\ batch' = batch \ {m}
    /\ current' = NoMessage
    /\ todo' = {}
    /\ queue' = IF queue[m] = "locked" THEN Released(m) ELSE queue
    /\ UNCHANGED deliveries

\* The body cannot be parsed, or the policies cannot be listed.
Reject(m) ==
    /\ current = NoMessage
    /\ m \in batch
    /\ Abandon(m)
    /\ UNCHANGED <<vaultVars, channel, workqueue, crashes>>

\* Faulty: the send does not wait for room.
Enqueue_Unbounded(p) ==
    /\ p \in todo
    /\ channel' = Append(channel, p)
    /\ todo' = todo \ {p}
    /\ UNCHANGED <<vaultVars, brokerVars, batch, current, workqueue, crashes>>

Enqueue(p) ==
    /\ p \in todo
    /\ Len(channel) < BufferSize
    /\ channel' = Append(channel, p)
    /\ todo' = todo \ {p}
    /\ UNCHANGED <<vaultVars, brokerVars, batch, current, workqueue, crashes>>

\* Faulty: the message is acknowledged although a policy was dropped.
NackChannelFull_Acks ==
    /\ todo # {}
    /\ Len(channel) = BufferSize
    /\ queue' = IF queue[current] = "locked" THEN [queue EXCEPT ![current] = "completed"] ELSE queue
    /\ batch' = batch \ {current} /\ current' = NoMessage /\ todo' = {}
    /\ UNCHANGED <<vaultVars, deliveries, channel, workqueue, crashes>>

\* The channel stays full for two seconds: some policies may be enqueued
\* already when the message goes back.
NackChannelFull ==
    /\ todo # {}
    /\ Len(channel) = BufferSize
    /\ Abandon(current)
    /\ UNCHANGED <<vaultVars, channel, workqueue, crashes>>

\* CompleteMessage; it fails when the lock has expired, or on the network,
\* and the handler's error abandons the message.
Ack ==
    /\ current # NoMessage /\ todo = {}
    /\ \/ /\ queue[current] = "locked"
          /\ queue' = [queue EXCEPT ![current] = "completed"]
          /\ batch' = batch \ {current}
          /\ current' = NoMessage
          /\ UNCHANGED <<deliveries, todo>>
       \/ Abandon(current)
    /\ UNCHANGED <<vaultVars, channel, workqueue, crashes>>

-----------------------------------------------------------------------------
(* The controller.                                                         *)

\* The channel source hands the event to the workqueue, which merges keys.
Dispatch ==
    /\ channel # <<>>
    /\ channel' = Tail(channel)
    /\ workqueue' = workqueue \cup {Head(channel)}
    /\ UNCHANGED <<vaultVars, brokerVars, listenerVars, crashes>>

\* A reconcile that finds no rotation in progress asks the vault.
CheckUpstream(p) ==
    /\ p \in workqueue \ busy
    /\ noticed' = [noticed EXCEPT ![p] = upstream[ObjectOf[p]]]
    /\ IF noticed[p] # upstream[ObjectOf[p]]
       THEN busy' = busy \cup {p} /\ UNCHANGED workqueue
       ELSE workqueue' = workqueue \ {p} /\ UNCHANGED busy
    /\ UNCHANGED <<upstream, brokerVars, listenerVars, channel, crashes>>

\* A rotation in progress keeps its key queued (Requeue, RequeueAfter or an
\* error) and does not ask the vault; its last step requeues once more.  A
\* tripped breaker asks the vault at once when it is looked at again.
FinishRotation(p) ==
    /\ p \in workqueue \cap busy
    /\ busy' = busy \ {p}
    /\ UNCHANGED <<upstream, noticed, brokerVars, listenerVars, channel, workqueue, crashes>>

\* Faulty: the cache's resync is not configured.
Resync_Off == UNCHANGED vars

\* --sync-period: every policy is looked at again.
Resync ==
    /\ workqueue' = Policies
    /\ UNCHANGED <<vaultVars, brokerVars, listenerVars, channel, crashes>>

\* Faulty: a restarted controller waits for events.
Restart_NoList == workqueue' = {}

\* A new process lists every policy into its workqueue.
Restart == workqueue' = Policies

\* The process stops and another takes over: batch, channel and workqueue are
\* lost, locks stay until they expire, status (busy, noticed) is in the cluster.
Crash ==
    /\ crashes < MaxCrashes
    /\ crashes' = crashes + 1
    /\ batch' = {} /\ current' = NoMessage /\ todo' = {}
    /\ channel' = <<>>
    /\ Restart
    /\ UNCHANGED <<vaultVars, brokerVars>>

-----------------------------------------------------------------------------

Listener ==
    \/ ReceiveMessages
    \/ \E m \in Messages : BeginMessage(m) \/ Reject(m)
    \/ \E p \in Policies : Enqueue(p)
    \/ NackChannelFull
    \/ Ack

Next ==
    \/ \E o \in Objects : Rotate(o)
    \/ \E m \in Messages : LockExpires(m)
    \/ Listener
    \/ Dispatch
    \/ \E p \in Policies : CheckUpstream(p) \/ FinishRotation(p)
    \/ Resync
    \/ Crash

Spec == Init /\ [][Next]_vars

\* Goroutines and workers run; the resync timer fires; rotations end.
Fairness ==
    /\ WF_vars(Listener)
    /\ WF_vars(Dispatch)
    /\ WF_vars(Resync)
    /\ \A p \in Policies : WF_vars(CheckUpstream(p)) /\ WF_vars(FinishRotation(p))

FairSpec == Spec /\ Fairness

-----------------------------------------------------------------------------
(* Properties.                                                             *)

\* An event of the policy's object that announces something it has not noticed.
News(p, m) == queue[m] # "unsent" /\ m[1] = ObjectOf[p] /\ m[2] > noticed[p]

\* The event cannot reach the policy: it cannot be read, it is addressed to
\* another namespace, or the queue set it aside.
Undeliverable(p, m) == m \in Malformed \/ p \notin Matching(m) \/ queue[m] = "dead"

\* The policy is on its way through the handler, the channel or the
\* workqueue, or an event for it is still to be handled.
Pending(p) ==
    \/ p \in workqueue \cup todo \cup ToSet(channel)
    \/ \E m \in Messages \ {current} : News(p, m) /\ ~Undeliverable(p, m) /\ queue[m] # "completed"

\* No rotation is lost on its way: until a policy has noticed a version of
\* its object, an event for it is in the queue, in the handler, in the
\* channel or in the workqueue, although the message is acknowledged early,
\* unless none of the events since can reach it.
NoLostRotation ==
    \A p \in Policies :
        noticed[p] < upstream[ObjectOf[p]] =>
            Pending(p) \/ \A m \in Messages : News(p, m) => Undeliverable(p, m)

\* A rotation in progress is never left without a queued key.
BusyIsQueued == busy \subseteq workqueue

\* Every policy comes to know its object's last version, even when its event
\* could not be delivered: the resync makes up for it.
EventuallyNoticed == <>[](\A p \in Policies : noticed[p] = upstream[ObjectOf[p]])
=============================================================================
