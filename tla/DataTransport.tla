--------------------------- MODULE DataTransport ---------------------------
(***************************************************************************)
(* The way of a payload from a device that publishes it to the callback of *)
(* a device in another process: the transport hub that owns the transport  *)
(* of the sender (transport_hub), its queue and sender thread (publisher.rs *)
(* of transport-zenoh, or transport-unix), the Zenoh session or the Unix   *)
(* router, the receive thread, and the receiver's SafeSubscription (sync.rs *)
(* of virtmcu-qom) or SafeSubscriber (transport-zenoh).  Both ends may be  *)
(* finalized at any time.                                                  *)
(*                                                                         *)
(* The big QEMU lock is that of the receiver.  A step that holds it from   *)
(* beginning to end and yields nowhere is one action.                      *)
(***************************************************************************)
EXTENDS Naturals, Sequences

CONSTANTS
    Setups,     \* of <<transport, subscription>>: ways to connect the two
    Topics,     \* topics the sender publishes on
    Subscribed, \* the topic of the receiver's subscription
    Extends,    \* <<s, t>>: the name of topic t begins with that of topic s
    MaxSends,   \* bound: payloads of the sender
    Capacity    \* the bound of the publisher's channel (1024 in the code)

ASSUME TransportAssumption ==
    /\ Setups \subseteq {"zenoh", "unix"} \X {"SafeSubscription", "SafeSubscriber"}
    /\ Subscribed \in Topics /\ Extends \subseteq Topics \X Topics
    /\ MaxSends \in Nat /\ Capacity \in Nat \ {0}

VARIABLES
    kind, sub,               \* the setup
    hub,                     \* the hub: "new", "up", "degraded", "gone"
    sender,                  \* the publishing device: "new", "up", "failed", "gone"
    sent,                    \* how many payloads it has published
    tx, tx_valid, dropped,   \* channel, is_valid and dropped_count of the publisher
    failed,                  \* history: payloads lost to a failed put or a broken connection
    hand, tx_thread,         \* the sender thread: payload in hand, "run" or "exited"
    upstream, clients,       \* the Unix router: what it has still to read, its clients
    down,                    \* down[c]: what the receive thread of c has still to read
    ignored,                 \* history: payloads no subscription asked for
    net, item,               \* the receive thread of the receiver, payload in hand
    rx, armed,               \* SafeSubscription: its channel, and its timer is armed
    is_valid, active_count, generation,
    bql,                     \* who holds the big lock of the receiver, or "free"
    main,                    \* the receiver's main thread: "alive", "drain", "freed"
    called,                  \* history: payloads the callback got
    dangling                 \* history: the timer has called into freed memory

setup == <<kind, sub>>
tx_side == <<hub, sender, sent, tx, tx_valid, dropped, failed, hand, tx_thread>>
wire == <<upstream, clients, down, ignored>>
rx_side == <<net, item, rx, armed, is_valid, active_count, generation, bql, main, called, dangling>>
vars == <<setup, tx_side, wire, rx_side>>

None == [n |-> 0, topic |-> Subscribed]
Payload == [n : 1 .. MaxSends, topic : Topics]

DInit ==
    /\ \E s \in Setups : kind = s[1] /\ sub = s[2]
    /\ hub = "new" /\ sender = "new" /\ sent = 0
    /\ tx = <<>> /\ tx_valid = TRUE /\ dropped = 0 /\ failed = 0 /\ hand = None /\ tx_thread = "run"
    /\ upstream = <<>> /\ clients = {"sender", "receiver"}
    /\ down = [c \in clients |-> <<>>] /\ ignored = 0
    /\ net = "read" /\ item = None /\ rx = <<>> /\ armed = FALSE
    /\ is_valid = TRUE /\ active_count = 0 /\ generation = 0
    /\ bql = "free" /\ main = "alive" /\ called = <<>> /\ dangling = FALSE

-----------------------------------------------------------------------------
\* Plausible slips, used to test the properties.

\* The validity is checked when a payload is queued, and not again.
CurrentAlways == TRUE

\* A payload that does not fit is not counted.
PublishUncounted(t) ==
    /\ sender = "up" /\ sent < MaxSends
    /\ sent' = sent + 1
    /\ tx' = IF Len(tx) < Capacity THEN Append(tx, [n |-> sent + 1, topic |-> t]) ELSE tx
    /\ UNCHANGED <<setup, hub, sender, tx_valid, dropped, failed, hand, tx_thread, wire, rx_side>>

\* The newest payload is put in front.
QueuePayloadInFront ==
    /\ net = "send"
    /\ item' = None
    /\ IF main = "freed" THEN net' = "read" /\ UNCHANGED rx
                         ELSE net' = "kick" /\ rx' = <<item>> \o rx
    /\ UNCHANGED <<setup, tx_side, wire, armed, is_valid, active_count, generation, bql, main,
                   called, dangling>>

\* The timer serves one payload, whatever is queued.
TimerFiresForOne ==
    /\ armed /\ bql = "free" /\ main = "alive" /\ rx # <<>>
    /\ armed' = FALSE /\ rx' = Tail(rx)
    /\ called' = IF is_valid /\ generation = 0 THEN Append(called, Head(rx)) ELSE called
    /\ UNCHANGED <<setup, tx_side, wire, net, item, is_valid, active_count, generation, bql, main,
                   dangling>>

\* The main thread keeps the big lock while it waits for the callback.
BeginDropHolding ==
    /\ main = "alive" /\ bql = "free"
    /\ is_valid' = FALSE /\ armed' = FALSE /\ main' = "drain" /\ bql' = "main"
    /\ UNCHANGED <<setup, tx_side, wire, net, item, rx, active_count, generation, called, dangling>>

-----------------------------------------------------------------------------
(* The sending process.                                                    *)

\* open_session: with a router it is tried 101 times, without one once.
Opened == {"up", "degraded"}

\* hub_realize opens the session; when that fails the hub is there and has no
\* transport.
HubRealize ==
    /\ hub = "new"
    /\ hub' \in Opened
    /\ UNCHANGED <<setup, sender, sent, tx, tx_valid, dropped, failed, hand, tx_thread, wire,
                   rx_side>>

\* A device asks the hub for the transport: virtmcu_hub_get_transport.
SenderRealize ==
    /\ sender = "new"
    /\ sender' = IF hub = "up" THEN "up" ELSE "failed"
    /\ UNCHANGED <<setup, hub, sent, tx, tx_valid, dropped, failed, hand, tx_thread, wire,
                   rx_side>>

\* hub_finalize, and the device's: the last one drops the transport.
HubFinalize ==
    /\ hub = "up"
    /\ hub' = "gone"
    /\ UNCHANGED <<setup, sender, sent, tx, tx_valid, dropped, failed, hand, tx_thread, wire,
                   rx_side>>
SenderFinalize ==
    /\ sender = "up"
    /\ sender' = "gone"
    /\ UNCHANGED <<setup, hub, sent, tx, tx_valid, dropped, failed, hand, tx_thread, wire,
                   rx_side>>
Dropped == hub = "gone" /\ sender # "up"

\* SafeSessionPublisher::drop.  (The Unix transport has no drop of its own: its
\* thread ends once the channel is empty and has no sender.)
DropPublisher ==
    /\ Dropped /\ tx_valid /\ kind = "zenoh"
    /\ tx_valid' = FALSE
    /\ UNCHANGED <<setup, hub, sender, sent, tx, dropped, failed, hand, tx_thread, wire, rx_side>>

Overflows == kind = "zenoh" /\ Len(tx) = Capacity

\* DataTransport::publish, with SafeSessionPublisher::send.  It fails when the
\* sender thread of the Unix transport has ended, and with it the channel.
Publish(t) ==
    /\ sender = "up" /\ sent < MaxSends
    /\ sent' = sent + 1
    /\ \/ /\ Overflows
          /\ dropped' = dropped + 1 /\ UNCHANGED <<tx, failed>>
       \/ /\ ~Overflows /\ tx_thread = "run"
          /\ tx' = Append(tx, [n |-> sent + 1, topic |-> t]) /\ UNCHANGED <<dropped, failed>>
       \/ /\ ~Overflows /\ tx_thread = "exited"
          /\ failed' = failed + 1 /\ UNCHANGED <<tx, dropped>>
    /\ UNCHANGED <<setup, hub, sender, tx_valid, hand, tx_thread, wire, rx_side>>

\* The sender thread: recv ...
SenderRecv ==
    /\ tx_thread = "run" /\ hand = None
    /\ IF tx # <<>>
       THEN hand' = Head(tx) /\ tx' = Tail(tx) /\ UNCHANGED tx_thread
       ELSE Dropped /\ tx_thread' = "exited" /\ UNCHANGED <<hand, tx>>
    /\ UNCHANGED <<setup, hub, sender, sent, tx_valid, dropped, failed, wire, rx_side>>

\* ... and put, unless the publisher has been dropped meanwhile.  Zenoh takes it
\* to the subscribers of the topic, Unix to the router.
SenderPut ==
    /\ tx_thread = "run" /\ hand # None
    /\ hand' = None
    /\ IF ~tx_valid
       THEN tx_thread' = "exited" /\ UNCHANGED <<upstream, down, ignored>>
       ELSE /\ UNCHANGED tx_thread
            /\ IF kind = "unix"
               THEN upstream' = Append(upstream, hand) /\ UNCHANGED <<down, ignored>>
               ELSE /\ UNCHANGED upstream
                    /\ IF hand.topic = Subscribed
                       THEN down' = [down EXCEPT !["receiver"] = Append(@, hand)] /\ UNCHANGED ignored
                       ELSE ignored' = ignored + 1 /\ UNCHANGED down
    /\ UNCHANGED <<setup, hub, sender, sent, tx, tx_valid, dropped, failed, clients, rx_side>>

\* The put fails: Zenoh's thread logs it and goes on; that of Unix ends, and what
\* waits in the channel is lost with it.
PutFails ==
    /\ tx_thread = "run" /\ hand # None /\ tx_valid
    /\ hand' = None
    /\ IF kind = "zenoh"
       THEN failed' = failed + 1 /\ UNCHANGED <<tx, tx_thread>>
       ELSE failed' = failed + 1 + Len(tx) /\ tx' = <<>> /\ tx_thread' = "exited"
    /\ UNCHANGED <<setup, hub, sender, sent, tx_valid, dropped, wire, rx_side>>

-----------------------------------------------------------------------------
(* The Unix router: one thread per client reads and writes to all clients, *)
(* the one it read from included, and forgets those it cannot write to.    *)

RouterForward ==
    /\ upstream # <<>>
    /\ upstream' = Tail(upstream)
    /\ \E gone \in SUBSET {c \in clients : c = "sender" /\ tx_thread = "exited"} :
           clients' = clients \ gone
    /\ down' = [c \in DOMAIN down |->
                   IF c \in clients' THEN Append(down[c], Head(upstream)) ELSE down[c]]
    /\ UNCHANGED <<setup, tx_side, ignored, rx_side>>

\* The receive thread of the sending process has no subscription to serve.
SenderReads ==
    /\ down["sender"] # <<>>
    /\ down' = [down EXCEPT !["sender"] = Tail(@)]
    /\ UNCHANGED <<setup, tx_side, upstream, clients, ignored, rx_side>>

-----------------------------------------------------------------------------
(* The receiving process.                                                  *)

\* The transport picks the subscription: Unix compares the topic, or takes the
\* subscribed one for a prefix of it.
Matches(t) == t = Subscribed \/ (kind = "unix" /\ <<Subscribed, t>> \in Extends)

\* The receive thread reads a payload and calls the subscription's wrapper.
Receive ==
    /\ net = "read" /\ down["receiver"] # <<>>
    /\ LET p == Head(down["receiver"])
       IN  IF Matches(p.topic)
           THEN /\ item' = p /\ UNCHANGED ignored
                /\ net' = IF sub = "SafeSubscription" THEN "check" ELSE "enter"
           ELSE ignored' = ignored + 1 /\ UNCHANGED <<item, net>>
    /\ down' = [down EXCEPT !["receiver"] = Tail(@)]
    /\ UNCHANGED <<setup, tx_side, upstream, clients, rx, armed, is_valid, active_count, generation,
                   bql, main, called, dangling>>

\* SafeSubscription: the wrapper reads is_valid ...
CheckValid ==
    /\ net = "check"
    /\ net' = IF is_valid THEN "send" ELSE "read"
    /\ item' = IF is_valid THEN item ELSE None
    /\ UNCHANGED <<setup, tx_side, wire, rx, armed, is_valid, active_count, generation, bql, main,
                   called, dangling>>

\* ... queues the payload, if the channel still has a receiver ...
QueuePayload ==
    /\ net = "send"
    /\ item' = None
    /\ IF main = "freed" THEN net' = "read" /\ UNCHANGED rx
                         ELSE net' = "kick" /\ rx' = Append(rx, item)
    /\ UNCHANGED <<setup, tx_side, wire, armed, is_valid, active_count, generation, bql, main,
                   called, dangling>>

\* ... and kicks the timer, which it owns a share of.
Kick ==
    /\ net = "kick"
    /\ armed' = TRUE /\ net' = "read"
    /\ UNCHANGED <<setup, tx_side, wire, item, rx, is_valid, active_count, generation, bql, main,
                   called, dangling>>

\* What the wrappers check under the big lock before they call the device.
Current == is_valid /\ generation = 0

\* safe_subscription_timer_cb, on the main loop with the big lock.  Once the
\* subscription is freed its argument dangles.
TimerFires ==
    /\ armed /\ bql = "free" /\ main # "drain"
    /\ armed' = FALSE
    /\ IF main = "freed"
       THEN dangling' = TRUE /\ UNCHANGED <<rx, called>>
       ELSE /\ rx' = <<>>
            /\ called' = IF Current THEN called \o rx ELSE called
            /\ UNCHANGED dangling
    /\ UNCHANGED <<setup, tx_side, wire, net, item, is_valid, active_count, generation, bql, main>>

\* SafeSubscriber: the wrapper counts itself in, takes the big lock, calls the
\* device if it may, and counts itself out.
EnterCallback ==
    /\ net = "enter"
    /\ active_count' = active_count + 1 /\ net' = "lock"
    /\ UNCHANGED <<setup, tx_side, wire, item, rx, armed, is_valid, generation, bql, main, called,
                   dangling>>
LockAndCall ==
    /\ net = "lock" /\ bql = "free"
    /\ called' = IF Current THEN Append(called, item) ELSE called
    /\ item' = None /\ net' = "leave"
    /\ UNCHANGED <<setup, tx_side, wire, rx, armed, is_valid, active_count, generation, bql, main,
                   dangling>>
LeaveCallback ==
    /\ net = "leave"
    /\ active_count' = active_count - 1
    /\ net' = "read"
    /\ UNCHANGED <<setup, tx_side, wire, item, rx, armed, is_valid, generation, bql, main, called,
                   dangling>>

\* The device starts a new life under the same subscription.
NewGeneration ==
    /\ main = "alive" /\ generation = 0
    /\ generation' = 1
    /\ UNCHANGED <<setup, tx_side, wire, net, item, rx, armed, is_valid, active_count, bql, main,
                   called, dangling>>

\* Drop of either subscription: invalid, the timer deleted, the big lock
\* yielded (temporary_unlock) ...
BeginDrop ==
    /\ main = "alive" /\ bql = "free"
    /\ is_valid' = FALSE /\ armed' = FALSE
    /\ main' = "drain"
    /\ UNCHANGED <<setup, tx_side, wire, net, item, rx, active_count, generation, bql, called, dangling>>

\* ... and, when no callback is active, the state freed.
EndDrop ==
    /\ main = "drain" /\ active_count = 0
    /\ main' = "freed"
    /\ rx' = <<>> /\ bql' = "free"
    /\ UNCHANGED <<setup, tx_side, wire, net, item, armed, is_valid, active_count, generation,
                   called, dangling>>

-----------------------------------------------------------------------------
NetStep ==
    \/ Receive \/ CheckValid \/ QueuePayload \/ Kick \/ EnterCallback \/ LockAndCall \/ LeaveCallback
SendStep == SenderRecv \/ SenderPut \/ PutFails

DNext ==
    \/ HubRealize \/ SenderRealize \/ HubFinalize \/ SenderFinalize \/ DropPublisher
    \/ \E t \in Topics : Publish(t)
    \/ SendStep \/ RouterForward \/ SenderReads
    \/ NetStep \/ TimerFires \/ NewGeneration \/ BeginDrop \/ EndDrop

\* The threads and the main loop are scheduled.  Nothing is said of the
\* devices: they need not send, and need not be finalized.
DFairness ==
    /\ WF_vars(SendStep) /\ WF_vars(DropPublisher) /\ WF_vars(RouterForward)
    /\ WF_vars(NetStep) /\ WF_vars(TimerFires) /\ WF_vars(EndDrop)

DSpec == DInit /\ [][DNext]_vars /\ DFairness

-----------------------------------------------------------------------------
\* What the callback gets it gets in the order of publication and never twice,
\* whatever the queues dropped in between.
CalledInOrder == \A i, j \in DOMAIN called : i < j => called[i].n < called[j].n

\* The hands of a thread as a queue.
One(p) == IF p = None THEN <<>> ELSE <<p>>

\* As long as both ends live, every payload is in exactly one of the queues,
\* in the hands of a thread, with the callback, counted as dropped by a full
\* channel, which loses the new payload, or lost to a put that failed: in the Unix
\* transport that is the end of the connection, and of all payloads from there on.
Conserved ==
    is_valid /\ generation = 0 /\ tx_valid =>
        sent = (dropped + failed + Len(tx)) + (ignored + Len(upstream) + Len(down["receiver"]))
                + (Len(rx) + Len(called)) + (Len(One(hand)) + Len(One(item)))

\* No payload is stranded in the subscription's channel: the timer is armed,
\* or the thread that queued it is about to kick it.  (A kick that comes before
\* the payload, or one that a running callback swallows, would strand it.)
NoStrandedPayload == rx # <<>> /\ main = "alive" => armed \/ net = "kick"

\* The device's callback is never called once its subscription is being
\* dropped or the device has a new generation, although payloads are queued
\* and a callback may be waiting for the big lock at that moment.
NoLateCallback == [][called' # called => main = "alive" /\ generation = 0]_vars

\* The drop of a subscription returns although the callback needs the big lock,
\* and that of the publisher although its thread may be waiting for payloads.
DropsReturn ==
    /\ main = "drain" ~> main = "freed"
    /\ Dropped ~> tx_thread = "exited"
=============================================================================
