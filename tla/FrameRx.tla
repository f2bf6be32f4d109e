------------------------------ MODULE FrameRx ------------------------------
(***************************************************************************)
(* The receive path of the network backend (netdev) and of the CAN host    *)
(* (canfd): a subscription callback puts frames into a channel and arms a  *)
(* timer of the virtual clock, the timer sorts them in a heap and hands    *)
(* those that are due to the guest.  Callback and timer run with the big   *)
(* lock, so each is one step.  The virtual clock does not pass the deadline *)
(* of an armed timer.                                                      *)
(***************************************************************************)
EXTENDS Integers, Sequences, FiniteSets

CONSTANTS
    Kinds,      \* devices to look at, of {"netdev", "canfd"}
    Frames,     \* frames other nodes send: records [v |-> delivery time, s |-> sequence]
    MaxTime,    \* bound of the virtual clock
    MaxBacklog  \* max_backlog of the netdev

ASSUME FrameAssumption ==
    /\ Kinds \subseteq {"netdev", "canfd"}
    /\ MaxTime \in Nat /\ MaxBacklog \in Nat
    /\ IsFiniteSet(Frames) /\ Frames \subseteq [v : 0 .. MaxTime, s : Nat]

VARIABLES
    kind,          \* which device
    rust_state,    \* "null", "up", "gone"
    vnow,          \* the virtual clock
    onway,         \* frames that have not arrived
    chan, heap,    \* rx_receiver and local_heap
    backlog,       \* frames the guest would not take
    backlog_count, dropped_frames,
    earliest,      \* earliest_vtime
    timer,         \* deadline of rx_timer
    crashed,       \* a BqlGuarded has been borrowed twice
    arrived,       \* history: arrived[f] is when f was put into the channel
    out            \* history: what the guest got, and when

fvars == <<kind, rust_state, vnow, onway, chan, heap, backlog, backlog_count, dropped_frames,
           earliest, timer, crashed, arrived, out>>

Never == MaxTime + 1

FInit ==
    /\ kind \in Kinds
    /\ rust_state = "null" /\ vnow = 0 /\ onway = Frames
    /\ chan = {} /\ heap = {} /\ backlog = <<>>
    /\ backlog_count = 0 /\ dropped_frames = 0
    /\ earliest = Never /\ timer = Never /\ crashed = FALSE
    /\ arrived = [f \in Frames |-> Never] /\ out = <<>>

-----------------------------------------------------------------------------
\* Plausible slips, used to test the properties.

\* The frame of a tie that was pushed last comes first.
EarlierByTime(f, g) == f.v < g.v \/ (f.v = g.v /\ f.s > g.s)

\* A frame that goes to the guest stays in the count.
NetdevCountsForever(n) == 0

\* earliest_vtime survives although nothing is waiting any more.
EarliestForgotten(rest) == earliest

\* The device is busy as long as frames wait.
CanReceiveWhenIdle == heap = {}

-----------------------------------------------------------------------------
\* The order of the heap: OrderedCanFrame of canfd, OrderedPacket of netdev.
Earlier(f, g) == f.v < g.v \/ (f.v = g.v /\ f.s < g.s)

\* What pops out of the heap, in order.
Position(S, f) == Cardinality({g \in S : Earlier(g, f)}) + 1
Popped(S) == [k \in 1 .. Cardinality(S) |-> CHOOSE f \in S : Position(S, f) = k]

\* virtmcu_can_host_connect, netdev_hook with netdev_init_internal: without a
\* transport the device stays without a state, and what arrives is lost.
Appear ==
    /\ rust_state = "null"
    /\ rust_state' \in {"up", "gone"}
    /\ UNCHANGED <<kind, vnow, onway, chan, heap, backlog, backlog_count, dropped_frames, earliest,
                   timer, crashed, arrived, out>>
NetdevInit == kind = "netdev" /\ Appear
CanHostConnect == kind = "canfd" /\ Appear

\* virtmcu_can_host_disconnect, netdev_cleanup: the subscription, then the timer.
Vanish ==
    /\ rust_state = "up"
    /\ rust_state' = "gone"
    /\ chan' = {} /\ heap' = {} /\ backlog' = <<>> /\ timer' = Never /\ backlog_count' = 0
    /\ UNCHANGED <<kind, vnow, onway, dropped_frames, earliest, crashed, arrived, out>>
NetdevCleanup == kind = "netdev" /\ Vanish
CanHostDisconnect == kind = "canfd" /\ Vanish

\* Both callbacks end with this: the timer is moved to an earlier frame.
ArmFor(f) ==
    /\ earliest' = IF f.v < earliest THEN f.v ELSE earliest
    /\ timer' = IF f.v < earliest THEN f.v ELSE timer

Accept(f) ==
    /\ chan' = chan \cup {f}
    /\ arrived' = [arrived EXCEPT ![f] = vnow]
    /\ ArmFor(f)
    /\ UNCHANGED dropped_frames

\* The callback of canfd.
OnCanFrame(f) ==
    /\ rust_state = "up" /\ kind = "canfd" /\ f \in onway
    /\ onway' = onway \ {f}
    /\ Accept(f)
    /\ UNCHANGED <<kind, rust_state, vnow, heap, backlog, backlog_count, crashed, out>>

\* The callback of netdev, which admits max_backlog frames.
OnPacket(f) ==
    /\ rust_state = "up" /\ kind = "netdev" /\ f \in onway
    /\ onway' = onway \ {f}
    /\ IF backlog_count >= MaxBacklog
       THEN /\ dropped_frames' = dropped_frames + 1
            /\ UNCHANGED <<chan, arrived, earliest, timer, backlog_count>>
       ELSE Accept(f) /\ backlog_count' = backlog_count + 1
    /\ UNCHANGED <<kind, rust_state, vnow, heap, backlog, crashed, out>>

\* virtmcu_can_receive, netdev_can_receive: the device asks itself.
CanReceive == backlog = <<>>

\* Frames handed to the guest leave the count of netdev.
Uncount(n) == IF kind = "netdev" THEN n ELSE 0

\* The time of the frame at the head of the heap.
Soonest(rest) == CHOOSE t \in {f.v : f \in rest} : \A f \in rest : t <= f.v

EarliestAfter(rest) == IF rest = {} THEN Never ELSE earliest

\* rx_timer_cb hands over what is due, in order, and arms the timer for the next.
HandOver ==
    LET all  == heap \cup chan
        due  == {f \in all : f.v <= vnow}
        rest == all \ due
    IN  /\ chan' = {}
        /\ IF due = {} \/ CanReceive
           THEN /\ out' = out \o [i \in 1 .. Cardinality(due) |->
                                     [f |-> Popped(due)[i], at |-> vnow]]
                /\ heap' = rest
                /\ backlog_count' = backlog_count - Uncount(Cardinality(due))
                /\ timer' = IF rest = {} THEN Never ELSE Soonest(rest)
                /\ earliest' = EarliestAfter(rest)
                /\ UNCHANGED backlog
           ELSE LET f == Popped(due)[1]
                IN  /\ backlog' = Append(backlog, f)
                    /\ heap' = all \ {f}
                    /\ timer' = Never
                    /\ earliest' = EarliestAfter(all \ {f})
                    /\ UNCHANGED <<out, backlog_count>>

\* drain_can_backlog and drain_net_backlog hold the backlog while they ask
\* CanReceive, which borrows it once more: with a frame in it that is the panic
\* of BqlGuarded.
DrainPanics == backlog # <<>>

\* rx_timer_cb.
RxTimer ==
    /\ rust_state = "up" /\ timer <= vnow
    /\ IF DrainPanics
       THEN crashed' = TRUE /\ UNCHANGED <<chan, heap, backlog, backlog_count, timer, earliest, out>>
       ELSE HandOver /\ UNCHANGED crashed
    /\ UNCHANGED <<kind, rust_state, vnow, onway, dropped_frames, arrived>>

\* The virtual clock.
Tick ==
    /\ vnow < MaxTime /\ timer > vnow
    /\ vnow' = vnow + 1
    /\ UNCHANGED <<kind, rust_state, onway, chan, heap, backlog, backlog_count, dropped_frames,
                   earliest, timer, crashed, arrived, out>>

FNext ==
    \/ NetdevInit \/ CanHostConnect \/ NetdevCleanup \/ CanHostDisconnect \/ RxTimer \/ Tick
    \/ \E f \in Frames : OnCanFrame(f) \/ OnPacket(f)

FSpec == FInit /\ [][FNext]_fvars

-----------------------------------------------------------------------------
\* Frames that arrive before their time reach the guest in the order of time
\* and sequence number, in whatever order the network brought them, and none
\* of them early: the order of two of them is that of the heap although
\* several callbacks of the timer may lie between their arrivals.
OnTimeInOrder ==
    /\ \A i \in DOMAIN out : out[i].at >= out[i].f.v
    /\ \A i, j \in DOMAIN out :
           /\ i < j
           /\ \A k \in {i, j} : arrived[out[k].f] < out[k].f.v
           => \/ out[i].f.v < out[j].f.v
              \/ out[i].f.v = out[j].f.v /\ out[i].f.s < out[j].f.s

\* The admission control of netdev counts what waits, exactly: a frame counted
\* once too often would in time shut the receive path.
CountExact ==
    kind = "netdev" /\ rust_state = "up" =>
        /\ backlog_count = Cardinality(chan) + Cardinality(heap) + Len(backlog)
        /\ backlog_count <= MaxBacklog

\* Whatever waits has a timer: no frame depends on the arrival of another one.
\* The timer is not later than any frame of the heap, and when the heap is empty
\* not later than any frame of the channel.  (earliest_vtime may be stale while
\* frames are in the heap: a new frame that is due before them then waits for the
\* first of them.)
NoFrameForgotten ==
    /\ chan \cup heap # {} => timer # Never
    /\ \A f \in heap : timer <= f.v
    /\ heap = {} => \A f \in chan : timer <= f.v

\* The backlog is never used, so that the second borrow in drain_can_backlog and
\* drain_net_backlog never happens.
NoSecondBorrow == backlog = <<>> /\ ~crashed
=============================================================================
