------------------------------ MODULE TxThread ------------------------------
(***************************************************************************)
(* The transmit path of the devices that publish from a thread of their    *)
(* own: the character device (chardev, with a FIFO and a baud timer before *)
(* the channel and a collecting buffer behind it), the network backend     *)
(* (netdev), the actuator and the CAN host (canfd).  A guest access runs   *)
(* with the big lock and the state lock for a moment; the thread looks at  *)
(* running under the state lock, then waits for the channel; the teardown  *)
(* clears running, takes the state lock to wait for vCPUs and joins the    *)
(* thread.                                                                 *)
(***************************************************************************)
EXTENDS Integers, Sequences, FiniteSets, FiniteSetsExt, SequencesExt

CONSTANTS
    TxKinds,    \* devices to look at, of {"chardev", "netdev", "actuator", "canfd"}
    MaxWrites,  \* bound: items the guest sends
    FifoSize,   \* MAX_FIFO_SIZE of chardev
    ChanSize    \* capacity of the bounded channel

VARIABLES
    kind,
    phase,      \* "open", "stopping" (running is FALSE), "join" (holds the state lock), "closed"
    items,      \* items the guest has sent: they are 1 .. items
    fifo, tx_timer, \* chardev: tx_fifo, and whether its timer is armed
    chan,       \* the channel
    thread,     \* "check", "recv", "exited"
    buffer,     \* chardev: bytes collected in the thread
    published,  \* history: the messages published, each a sequence of items
    refused     \* history: items dropped because a queue was full

tvars == <<kind, phase, items, fifo, tx_timer, chan, thread, buffer, published, refused>>

TInit ==
    /\ kind \in TxKinds
    /\ phase = "open" /\ items = 0 /\ fifo = <<>> /\ tx_timer = FALSE
    /\ chan = <<>> /\ thread = IF kind = "canfd" THEN "recv" ELSE "check"
    /\ buffer = <<>> /\ published = <<>> /\ refused = {}

-----------------------------------------------------------------------------
\* Plausible slips, used to test the properties.

\* The buffer is not cleared after it has been sent.
FlushKeeping(b) == published' = Append(published, b) /\ buffer' = b

\* The timer is started by a write only.
RearmNever == tx_timer' = FALSE

\* The thread stops as soon as running is FALSE, with packets in the channel.
MayStopAtOnce == TRUE

-----------------------------------------------------------------------------
\* try_send to the bounded channel; canfd has an unbounded one.
TrySend(x) ==
    IF kind = "canfd" \/ Len(chan) < ChanSize
    THEN chan' = Append(chan, x) /\ UNCHANGED refused
    ELSE refused' = refused \cup {x} /\ UNCHANGED chan

\* virtmcu_chr_write: all of it fits into the FIFO or none of it does.
ChrWrite(n) ==
    /\ kind = "chardev" /\ phase = "open" /\ items + n <= MaxWrites
    /\ items' = items + n
    /\ LET new == [i \in 1 .. n |-> items + i]
       IN  IF Len(fifo) + n <= FifoSize
           THEN fifo' = fifo \o new /\ UNCHANGED refused
           ELSE refused' = refused \cup ToSet(new) /\ UNCHANGED fifo
    /\ tx_timer' = (tx_timer \/ fifo = <<>>)
    /\ UNCHANGED <<kind, phase, chan, thread, buffer, published>>

\* virtmcu_chr_tx_timer_cb.
Rearm == tx_timer' = (Len(fifo) > 1)
ChrTxTimer ==
    /\ kind = "chardev" /\ phase = "open" /\ tx_timer
    /\ IF fifo = <<>> THEN UNCHANGED <<fifo, chan, refused>>
       ELSE fifo' = Tail(fifo) /\ TrySend(Head(fifo))
    /\ Rearm
    /\ UNCHANGED <<kind, phase, items, thread, buffer, published>>

\* netdev_receive_internal; virtmcu_can_receive_frames.
NetReceive ==
    /\ kind = "netdev" /\ phase = "open" /\ items < MaxWrites
    /\ items' = items + 1 /\ TrySend(items + 1)
    /\ UNCHANGED <<kind, phase, fifo, tx_timer, thread, buffer, published>>
CanReceiveFrames ==
    /\ kind = "canfd" /\ phase = "open" /\ items < MaxWrites
    /\ items' = items + 1 /\ TrySend(items + 1)
    /\ UNCHANGED <<kind, phase, fifo, tx_timer, thread, buffer, published>>

\* actuator_write of GO, with actuator_publish; an item stands for what the
\* registers hold.
ActuatorPublish == TrySend(items + 1)
Go ==
    /\ kind = "actuator" /\ phase = "open" /\ items < MaxWrites
    /\ items' = items + 1 /\ ActuatorPublish
    /\ UNCHANGED <<kind, phase, fifo, tx_timer, thread, buffer, published>>

\* start_tx_thread.  The look at running needs the state lock.
MayStop == chan = <<>>
Check ==
    /\ thread = "check" /\ phase # "join"
    /\ thread' = IF phase # "open" /\ MayStop THEN "exited" ELSE "recv"
    /\ UNCHANGED <<kind, phase, items, fifo, tx_timer, chan, buffer, published, refused>>

\* The messages of netdev, actuator and canfd; canfd has no look at running.
Recv ==
    /\ thread = "recv" /\ kind # "chardev" /\ chan # <<>>
    /\ chan' = Tail(chan) /\ published' = Append(published, <<Head(chan)>>)
    /\ thread' = IF kind = "canfd" THEN "recv" ELSE "check"
    /\ UNCHANGED <<kind, phase, items, fifo, tx_timer, buffer, refused>>

\* chardev collects bytes, and sends them when the last message is 20 ms old.
Flush(b) == published' = Append(published, b) /\ buffer' = <<>>
Collect ==
    /\ thread = "recv" /\ kind = "chardev" /\ chan # <<>>
    /\ chan' = Tail(chan)
    /\ LET b == Append(buffer, Head(chan))
       IN  Flush(b) \/ (buffer' = b /\ UNCHANGED published)
    /\ thread' = "check"
    /\ UNCHANGED <<kind, phase, items, fifo, tx_timer, refused>>

\* recv_timeout: nothing for 10 ms; chardev sends what it has.
RecvTimeout ==
    /\ thread = "recv" /\ kind # "canfd" /\ chan = <<>>
    /\ IF buffer # <<>> THEN Flush(buffer) ELSE UNCHANGED <<buffer, published>>
    /\ thread' = "check"
    /\ UNCHANGED <<kind, phase, items, fifo, tx_timer, chan, refused>>

\* virtmcu_chr_finalize, netdev_cleanup, Drop for VirtmcuActuatorState: running is
\* cleared, subscription and timers go.
Stop ==
    /\ phase = "open" /\ kind # "canfd"
    /\ phase' = "stopping"
    /\ UNCHANGED <<kind, items, fifo, tx_timer, chan, thread, buffer, published, refused>>

\* The state lock is taken and kept; no vCPU is counted, since a guest access
\* does not give up the big lock.
Drain ==
    /\ phase = "stopping"
    /\ phase' = "join" /\ fifo' = <<>> /\ tx_timer' = FALSE
    /\ UNCHANGED <<kind, items, chan, thread, buffer, published, refused>>
Join ==
    /\ phase = "join" /\ thread = "exited"
    /\ phase' = "closed"
    /\ UNCHANGED <<kind, items, fifo, tx_timer, chan, thread, buffer, published, refused>>

\* virtmcu_can_host_disconnect drops the sender; the thread ends when the channel
\* is empty, and nobody waits for it.
CanDisconnect ==
    /\ kind = "canfd" /\ phase = "open"
    /\ phase' = "closed"
    /\ UNCHANGED <<kind, items, fifo, tx_timer, chan, thread, buffer, published, refused>>
CanDisconnected ==
    /\ kind = "canfd" /\ phase = "closed" /\ thread = "recv" /\ chan = <<>>
    /\ thread' = "exited"
    /\ UNCHANGED <<kind, phase, items, fifo, tx_timer, chan, buffer, published, refused>>

ThreadStep == Check \/ Recv \/ Collect \/ RecvTimeout \/ CanDisconnected
Teardown == Drain \/ Join
TNext ==
    \/ \E n \in 1 .. 2 : ChrWrite(n)
    \/ ChrTxTimer \/ NetReceive \/ CanReceiveFrames \/ Go
    \/ ThreadStep \/ Stop \/ Teardown \/ CanDisconnect

TSpec == TInit /\ [][TNext]_tvars /\ WF_tvars(ThreadStep) /\ WF_tvars(Teardown)

-----------------------------------------------------------------------------
\* Up to the teardown the stages of the path hold what the guest sent, each item
\* once and in order, except those refused by a full queue: no stage repeats,
\* loses or reorders, with the thread anywhere between its two waits.
PipelineInOrder ==
    LET all == FlattenSeq(published) \o buffer \o chan \o fifo
    IN  /\ \A i, j \in DOMAIN all : i < j => all[i] < all[j]
        /\ phase = "open" => ToSet(all) \cup refused = 1 .. items
        /\ refused \cap ToSet(all) = {}

\* A byte in the FIFO has the timer that moves it on; a thread that is gone has
\* left no packet in the channel.  (Bytes that the thread of chardev has collected
\* and not sent are lost when it stops.)
NothingStuck ==
    /\ phase = "open" /\ fifo # <<>> => tx_timer
    /\ thread = "exited" => chan = <<>>

\* The teardown returns.
CloseReturns == phase = "stopping" ~> phase = "closed"
=============================================================================
