----------------------------- MODULE Ieee802154 -----------------------------
(***************************************************************************)
(* The 802.15.4 radio: the registers of the guest, transmission with       *)
(* carrier sense and backoff, received frames in a sorted queue until      *)
(* their time, automatic acknowledgements.  Register accesses, the         *)
(* callback of the subscription and the four timers run with the big lock, *)
(* in any order that the virtual clock allows.                             *)
(***************************************************************************)
EXTENDS Integers, Sequences, FiniteSets, FiniteSetsExt, SequencesExt

CONSTANTS
    RfFrames,    \* frames on the air: [v |-> time, s |-> sequence, dest |-> address, ack |-> asks for one]
    Addrs,       \* addresses the guest may set; "all" is the broadcast address
    MaxTime,     \* bound of the virtual clock
    MaxGo,       \* bound: transmissions the guest starts
    MaxBackoffs, \* MAC_MAX_CSMA_BACKOFFS (4 in the code)
    MaxDelay,    \* longest backoff, in ticks (deterministic_random picks one)
    QueueSize    \* capacity of rx_queue (16 in the code)

VARIABLES
    radio,   \* "null", "up", "gone"
    now, onair,
    inner,   \* the fields of Virtmcu802154Inner; status is a set of bits
    timers,  \* deadlines of rx_timer, backoff_timer, ack_timer, tx_timer
    irq,
    goes,    \* transmissions started so far
    aired,   \* history: what was published
    early,   \* history: frames that were queued before their time
    rxlog    \* history: frames given to the guest

rvars == <<radio, now, onair, inner, timers, irq, goes, aired, early, rxlog>>

Never == MaxTime + MaxDelay + 2 \* later than any deadline
NoTimers == [rx |-> Never, backoff |-> Never, ack |-> Never, tx |-> Never]
Idle == [state |-> "Idle", status |-> {}, tx_len |-> 0, rx_left |-> 0, queue |-> <<>>, nb |-> 0,
         ack_pending |-> FALSE, ack_seq |-> 0, tx_sequence |-> 0, addr |-> "all"]

RInit ==
    /\ radio = "null" /\ now = 0 /\ onair = RfFrames
    /\ inner = Idle /\ timers = NoTimers /\ irq = FALSE
    /\ goes = 0 /\ aired = <<>> /\ early = {} /\ rxlog = <<>>

-----------------------------------------------------------------------------
\* Plausible slips, used to test the properties.

\* The channel is found busy for the last time and nobody ends the transmission.
GiveUpSilently == UNCHANGED <<inner, irq>> /\ timers' = [timers EXCEPT !.backoff = Never]

\* Frames of one time are queued in the order of arrival reversed.
FrameBeforeByTime(f, g) == f.v < g.v \/ (f.v = g.v /\ f.s > g.s)

\* The timer is not set for the frame behind the one that is handed over.
NextTimerNone(q) == Never

-----------------------------------------------------------------------------
FrameBefore(f, g) == f.v < g.v \/ (f.v = g.v /\ f.s < g.s)

\* ieee802154_realize with ieee802154_init_internal; ieee802154_instance_finalize.
Realize ==
    /\ radio = "null" /\ radio' \in {"up", "gone"}
    /\ UNCHANGED <<now, onair, inner, timers, irq, goes, aired, early, rxlog>>
Finalize ==
    /\ radio = "up" /\ radio' = "gone"
    /\ timers' = NoTimers /\ inner' = Idle
    /\ UNCHANGED <<now, onair, irq, goes, aired, early, rxlog>>

\* ieee802154_reset: the interrupt line and the addresses are left alone.
Reset ==
    /\ radio = "up"
    /\ inner' = [Idle EXCEPT !.addr = inner.addr, !.tx_sequence = inner.tx_sequence,
                             !.ack_seq = inner.ack_seq]
    /\ timers' = NoTimers
    /\ UNCHANGED <<radio, now, onair, irq, goes, aired, early, rxlog>>

\* ieee802154_read_internal of the receive FIFO.
ReadFifo ==
    /\ radio = "up" /\ "RX" \in inner.status /\ inner.rx_left > 0
    /\ inner' = [inner EXCEPT !.rx_left = @ - 1]
    /\ UNCHANGED <<radio, now, onair, timers, irq, goes, aired, early, rxlog>>

\* ieee802154_write_internal: the transmit FIFO, its length, the addresses, and
\* the state of the radio, which does not stop a transmission that is going on.
WriteFifo(n) ==
    /\ radio = "up" /\ inner' = [inner EXCEPT !.tx_len = n]
    /\ UNCHANGED <<radio, now, onair, timers, irq, goes, aired, early, rxlog>>
WriteAddress(a) ==
    /\ radio = "up" /\ inner' = [inner EXCEPT !.addr = a]
    /\ UNCHANGED <<radio, now, onair, timers, irq, goes, aired, early, rxlog>>
WriteState(s) ==
    /\ radio = "up" /\ inner' = [inner EXCEPT !.state = s]
    /\ UNCHANGED <<radio, now, onair, timers, irq, goes, aired, early, rxlog>>

\* tx_go, from the GO register or the state register; schedule_backoff.
ScheduleBackoff == \E d \in 0 .. MaxDelay : timers' = [timers EXCEPT !.backoff = now + d]
TxGo ==
    /\ radio = "up" /\ inner.state # "Tx" /\ goes < MaxGo
    /\ inner' = [inner EXCEPT !.state = "Tx", !.nb = 0]
    /\ ScheduleBackoff
    /\ goes' = goes + 1
    /\ UNCHANGED <<radio, now, onair, irq, aired, early, rxlog>>

\* backoff_timer_cb and tx_timer_cb: the transmission is over, sent or given up.
TxOver(t) ==
    /\ inner' = [inner EXCEPT !.tx_len = 0, !.state = "Idle", !.status = @ \cup {"TX"}]
    /\ irq' = TRUE
    /\ timers' = [timers EXCEPT ![t] = Never]
GiveUp == TxOver("backoff")
Publish(what) == aired' = Append(aired, [s |-> inner.tx_sequence, what |-> what])
TxReal ==
    /\ Publish("frame")
    /\ inner' = [inner EXCEPT !.tx_sequence = @ + 1]
    /\ timers' = [timers EXCEPT !.backoff = Never, !.tx = now + 1]
    /\ UNCHANGED irq
Busy == inner.queue # <<>> /\ Head(inner.queue).v <= now
BackoffTimer ==
    /\ radio = "up" /\ timers.backoff <= now
    /\ \/ /\ Busy /\ inner.nb = MaxBackoffs
          /\ GiveUp /\ UNCHANGED aired
       \/ /\ Busy /\ inner.nb < MaxBackoffs
          /\ inner' = [inner EXCEPT !.nb = @ + 1]
          /\ ScheduleBackoff /\ UNCHANGED <<irq, aired>>
       \/ ~Busy /\ TxReal
    /\ UNCHANGED <<radio, now, onair, goes, early, rxlog>>
TxTimer ==
    /\ radio = "up" /\ timers.tx <= now
    /\ TxOver("tx")
    /\ UNCHANGED <<radio, now, onair, goes, aired, early, rxlog>>

\* ack_timer_cb.
AckTimer ==
    /\ radio = "up" /\ timers.ack <= now
    /\ timers' = [timers EXCEPT !.ack = Never]
    /\ IF inner.ack_pending
       THEN /\ Publish("ack")
            /\ inner' = [inner EXCEPT !.ack_pending = FALSE, !.tx_sequence = @ + 1]
       ELSE UNCHANGED <<inner, aired>>
    /\ UNCHANGED <<radio, now, onair, irq, goes, early, rxlog>>

\* frame_matches_address.
Matches(f) == f.dest \in {"all", inner.addr}

\* on_rx_frame: only a radio that receives hears the frame; the acknowledgement
\* is arranged before the queue is found to be full.
OnRxFrame(f) ==
    /\ radio = "up" /\ f \in onair
    /\ onair' = onair \ {f}
    /\ IF inner.state = "Rx" /\ Matches(f)
       THEN LET room == Len(inner.queue) < QueueSize
                q == IF room THEN SetToSortSeq(ToSet(inner.queue) \cup {f}, FrameBefore) ELSE inner.queue
            IN  /\ inner' = [inner EXCEPT !.queue = q, !.ack_pending = @ \/ f.ack,
                                          !.ack_seq = IF f.ack THEN f.s ELSE @]
                /\ timers' = [timers EXCEPT !.ack = IF f.ack THEN f.v + 1 ELSE @,
                                            !.rx = IF room THEN Head(q).v ELSE @]
                /\ early' = IF room /\ f.v > now THEN early \cup {f} ELSE early
       ELSE UNCHANGED <<inner, timers, early>>
    /\ UNCHANGED <<radio, now, irq, goes, aired, rxlog>>

\* check_rx_queue, for a radio whose status is s, with t as the deadline of the
\* timer that is left when it does not set one.
NextTimer(q) == IF q = <<>> THEN Never ELSE Head(q).v
CheckRxQueue(s, line, t) ==
    LET q == inner.queue
        due == q # <<>> /\ Head(q).v <= now
    IN  IF due /\ "RX" \notin s
        THEN /\ inner' = [inner EXCEPT !.status = s \cup {"RX"}, !.queue = Tail(q), !.rx_left = 1]
             /\ irq' = TRUE
             /\ timers' = [timers EXCEPT !.rx = IF Tail(q) = <<>> THEN t ELSE NextTimer(Tail(q))]
             /\ rxlog' = Append(rxlog, Head(q))
        ELSE /\ inner' = [inner EXCEPT !.status = s]
             /\ irq' = line
             /\ timers' = [timers EXCEPT !.rx = IF q = <<>> \/ due THEN t ELSE NextTimer(q)]
             /\ UNCHANGED rxlog

\* rx_timer_cb.
RxTimer ==
    /\ radio = "up" /\ timers.rx <= now
    /\ CheckRxQueue(inner.status, irq, Never)
    /\ UNCHANGED <<radio, now, onair, goes, aired, early>>

\* ieee802154_write_internal of STATUS: bits written as one are cleared.  Without
\* the receive bit the line goes down, whatever the transmit bit says.
WriteStatus(bits) ==
    /\ radio = "up"
    /\ LET s == inner.status \ bits
       IN  IF "RX" \in s
           THEN inner' = [inner EXCEPT !.status = s] /\ UNCHANGED <<irq, timers, rxlog>>
           ELSE CheckRxQueue(s, FALSE, timers.rx)
    /\ UNCHANGED <<radio, now, onair, goes, aired, early>>

Tick ==
    /\ now < MaxTime /\ \A t \in DOMAIN timers : timers[t] > now
    /\ now' = now + 1
    /\ UNCHANGED <<radio, onair, inner, timers, irq, goes, aired, early, rxlog>>

RNext ==
    \/ Realize \/ Finalize \/ Reset \/ ReadFifo \/ TxGo \/ BackoffTimer \/ TxTimer \/ AckTimer
    \/ RxTimer \/ Tick
    \/ WriteFifo(1)
    \/ \E a \in Addrs : WriteAddress(a)
    \/ \E s \in {"Idle", "Rx"} : WriteState(s) \* Off behaves as Idle
    \/ \E f \in RfFrames : OnRxFrame(f)
    \/ \E bits \in {{"RX"}, {"TX"}} : WriteStatus(bits)

RSpec == RInit /\ [][RNext]_rvars

-----------------------------------------------------------------------------
\* A transmission always ends: in the state Tx, which TX_GO refuses to leave, a
\* timer is running that will leave it; and a frame in the queue has a timer or
\* waits for the guest to take the one before it.
NothingForgotten ==
    radio = "up" =>
        /\ inner.state = "Tx" => timers.backoff # Never \/ timers.tx # Never
        /\ inner.queue # <<>> => timers.rx # Never \/ "RX" \in inner.status
        /\ inner.ack_pending => timers.ack # Never

\* A received frame holds the interrupt line up until the guest clears it, even
\* when transmissions end and their bit is cleared in between.
ReceiveInterrupt == "RX" \in inner.status => irq

\* Frames that came before their time are received in the order of time and
\* sequence number, not early, and each once.
ReceivedInOrder ==
    \A i, j \in DOMAIN rxlog :
        i < j => /\ rxlog[i] # rxlog[j]
                 /\ {rxlog[i], rxlog[j]} \subseteq early =>
                        rxlog[i].v < rxlog[j].v \/ (rxlog[i].v = rxlog[j].v /\ rxlog[i].s < rxlog[j].s)

\* What the radio publishes, frames and acknowledgements of two timers, carries
\* the sequence numbers without a gap or a repetition.
AiredInSequence == \A i \in DOMAIN aired : aired[i].s = i - 1
=============================================================================
