----------------------------- MODULE MCDevices -----------------------------
(***************************************************************************)
(* The devices of a node, one at a time: Init picks the device that runs,  *)
(* and only that one moves.  The families of properties below say the same *)
(* of each.                                                                *)
(***************************************************************************)
EXTENDS FrameRx

CONSTANT Devices

VARIABLES
    device,
    \* UartRx
    chr, u_now, u_onway, u_chan, u_heap, u_backlog, backlog_size, dropped, baud_delay, u_rx_timer,
    rx_baud_timer, kick, fe, intime, got,
    \* TxThread
    t_kind, phase, items, fifo, t_timer, t_chan, thread, buffer, published, refused,
    \* Lpuart
    l_state, l_now, l_onway, stat, ctrl, baud, rx_buffer, tx_fifo, l_tx_timer, l_chan, l_heap,
    l_rx_timer, l_earliest, l_irq, written, l_sent, just_reset, stranded,
    \* Ieee802154
    radio, r_now, onair, inner, timers, r_irq, goes, aired, early, rxlog,
    \* FlexRay
    controller, x_now, x_onway, sub, x_chan, pending, x_rx_timer, rxcb, hdr, ram, wrds, wrhs3, cycle,
    cycle_timer, dangling, transfers, x_sent, came, taken,
    \* SystemCAdapter
    target, alive, kernel, woken, waker, updates, events, runnable, sc_now, client, io, req_queue,
    has_resp, sthread, sreq, sdue, rthread, rframe, rdue, rx_queue, rx_fifo, status, tx_queue, reg255,
    s_irq, unheard, missed, requests, answers, connections, s_came, handled, s_sent, s_published,
    \* Telemetry
    telemetry, last_halted, hook, trace_chan, tworker, traced, y_refused, halts,
    log_chan, dropped_logs, counting, logger, printed, failures, unsaid, logs,
    \* ClockSocket
    stream, authority, inflight, unsent, buf, reading, w_asked, w_got, replies, torn,
    \* SpiDevice
    p_state, cs, at, p_asked, sets, p_chan, peer, results,
    \* UiPanel
    q_state, led_id, btn_id, buttons, subs, q_onway, line, leds, presses, made, deaf

uv == <<chr, u_now, u_onway, u_chan, u_heap, u_backlog, backlog_size, dropped, baud_delay, u_rx_timer,
        rx_baud_timer, kick, fe, intime, got>>
tv == <<t_kind, phase, items, fifo, t_timer, t_chan, thread, buffer, published, refused>>
lv == <<l_state, l_now, l_onway, stat, ctrl, baud, rx_buffer, tx_fifo, l_tx_timer, l_chan, l_heap,
        l_rx_timer, l_earliest, l_irq, written, l_sent, just_reset, stranded>>
rv == <<radio, r_now, onair, inner, timers, r_irq, goes, aired, early, rxlog>>
xv == <<controller, x_now, x_onway, sub, x_chan, pending, x_rx_timer, rxcb, hdr, ram, wrds, wrhs3, cycle,
        cycle_timer, dangling, transfers, x_sent, came, taken>>
sv == <<target, alive, kernel, woken, waker, updates, events, runnable, sc_now, client, io, req_queue,
        has_resp, sthread, sreq, sdue, rthread, rframe, rdue, rx_queue, rx_fifo, status, tx_queue, reg255,
        s_irq, unheard, missed, requests, answers, connections, s_came, handled, s_sent, s_published>>

yv == <<telemetry, last_halted, hook, trace_chan, tworker, traced, y_refused, halts,
        log_chan, dropped_logs, counting, logger, printed, failures, unsaid, logs>>
wv == <<stream, authority, inflight, unsent, buf, reading, w_asked, w_got, replies, torn>>
pv == <<p_state, cs, at, p_asked, sets, p_chan, peer, results>>
qv == <<q_state, led_id, btn_id, buttons, subs, q_onway, line, leds, presses, made, deaf>>

MCFrames == {[v |-> 1, s |-> 0], [v |-> 2, s |-> 1], [v |-> 3, s |-> 0], [v |-> 3, s |-> 1]}

U == INSTANCE UartRx WITH
    Packets <- {[v |-> 0, s |-> 0, n |-> 1], [v |-> 1, s |-> 2, n |-> 2],
                [v |-> 2, s |-> 1, n |-> 1], [v |-> 2, s |-> 3, n |-> 1]},
    MaxTime <- 3, MaxBacklog <- 4, ChanSize <- 2, BaudDelays <- {0, 1}, Burst <- 2, AcceptBurst <- 1, Room <- 1,
    now <- u_now, onway <- u_onway, chan <- u_chan, heap <- u_heap, backlog <- u_backlog,
    rx_timer <- u_rx_timer

T == INSTANCE TxThread WITH
    TxKinds <- {"chardev", "netdev", "actuator", "canfd"},
    MaxWrites <- 4, FifoSize <- 2, ChanSize <- 1,
    kind <- t_kind, tx_timer <- t_timer, chan <- t_chan

L == INSTANCE Lpuart WITH
    LinFrames <- {[v |-> 1, type |-> "Data", n |-> 2], [v |-> 2, type |-> "Break", n |-> 0]},
    MaxTime <- 2, MaxWrites <- 2, TxFifo <- 2, RxFifo <- 1,
    rust_state <- l_state, now <- l_now, onway <- l_onway, tx_timer <- l_tx_timer, chan <- l_chan,
    heap <- l_heap, rx_timer <- l_rx_timer, earliest <- l_earliest, irq <- l_irq, sent <- l_sent

R == INSTANCE Ieee802154 WITH
    RfFrames <- {[v |-> 1, s |-> 0, dest |-> "a", ack |-> TRUE],
                 [v |-> 2, s |-> 1, dest |-> "all", ack |-> FALSE],
                 [v |-> 2, s |-> 2, dest |-> "all", ack |-> FALSE]},
    Addrs <- {"a"}, MaxTime <- 2, MaxGo <- 1, MaxBackoffs <- 1, MaxDelay <- 1, QueueSize <- 2,
    now <- r_now, irq <- r_irq

X == INSTANCE FlexRay WITH
    FlexFrames <- {[v |-> 2, id |-> 1, w |-> 1], [v |-> 1, id |-> 1, w |-> 2],
                   [v |-> 3, id |-> 2, w |-> 3]},
    Slots <- {0, 1}, Ids <- {1}, Span <- 2, FlexChan <- 1, MaxTime <- 3, Cycle <- 1,
    MaxTransfers <- 1,
    now <- x_now, onway <- x_onway, chan <- x_chan, rx_timer <- x_rx_timer, sent <- x_sent

S == INSTANCE SystemCAdapter WITH
    CanFrames <- {[v |-> 2, s |-> 1], [v |-> 1, s |-> 2], [v |-> 2, s |-> 3]},
    Accesses <- [can |-> {[op |-> "pop", t |-> 2], [op |-> "send", t |-> 0]},
                 regs |-> {[op |-> "set", t |-> 1], [op |-> "clear", t |-> 0], [op |-> "other", t |-> 0]}],
    FifoSize <- 2, MaxTraffic <- [can |-> 2, regs |-> 3],
    irq <- s_irq, came <- s_came, sent <- s_sent, published <- s_published

Y == INSTANCE Telemetry WITH
    Cpus <- {"c0", "c1"}, TraceChan <- 1, LogChan <- 1, MaxHalts <- 6, MaxLogs <- 8,
    refused <- y_refused

W == INSTANCE ClockSocket WITH Pieces <- 3, MaxAdvances <- 5, asked <- w_asked, got <- w_got

P == INSTANCE SpiDevice WITH
    Vcpus <- {"c0", "c1"}, MaxTransfers <- 2, MaxSelects <- 2,
    rust_state <- p_state, asked <- p_asked, chan <- p_chan

Q == INSTANCE UiPanel WITH
    Buttons <- {0, 1}, MaxPresses <- 3, MaxLeds <- 1, rust_state <- q_state, onway <- q_onway

DInit ==
    /\ device \in Devices
    /\ FInit /\ U!UInit /\ T!TInit /\ L!LInit /\ R!RInit /\ X!XInit /\ S!SCInit
    /\ Y!YInit /\ W!WInit /\ P!PInit /\ Q!QInit
    /\ device # "frames" => kind = "netdev"
    /\ device # "uart" => baud_delay = 0
    /\ device # "tx" => t_kind = "netdev"
    /\ device # "systemc" => target = "can"

DNext ==
    \/ device = "frames" /\ FNext /\ UNCHANGED <<device, uv, tv, lv, rv, xv, sv, yv, wv, pv, qv>>
    \/ device = "uart" /\ U!UNext /\ UNCHANGED <<device, fvars, tv, lv, rv, xv, sv, yv, wv, pv, qv>>
    \/ device = "tx" /\ T!TNext /\ UNCHANGED <<device, fvars, uv, lv, rv, xv, sv, yv, wv, pv, qv>>
    \/ device = "lpuart" /\ L!LNext /\ UNCHANGED <<device, fvars, uv, tv, rv, xv, sv, yv, wv, pv, qv>>
    \/ device = "radio" /\ R!RNext /\ UNCHANGED <<device, fvars, uv, tv, lv, xv, sv, yv, wv, pv, qv>>
    \/ device = "flexray" /\ X!XNext /\ UNCHANGED <<device, fvars, uv, tv, lv, rv, sv, yv, wv, pv, qv>>
    \/ device = "systemc" /\ S!SCNext /\ UNCHANGED <<device, fvars, uv, tv, lv, rv, xv, yv, wv, pv, qv>>
    \/ device = "trace" /\ Y!TraceNext /\ UNCHANGED <<device, fvars, uv, tv, lv, rv, xv, sv, wv, pv, qv>>
    \/ device = "log" /\ Y!LogNext /\ UNCHANGED <<device, fvars, uv, tv, lv, rv, xv, sv, wv, pv, qv>>
    \/ device = "clock" /\ W!WNext /\ UNCHANGED <<device, fvars, uv, tv, lv, rv, xv, sv, yv, pv, qv>>
    \/ device = "spi" /\ P!PNext /\ UNCHANGED <<device, fvars, uv, tv, lv, rv, xv, sv, yv, wv, qv>>
    \/ device = "ui" /\ Q!QNext /\ UNCHANGED <<device, fvars, uv, tv, lv, rv, xv, sv, yv, wv, pv>>

-----------------------------------------------------------------------------
\* Traffic comes through a device in order, and nothing twice.  What arrived
\* before its time reaches the guest by time and sequence number (netdev, CAN,
\* UART, radio) or in the order of arrival, but not before its time (FlexRay and
\* the CAN controller of the SystemC adapter, where a frame may have to wait for
\* one that came first and is due later).  What the guest sends leaves in the
\* order it was written.  Requests to the clock come whole, unless the read of one
\* timed out half-way (torn).
InOrder ==
    CASE device = "frames" -> OnTimeInOrder
      [] device = "uart" -> U!BytesInOrder
      [] device = "tx" -> T!PipelineInOrder
      [] device = "radio" -> R!ReceivedInOrder /\ R!AiredInSequence
      [] device = "flexray" -> X!TakenInOrder
      [] device = "systemc" -> S!ServedInOrder
      [] device = "trace" -> Y!TraceAlternates
      [] device = "clock" -> W!RequestsWhole
      [] device = "spi" -> P!TransfersMatched
      [] OTHER -> TRUE

\* The counters of admission control are exact: of the frames in netdev, and of
\* the bytes that wait for their time in the character device, where moreover no
\* packet is lost uncounted.  Lost log messages are counted once each, though a
\* warning that is itself lost takes the number it carries with it (unsaid).
CountersExact ==
    /\ device = "frames" => CountExact
    /\ device = "uart" => U!SizeExact
    /\ device = "log" => Y!DropsAccounted

\* Whatever waits in a device has a timer, a kick or a thread that will move it.
NothingForgotten ==
    CASE device = "frames" -> NoFrameForgotten
      [] device = "uart" -> U!NoByteForgotten
      [] device = "tx" -> T!NothingStuck
      [] device = "lpuart" -> L!NothingForgotten
      [] device = "radio" -> R!NothingForgotten
      [] device = "flexray" -> X!NothingForgotten
      [] device = "systemc" -> S!NothingForgotten
      [] OTHER -> TRUE

\* The guest is told: an enabled flag of the LPUART, or a frame in the FIFO of the
\* radio or of the SystemC adapter, holds the interrupt line up, the flags agree
\* with the FIFOs, and the line of a button follows it.  Exceptions: LBKDIE and the
\* time from a reset of the LPUART to its next byte, interrupts of the SystemC
\* adapter while no QEMU has shaken hands, and buttons whose subscription failed.
InterruptsFollow ==
    /\ device = "lpuart" => L!InterruptFollowsFlags
    /\ device = "radio" => R!ReceiveInterrupt
    /\ device = "systemc" => S!InterruptFollows
    /\ device = "ui" => Q!LinesFollow
=============================================================================
