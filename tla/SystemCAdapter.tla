--------------------------- MODULE SystemCAdapter ---------------------------
(***************************************************************************)
(* The SystemC adapter (tools/systemc_adapter/main.cpp): the kernel thread *)
(* runs SystemC processes and sleeps on a condition variable when there is *)
(* nothing to do; the I/O thread serves QEMU, one request at a time; a     *)
(* thread of Zenoh brings CAN frames and another one publishes them.  The  *)
(* threads wake the kernel with wake(), which does not take the mutex.     *)
(*                                                                         *)
(* SystemC's scheduler is external: evaluation, update and notification    *)
(* phases, then the next time at which a process waits.                    *)
(***************************************************************************)
EXTENDS Integers, Sequences, FiniteSets, SequencesExt

CONSTANTS
    CanFrames,      \* frames of other nodes: [v |-> delivery time, s |-> number]
    FifoSize,       \* FIFO_SIZE (16 in the code)
    Accesses,       \* Accesses[m]: what the guest asks of module m: [op |-> what, t |-> its time]
    MaxTraffic      \* MaxTraffic[m]: bound on connections and requests; a request takes 10 ns, a unit

Wakers == {"io", "zenoh"}

VARIABLES
    target,                   \* "regs" without a node id, else "can"
    alive,                    \* the process runs
    kernel,                   \* "run", "check", "enter", "blocked": sc_main in its loop
    woken,                    \* g_kernel.woken
    waker,                    \* waker[t]: "idle", "wake", "notify" in notify_from_os_thread
    updates, events, runnable, \* asynchronous updates, delta events, processes to be evaluated
    sc_now,
    client,                   \* client_fd: "none", "new" before the handshake, "up", "spoilt", "gone", "closed"
    io,                       \* the I/O thread: "accept", "handshake", "read", "wait", "close"
    req_queue, has_resp,
    sthread, sreq, sdue,      \* systemc_thread: "event", "loop", "until", "delay"; its request; its time
    rthread, rframe, rdue,    \* process_rx, likewise
    rx_queue, rx_fifo, status,
    tx_queue,
    reg255, irq,              \* value in the last register; the line as QEMU sees it
    unheard,                  \* history: the last interrupt was raised or lowered with no client
    missed,                   \* history: a notification fell between predicate and sleep
    requests, answers,        \* history: requests read, and answered to the same client
    connections,
    came, handled,            \* history: frames brought; frames delivered, dropped or discarded
    sent, published           \* history: frames given to transmit; published

kvars == <<kernel, woken, waker, updates, events, runnable, missed>>
iovars == <<client, io, req_queue, has_resp, requests, answers, connections>>
svars == <<sthread, sreq, sdue>>
rvars == <<rthread, rframe, rdue, rx_queue, came, handled>>
canvars == <<rx_fifo, status, tx_queue, sent, published>>
irqvars == <<reg255, irq, unheard>>
scvars == <<target, alive, kvars, sc_now, iovars, svars, rvars, canvars, irqvars>>

\* sc_main: the module under the adapter, and SystemC up to its first wait.
SCInit ==
    /\ target \in {"regs", "can"} /\ alive = TRUE
    /\ kernel = "run" /\ woken = FALSE /\ waker = [t \in Wakers |-> "idle"]
    /\ updates = {} /\ events = {} /\ runnable = {} /\ missed = FALSE /\ sc_now = 0
    /\ client = "none" /\ io = "accept" /\ req_queue = <<>> /\ has_resp = FALSE
    /\ requests = <<>> /\ answers = <<>> /\ connections = 0
    /\ sthread = "event" /\ sreq = <<>> /\ sdue = 0
    /\ rthread = "event" /\ rframe = <<>> /\ rdue = 0
    /\ rx_queue = <<>> /\ came = <<>> /\ handled = <<>>
    /\ rx_fifo = <<>> /\ status = FALSE /\ tx_queue = <<>> /\ sent = <<>> /\ published = <<>>
    /\ reg255 = FALSE /\ irq = FALSE /\ unheard = FALSE

-----------------------------------------------------------------------------
\* Plausible slips, used to test the properties.

\* process_rx waits for the event although frames came while it waited for a time.
AwaitFrameAlways == rthread' = "event" /\ runnable' = runnable \ {"rx"}

\* The command POP lowers the line although frames are left.
PopLowers(f) == irq' = FALSE /\ UNCHANGED <<alive, client, events, unheard>> /\ status' = (f # <<>>)

-----------------------------------------------------------------------------
(* Waking the kernel: AsyncEvent::notify_from_os_thread, KernelWakeup.     *)

\* The update is requested and the flag set, then the kernel is notified.
Wake(t) ==
    /\ alive /\ waker[t] = "wake"
    /\ updates' = updates \cup {t} /\ woken' = TRUE /\ waker' = [waker EXCEPT ![t] = "notify"]
    /\ UNCHANGED <<target, alive, kernel, events, runnable, missed, sc_now, iovars, svars, rvars,
                   canvars, irqvars>>
Notify(t) ==
    /\ alive /\ waker[t] = "notify"
    /\ waker' = [waker EXCEPT ![t] = "idle"]
    /\ kernel' = IF kernel = "blocked" THEN "check" ELSE kernel
    /\ missed' = IF kernel = "enter" THEN TRUE ELSE IF kernel = "blocked" THEN FALSE ELSE missed
    /\ UNCHANGED <<target, alive, woken, updates, events, runnable, sc_now, iovars, svars, rvars,
                   canvars, irqvars>>

\* The loop of sc_main: run while there is activity, else test the flag with the
\* mutex held, and sleep.
Timed == {d \in {<<"sc", sdue>>, <<"rx", rdue>>} :
             \/ d[1] = "sc" /\ sthread \in {"until", "delay"} /\ "sc" \notin runnable
             \/ d[1] = "rx" /\ rthread = "until" /\ "rx" \notin runnable}
PendingActivity == updates # {} \/ events # {} \/ runnable # {} \/ Timed # {}
KernelIdle ==
    /\ alive /\ kernel = "run" /\ ~PendingActivity
    /\ kernel' = "check"
    /\ UNCHANGED <<target, alive, woken, waker, updates, events, runnable, missed, sc_now, iovars, svars,
                   rvars, canvars, irqvars>>
KernelCheck ==
    /\ alive /\ kernel = "check"
    /\ kernel' = IF woken THEN "run" ELSE "enter"
    /\ woken' = FALSE
    /\ UNCHANGED <<target, alive, waker, updates, events, runnable, missed, sc_now, iovars, svars, rvars,
                   canvars, irqvars>>
KernelSleep ==
    /\ alive /\ kernel = "enter"
    /\ kernel' = "blocked"
    /\ UNCHANGED <<target, alive, woken, waker, updates, events, runnable, missed, sc_now, iovars, svars,
                   rvars, canvars, irqvars>>

\* SystemC: updates notify events, events make processes runnable, and when
\* there is none the time moves to the earliest that is waited for.
Update ==
    /\ alive /\ kernel = "run" /\ runnable = {} /\ updates # {}
    /\ events' = events \cup {IF t = "io" THEN "req" ELSE "frame" : t \in updates}
    /\ updates' = {}
    /\ UNCHANGED <<target, alive, kernel, woken, waker, runnable, missed, sc_now, iovars, svars, rvars,
                   canvars, irqvars>>
Trigger ==
    /\ alive /\ kernel = "run" /\ runnable = {} /\ updates = {} /\ events # {}
    /\ runnable' = {p \in {"sc", "rx", "on_rx"} :
                        \/ p = "sc" /\ "req" \in events /\ sthread = "event"
                        \/ p = "rx" /\ "frame" \in events /\ rthread = "event"
                        \/ p = "on_rx" /\ "fifo" \in events}
    /\ events' = {}
    /\ UNCHANGED <<target, alive, kernel, woken, waker, updates, missed, sc_now, iovars, svars, rvars,
                   canvars, irqvars>>
Advance ==
    /\ alive /\ kernel = "run" /\ runnable = {} /\ updates = {} /\ events = {} /\ Timed # {}
    /\ LET next == CHOOSE d \in Timed : \A e \in Timed : d[2] <= e[2]
       IN  /\ sc_now' = next[2]
           /\ runnable' = {d[1] : d \in {e \in Timed : e[2] = next[2]}}
    /\ UNCHANGED <<target, alive, kernel, woken, waker, updates, events, missed, iovars, svars, rvars,
                   canvars, irqvars>>

-----------------------------------------------------------------------------
(* The I/O thread.                                                         *)

\* socket_thread: accept, which sets client_fd.  The line of the new QEMU is low.
Accept ==
    /\ alive /\ io = "accept" /\ connections + Len(requests) < MaxTraffic[target]
    /\ connections' = connections + 1
    /\ io' = "handshake" /\ client' = "new" /\ irq' = FALSE /\ unheard' = (unheard \/ irq \/ reg255)
    /\ UNCHANGED <<target, alive, kvars, sc_now, req_queue, has_resp, requests, answers, svars, rvars,
                   canvars, reg255>>

\* The handshake: QEMU's is read, the answer written.  An interrupt message that
\* was written before the answer is read by QEMU in its place, and QEMU closes the
\* connection (spoilt).  A write to a client that is gone raises SIGPIPE, which
\* nobody handles.
Handshake ==
    /\ alive /\ io = "handshake"
    /\ client' = IF client = "new" THEN "up" ELSE client
    /\ alive' = (client # "gone") /\ io' = "read"
    /\ UNCHANGED <<target, kvars, sc_now, req_queue, has_resp, requests, answers, connections, svars,
                   rvars, canvars, irqvars>>
HandshakeFails ==
    /\ alive /\ io = "handshake"
    /\ client' = "closed" /\ io' = "close"
    /\ UNCHANGED <<target, alive, kvars, sc_now, req_queue, has_resp, requests, answers, connections,
                   svars, rvars, canvars, irqvars>>

\* accept fails: the thread ends and stops the simulation, and sc_start after
\* sc_stop ends the process.
AcceptFails ==
    /\ alive /\ io = "accept" /\ alive' = FALSE
    /\ UNCHANGED <<target, kvars, sc_now, iovars, svars, rvars, canvars, irqvars>>

\* A request that passes the validation is queued; then the kernel is woken.
ReadRequest(a) ==
    /\ alive /\ io = "read" /\ client = "up" /\ waker["io"] = "idle"
    /\ connections + Len(requests) < MaxTraffic[target]
    /\ \A i \in DOMAIN requests : requests[i].t <= a.t \* QEMU's time does not go back
    /\ LET r == [op |-> a.op, t |-> a.t, k |-> Len(requests) + 1, c |-> connections]
       IN  req_queue' = Append(req_queue, r) /\ requests' = Append(requests, r)
    /\ has_resp' = FALSE /\ io' = "wait" /\ waker' = [waker EXCEPT !["io"] = "wake"]
    /\ UNCHANGED <<target, alive, kernel, woken, updates, events, runnable, missed, sc_now, client,
                   answers, connections, svars, rvars, canvars, irqvars>>

\* A request of a wrong size or type, or the end of the stream: the socket is
\* closed, then client_fd is reset, without socket_mtx, and the next one accepted.
Disconnect ==
    /\ alive /\ io = "read"
    /\ client' = "closed" /\ io' = "close"
    /\ UNCHANGED <<target, alive, kvars, sc_now, req_queue, has_resp, requests, answers, connections,
                   svars, rvars, canvars, irqvars>>
ForgetClient ==
    /\ alive /\ io = "close"
    /\ client' = "none" /\ io' = "accept"
    /\ UNCHANGED <<target, alive, kvars, sc_now, req_queue, has_resp, requests, answers, connections,
                   svars, rvars, canvars, irqvars>>
ClientGone ==
    /\ alive /\ client \in {"new", "up", "spoilt"} /\ client' = "gone"
    /\ UNCHANGED <<target, alive, kvars, sc_now, io, req_queue, has_resp, requests, answers,
                   connections, svars, rvars, canvars, irqvars>>

\* The response goes to the client, if it is still there.
TakeResponse == has_resp' = FALSE
Respond ==
    /\ alive /\ io = "wait" /\ waker["io"] = "idle" /\ has_resp
    /\ TakeResponse
    /\ IF client = "up"
       THEN /\ answers' = Append(answers, [k |-> sreq[1].k, c |-> connections])
            /\ io' = "read" /\ UNCHANGED alive
       ELSE alive' = FALSE /\ UNCHANGED <<answers, io>>
    /\ UNCHANGED <<target, kvars, sc_now, client, req_queue, requests, connections, svars, rvars,
                   canvars, irqvars>>

-----------------------------------------------------------------------------
(* The SystemC processes.                                                  *)

\* QemuAdapter::trigger_irq, send_msg: QEMU hears of it when the handshake is done.
\* A write to a socket that is closed already fails.
TriggerIrq(level) ==
    /\ irq' = IF client = "up" THEN level ELSE irq
    /\ unheard' = (client # "up")
    /\ client' = IF client = "new" THEN "spoilt" ELSE client
    /\ alive' = (client # "gone")

\* RegisterFile::b_transport: the last register drives the line.
RegisterAccess(op) ==
    /\ IF op = "other"
       THEN UNCHANGED <<alive, client, irqvars>>
       ELSE reg255' = (op = "set") /\ TriggerIrq(op = "set")
    /\ UNCHANGED <<events, canvars>>

\* CanController::b_transport: CMD transmits; POP takes a frame out of the FIFO
\* and lowers the line with the last one, or raises it again.
Popped(f) ==
    IF f = <<>>
    THEN status' = FALSE /\ TriggerIrq(FALSE) /\ UNCHANGED events
    ELSE events' = events \cup {"fifo"} /\ UNCHANGED <<alive, client, status, irq, unheard>>
CanAccess(op) ==
    /\ CASE op = "send" ->
              /\ tx_queue' = Append(tx_queue, Len(sent) + 1)
              /\ sent' = Append(sent, Len(sent) + 1)
              /\ UNCHANGED <<alive, client, events, rx_fifo, status, irq, unheard>>
         [] op = "pop" ->
              LET f == IF rx_fifo = <<>> THEN <<>> ELSE Tail(rx_fifo)
              IN  rx_fifo' = f /\ Popped(f) /\ UNCHANGED <<tx_queue, sent>>
         [] OTHER -> UNCHANGED <<alive, client, events, rx_fifo, status, tx_queue, sent, irq, unheard>>
    /\ UNCHANGED <<published, reg255>>

\* systemc_thread, from the top of its loop: take a request, if there is one,
\* and wait for its time unless that is past.
TakeRequest ==
    /\ alive /\ kernel = "run" /\ "sc" \in runnable /\ sthread \in {"event", "loop"}
    /\ IF req_queue = <<>>
       THEN sthread' = "event" /\ runnable' = runnable \ {"sc"} /\ UNCHANGED <<req_queue, sreq, sdue>>
       ELSE LET r == Head(req_queue)
            IN  /\ req_queue' = Tail(req_queue) /\ sreq' = <<r>> /\ sthread' = "until"
                /\ sdue' = IF r.t > sc_now THEN r.t ELSE sc_now
                /\ runnable' = IF r.t > sc_now THEN runnable \ {"sc"} ELSE runnable
    /\ UNCHANGED <<target, alive, kernel, woken, waker, updates, events, missed, sc_now, client, io,
                   has_resp, requests, answers, connections, rvars, canvars, irqvars>>

\* ... the access, which takes time, ...
Transport ==
    /\ alive /\ kernel = "run" /\ "sc" \in runnable /\ sthread = "until"
    /\ IF target = "regs" THEN RegisterAccess(sreq[1].op) ELSE CanAccess(sreq[1].op)
    /\ sthread' = "delay" /\ sdue' = sc_now + 1 /\ runnable' = runnable \ {"sc"}
    /\ UNCHANGED <<target, kernel, woken, waker, updates, missed, sc_now, io, req_queue, has_resp,
                   requests, answers, connections, sreq, rvars>>

\* ... and the response.
PutResponse ==
    /\ alive /\ kernel = "run" /\ "sc" \in runnable /\ sthread = "delay"
    /\ has_resp' = TRUE /\ sthread' = "loop"
    /\ UNCHANGED <<target, alive, kvars, sc_now, client, io, req_queue, requests, answers, connections,
                   sreq, sdue, rvars, canvars, irqvars>>

\* SharedMedium::on_zenoh_rx, in a thread of Zenoh.
OnZenohRx(f) ==
    /\ alive /\ target = "can" /\ waker["zenoh"] = "idle" /\ ~Contains(came, f)
    /\ rx_queue' = Append(rx_queue, f) /\ came' = Append(came, f)
    /\ waker' = [waker EXCEPT !["zenoh"] = "wake"]
    /\ UNCHANGED <<target, alive, kernel, woken, updates, events, runnable, missed, sc_now, iovars,
                   svars, rthread, rframe, rdue, handled, canvars, irqvars>>

\* CanController::receive_frame.
ReceiveFrame(f) ==
    IF Len(rx_fifo) < FifoSize
    THEN /\ rx_fifo' = Append(rx_fifo, f) /\ status' = TRUE /\ events' = events \cup {"fifo"}
         /\ handled' = Append(handled, [f |-> f, at |-> sc_now, as |-> "delivered"])
    ELSE /\ handled' = Append(handled, [f |-> f, at |-> sc_now, as |-> "overflow"])
         /\ UNCHANGED <<rx_fifo, status, events>>

\* SharedMedium::process_rx: take the next frame, wait for its time or drop it;
\* wait for the event only when the queue is empty.
AwaitFrame ==
    IF rx_queue = <<>>
    THEN rthread' = "event" /\ runnable' = runnable \ {"rx"}
    ELSE rthread' = "loop" /\ UNCHANGED runnable
ProcessRx ==
    /\ alive /\ kernel = "run" /\ "rx" \in runnable
    /\ \/ /\ rthread = "until" \* its time has come
          /\ ReceiveFrame(rframe[1])
          /\ rframe' = <<>> /\ AwaitFrame /\ UNCHANGED <<rdue, rx_queue>>
       \/ /\ rthread \in {"event", "loop"} /\ rx_queue = <<>>
          /\ AwaitFrame /\ UNCHANGED <<rframe, rdue, rx_queue, handled, rx_fifo, status, events>>
       \/ /\ rthread \in {"event", "loop"} /\ rx_queue # <<>>
          /\ rx_queue' = Tail(rx_queue)
          /\ LET f == Head(rx_queue)
             IN  CASE f.v > sc_now ->
                        /\ rthread' = "until" /\ rframe' = <<f>> /\ rdue' = f.v
                        /\ runnable' = runnable \ {"rx"}
                        /\ UNCHANGED <<handled, rx_fifo, status, events>>
                   [] f.v < sc_now ->
                        /\ handled' = Append(handled, [f |-> f, at |-> sc_now, as |-> "late"])
                        /\ rthread' = "loop"
                        /\ UNCHANGED <<rframe, rdue, runnable, rx_fifo, status, events>>
                   [] OTHER ->
                        /\ ReceiveFrame(f) /\ rthread' = "loop"
                        /\ UNCHANGED <<rframe, rdue, runnable>>
    /\ UNCHANGED <<target, alive, kernel, woken, waker, updates, missed, sc_now, iovars, svars, came,
                   tx_queue, sent, published, irqvars>>

\* CanController::on_rx.
OnRx ==
    /\ alive /\ kernel = "run" /\ "on_rx" \in runnable
    /\ runnable' = runnable \ {"on_rx"} /\ TriggerIrq(TRUE)
    /\ UNCHANGED <<target, kernel, woken, waker, updates, events, missed, sc_now, io, req_queue,
                   has_resp, requests, answers, connections, svars, rvars, canvars, reg255>>

\* SharedMedium::zenoh_tx_thread.
PutFrame ==
    /\ alive /\ tx_queue # <<>>
    /\ published' = Append(published, Head(tx_queue)) /\ tx_queue' = Tail(tx_queue)
    /\ UNCHANGED <<target, alive, kvars, sc_now, iovars, svars, rvars, rx_fifo, status, sent, irqvars>>

SCNext ==
    \/ \E t \in Wakers : Wake(t) \/ Notify(t)
    \/ KernelIdle \/ KernelCheck \/ KernelSleep \/ Update \/ Trigger \/ Advance
    \/ Accept \/ Handshake \/ HandshakeFails \/ AcceptFails
    \/ Disconnect \/ ForgetClient \/ ClientGone \/ Respond
    \/ \E a \in Accesses[target] : ReadRequest(a)
    \/ TakeRequest \/ Transport \/ PutResponse \/ ProcessRx \/ OnRx \/ PutFrame
    \/ \E f \in CanFrames : OnZenohRx(f)

SCSpec == SCInit /\ [][SCNext]_scvars

-----------------------------------------------------------------------------
\* Every request is answered once, in order and to the client that made it;
\* frames are handled in the order they came, a frame reaches the FIFO exactly
\* at its time and is dropped only when SystemC's time had passed it, be it while
\* process_rx waited for a frame that came first and is due later; what is
\* transmitted is published in order.
ServedInOrder ==
    /\ IsPrefix(answers, [i \in DOMAIN requests |-> [k |-> requests[i].k, c |-> requests[i].c]])
    /\ came = [i \in DOMAIN handled |-> handled[i].f] \o rframe \o rx_queue
    /\ \A i \in DOMAIN handled :
          CASE handled[i].as = "late" -> handled[i].at > handled[i].f.v
            [] OTHER -> handled[i].at = handled[i].f.v
    /\ sent = published \o tx_queue

\* No request and no frame waits without somebody who will see to it, and the
\* kernel sleeps on no activity, unless a notification was missed: wake() does
\* not take the mutex, and may fall between the predicate and the sleep.
NothingForgotten ==
    alive =>
        /\ req_queue # <<>> =>
              waker["io"] = "wake" \/ "io" \in updates \/ "req" \in events \/ "sc" \in runnable
        /\ rx_queue # <<>> =>
              \/ waker["zenoh"] = "wake" \/ "zenoh" \in updates \/ "frame" \in events
              \/ "rx" \in runnable \/ rthread = "until"
        /\ kernel = "blocked" /\ PendingActivity =>
              missed \/ \E t \in Wakers : waker[t] = "notify"

\* Frames in the FIFO show in the status register and hold the line up, or are
\* about to; the line follows the last register of the register file.  Only an
\* interrupt that was raised before the handshake with the client, or after its
\* socket was closed, is not repeated.
InterruptFollows ==
    alive /\ client = "up" /\ ~unheard =>
        /\ status = (rx_fifo # <<>>)
        /\ rx_fifo # <<>> => irq \/ "fifo" \in events \/ "on_rx" \in runnable
        /\ target = "regs" => irq = reg255
=============================================================================
