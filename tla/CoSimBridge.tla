---------------------------- MODULE CoSimBridge ----------------------------
(***************************************************************************)
(* The co-simulation bridge (virtmcu-qom/src/cosim.rs, with VcpuDrain and  *)
(* Condvar of sync.rs) and its two users, the MMIO socket bridge and the   *)
(* Remote Port bridge: vCPUs that are inside an MMIO access, the thread    *)
(* that runs run_rx_loop, the main thread that finalizes the device, and   *)
(* the adapter process at the other end of the socket.                     *)
(*                                                                         *)
(* A vCPU and the main thread hold the big QEMU lock except where they     *)
(* yield it.  A critical section of the state mutex or of the drain's      *)
(* mutex is one step: no thread waits for the big lock while it has one    *)
(* (wait_yielding_bql).  A wait with a timeout may end at any time.        *)
(* Requests are numbered, and a response carries the number of the request *)
(* that the adapter answers.                                               *)
(***************************************************************************)
EXTENDS Naturals, Sequences, FiniteSets

CONSTANTS
    Vcpus,
    Bridges,         \* of {"mmio", "remote_port"}: the devices to consider
    Reconnect,       \* those whose reconnect_ms is not zero
    MaxRequests,     \* bound: accesses of the guest
    MaxConnections,  \* bound: connections the adapter accepts
    MaxIrqs          \* bound: interrupt messages of the adapter

ASSUME BridgeAssumption ==
    /\ IsFiniteSet(Vcpus)
    /\ Reconnect \subseteq Bridges /\ Bridges \subseteq {"mmio", "remote_port"}
    /\ MaxRequests \in Nat /\ MaxConnections \in Nat /\ MaxIrqs \in Nat

VARIABLES
    kind,                             \* the device
    id_mapped, mapped,                \* MAPPED_IDS[id] and qemu.mapped
    bql,                              \* who holds the big QEMU lock, or "free"
    running, has_resp, current_resp, is_connected,   \* BridgeInner; 0 is None
    count,                            \* VcpuDrain: the vCPUs inside
    stream,                           \* the socket requests go to; 0 is None
    sock,                             \* the last socket connected
    rx_buf,                           \* Remote Port: a partial packet is left
    cpu,                              \* cpu[v]: where it is, and on which condvar
    rx,                               \* the receive thread
    main,                             \* the main thread
    req, reqs, irqs,                  \* request in hand, how many, irq messages
    via,                              \* history: the connection a request went to
    doubt                             \* history: why a response may be foreign

device == <<kind, id_mapped, mapped>>
inner == <<running, has_resp, current_resp, is_connected>>
bound == <<reqs, irqs>>
vars == <<device, bql, inner, count, stream, sock, rx_buf, cpu, rx, main, req, bound, via, doubt>>

Garbage == MaxRequests + 1     \* what a misaligned Remote Port packet carries
Guest == [at |-> "guest", on |-> "none"]
ToSend == [at |-> "clear", on |-> "none"]
Inside(v) == cpu[v].on = "resp"                \* within send_and_wait
InBridge(v) == cpu[v] # Guest                  \* within bridge_read or bridge_write
Closed == [n |-> 0, open |-> FALSE, hello |-> "none", to_peer |-> <<>>, to_rx |-> <<>>, mid |-> FALSE]

BInit ==
    /\ kind \in Bridges
    /\ id_mapped \in BOOLEAN /\ mapped = FALSE
    /\ bql = "free"
    /\ running = TRUE /\ has_resp = FALSE /\ current_resp = 0 /\ is_connected = FALSE
    /\ count = 0 /\ stream = 0 /\ sock = Closed /\ rx_buf = FALSE
    /\ cpu = [v \in Vcpus |-> Guest] /\ rx = "exited" /\ main = "new"
    /\ req = [v \in Vcpus |-> 0] /\ via = req /\ reqs = 0 /\ irqs = 0
    /\ doubt = {}

-----------------------------------------------------------------------------
\* Plausible slips, used to test the properties.

\* notify_disconnected leaves has_resp alone.
NotifyDisconnectedQuietly ==
    /\ rx = "notify"
    /\ is_connected' = FALSE /\ current_resp' = 0
    /\ rx' = IF kind \in Reconnect \cup {"mmio"} THEN "top" ELSE "exited"
    /\ UNCHANGED <<device, bql, running, has_resp, count, stream, sock, rx_buf, cpu, main, req,
                   bound, via, doubt>>

\* The old response is not cleared.
ClearNothing(v) ==
    /\ cpu[v] = ToSend
    /\ count' = count + 1
    /\ cpu' = [cpu EXCEPT ![v] = [at |-> "send", on |-> "resp"]]
    /\ doubt' = doubt \cup {"overlap" : w \in {u \in Vcpus \ {v} : Inside(u)}}
    /\ UNCHANGED <<device, bql, inner, stream, sock, rx_buf, rx, main, req, bound, via>>

\* The socket is not shut down.
InterruptNothing ==
    /\ main = "interrupt"
    /\ main' = "drain"
    /\ UNCHANGED <<device, bql, inner, count, stream, sock, rx_buf, cpu, rx, req, bound, via, doubt>>

\* The drain is over one vCPU too early.
DrainAllButOne ==
    /\ main = "drain" /\ bql = "main"
    /\ main' = IF count <= 1 THEN "join" ELSE "waiting"
    /\ bql' = "free"
    /\ UNCHANGED <<device, inner, count, stream, sock, rx_buf, cpu, rx, req, bound, via, doubt>>

\* A vCPU that leaves is not counted out.
ReleaseForgotten == UNCHANGED <<count, main>>

-----------------------------------------------------------------------------
(* Condition variables.                                                    *)

\* Condvar::notify_all on the condvars cs, as the vCPUs see it.
NotifyAll(cs) ==
    [v \in Vcpus |-> IF cpu[v].at = "wait" /\ cpu[v].on \in cs
                     THEN [cpu[v] EXCEPT !.at = "woken"] ELSE cpu[v]]

\* The timeout of the wait in send_and_wait or in wait_connected.
Timeout(v) ==
    /\ cpu[v].at = "wait"
    /\ cpu' = [cpu EXCEPT ![v].at = "late"]
    /\ UNCHANGED <<device, bql, inner, count, stream, sock, rx_buf, rx, main, req, bound, via, doubt>>

-----------------------------------------------------------------------------
(* An MMIO access.                                                         *)

\* bridge_read and bridge_write up to wait_connected.  The region is there if
\* realize mapped it, and until the device is unparented, before finalize.
Access(v) ==
    /\ cpu[v] = Guest /\ mapped /\ main = "alive" /\ bql = "free"
    /\ reqs < MaxRequests
    /\ reqs' = reqs + 1 /\ req' = [req EXCEPT ![v] = reqs + 1]
    /\ bql' = v
    /\ cpu' = [cpu EXCEPT ![v] = [at |-> "check", on |-> "conn"]]
    /\ UNCHANGED <<device, inner, count, stream, sock, rx_buf, rx, main, irqs, via, doubt>>
MmioAccess(v) == kind = "mmio" /\ Access(v)
RpAccess(v) == kind = "remote_port" /\ Access(v)

\* The last step of wait_yielding_bql: the big lock is taken again.
Relock(v) ==
    /\ cpu[v].at \in {"woken", "late"} /\ bql = "free"
    /\ bql' = v
    /\ cpu' = [cpu EXCEPT ![v] =
                  IF @.at = "late" /\ @.on = "conn" THEN ToSend
                  ELSE IF @.at = "late" THEN [at |-> "late", on |-> "resp"]
                  ELSE [@ EXCEPT !.at = "check"]]
    /\ UNCHANGED <<device, inner, count, stream, sock, rx_buf, rx, main, req, bound, via, doubt>>

\* wait_connected: one turn of the loop.  What it returns is ignored.
CheckConnected(v) ==
    /\ cpu[v] = [at |-> "check", on |-> "conn"] /\ bql = v
    /\ IF running /\ ~is_connected
       THEN cpu' = [cpu EXCEPT ![v].at = "wait"] /\ bql' = "free"
       ELSE cpu' = [cpu EXCEPT ![v] = ToSend] /\ UNCHANGED bql
    /\ UNCHANGED <<device, inner, count, stream, sock, rx_buf, rx, main, req, bound, via, doubt>>

\* The way back to the guest, without a response.
Leave(v) ==
    /\ cpu' = [cpu EXCEPT ![v] = Guest]
    /\ req' = [req EXCEPT ![v] = 0] /\ via' = [via EXCEPT ![v] = 0]
    /\ bql' = "free"

\* The drain guard is dropped; the main thread is told when none is left.
Release ==
    /\ count' = count - 1
    /\ main' = IF count = 1 /\ main = "waiting" THEN "woken" ELSE main

\* send_and_wait, refused while the bridge shuts down ...
Refuse(v) ==
    /\ cpu[v] = ToSend /\ ~running
    /\ Leave(v)
    /\ UNCHANGED <<device, inner, count, stream, sock, rx_buf, rx, main, bound, doubt>>

\* ... counted in and the old response cleared ...
Clear(v) ==
    /\ cpu[v] = ToSend /\ running
    /\ count' = count + 1
    /\ has_resp' = FALSE /\ current_resp' = 0
    /\ cpu' = [cpu EXCEPT ![v] = [at |-> "send", on |-> "resp"]]
    /\ doubt' = doubt \cup {"overlap" : w \in {u \in Vcpus \ {v} : Inside(u)}}
    /\ UNCHANGED <<device, bql, running, is_connected, stream, sock, rx_buf, rx, main, req, bound, via>>

\* ... and the request written, unless there is no socket or it is closed.
SendRequest(v) ==
    /\ cpu[v] = [at |-> "send", on |-> "resp"]
    /\ IF stream # 0 /\ sock.open
       THEN /\ sock' = [sock EXCEPT !.to_peer = Append(@, req[v])]
            /\ via' = [via EXCEPT ![v] = stream]
            /\ cpu' = [cpu EXCEPT ![v].at = "check"]
            /\ UNCHANGED <<bql, count, main, req>>
       ELSE Leave(v) /\ Release /\ UNCHANGED sock
    /\ UNCHANGED <<device, inner, stream, rx_buf, rx, bound, doubt>>

\* One turn of the loop in send_and_wait: wait, or take what is there.  A
\* vCPU that leaves without its response leaves the response to the others.
CheckResponse(v) ==
    /\ cpu[v] \in {[at |-> a, on |-> "resp"] : a \in {"check", "late"}} /\ bql = v
    /\ IF running /\ ~has_resp /\ cpu[v].at = "check"
       THEN /\ cpu' = [cpu EXCEPT ![v].at = "wait"] /\ bql' = "free"
            /\ UNCHANGED <<current_resp, count, main, req, via, doubt>>
       ELSE /\ current_resp' = 0
            /\ Leave(v) /\ Release
            /\ doubt' = IF current_resp = 0 /\ stream # 0 THEN doubt \cup {"late"} ELSE doubt
    /\ UNCHANGED <<device, running, has_resp, is_connected, stream, sock, rx_buf, rx, bound>>

-----------------------------------------------------------------------------
(* run_rx_loop.                                                            *)

\* The head of the loop, when the connection is refused: give up.  With
\* reconnect_ms set the thread sleeps (sleep_interruptible) and tries again.
ConnectRefused ==
    /\ rx = "top" /\ running /\ kind \notin Reconnect
    /\ rx' = "exited"
    /\ UNCHANGED <<device, bql, inner, count, stream, sock, rx_buf, cpu, main, req, bound, via, doubt>>

\* ... and when it is accepted.  The MMIO bridge waits for the adapter's hello.
Connect ==
    /\ rx = "top" /\ running /\ sock.n < MaxConnections
    /\ sock' = [Closed EXCEPT !.n = sock.n + 1, !.open = TRUE]
    /\ rx' = IF kind = "mmio" THEN "hello" ELSE "store"
    /\ doubt' = IF \E v \in Vcpus : Inside(v) THEN doubt ELSE {}
    /\ UNCHANGED <<device, bql, inner, count, stream, rx_buf, cpu, main, req, bound, via>>
MmioConnect == kind = "mmio" /\ Connect
RpConnect == kind = "remote_port" /\ Connect

\* The hello is read: go on, or retry when it is wrong or does not come.
Handshake ==
    /\ rx = "hello" /\ (sock.hello # "none" \/ ~sock.open)
    /\ rx' = IF sock.hello = "ok" THEN "store" ELSE "top"
    /\ sock' = [sock EXCEPT !.open = @ /\ sock.hello = "ok", !.hello = "none"]
    /\ UNCHANGED <<device, bql, inner, count, stream, rx_buf, cpu, main, req, bound, via, doubt>>

\* The socket is stored for send_request, and the waiters are told.
NotifyConnected ==
    /\ rx = "store"
    /\ stream' = sock.n
    /\ is_connected' = TRUE
    /\ cpu' = NotifyAll({"conn"})
    /\ rx' = "read"
    /\ UNCHANGED <<device, bql, running, has_resp, current_resp, count, sock, rx_buf, main, req,
                   bound, via, doubt>>

\* dispatch_response.  Nothing ties it to a request.
DispatchResponse(r) ==
    /\ current_resp' = r
    /\ has_resp' = TRUE
    /\ cpu' = NotifyAll({"resp"})

\* The next message is a response.  With a partial packet of an older connection
\* in front of it, Remote Port takes bytes of two packets for one, or waits for
\* more.
ReadResponse ==
    /\ rx = "read" /\ sock.to_rx # <<>> /\ Head(sock.to_rx).type = "resp"
    /\ sock' = [sock EXCEPT !.to_rx = Tail(@)]
    /\ \/ rx_buf /\ UNCHANGED <<has_resp, current_resp, cpu>>
       \/ DispatchResponse(IF rx_buf THEN Garbage ELSE Head(sock.to_rx).id)
    /\ UNCHANGED <<device, bql, running, is_connected, count, stream, rx_buf, rx, main, req, bound,
                   via, doubt>>

\* An interrupt message: the thread waits for the big lock and sets the line
\* (which nothing here reads back).
ReadIrq ==
    /\ rx = "read" /\ sock.to_rx # <<>> /\ Head(sock.to_rx).type = "irq"
    /\ rx' = "irq"
    /\ UNCHANGED <<device, bql, inner, count, stream, sock, rx_buf, cpu, main, req, bound, via, doubt>>
SetIrq ==
    /\ rx = "irq" /\ bql = "free"
    /\ sock' = [sock EXCEPT !.to_rx = Tail(@)]
    /\ rx' = "read"
    /\ UNCHANGED <<device, bql, inner, count, stream, rx_buf, cpu, main, req, bound, via, doubt>>

\* The end of the stream: the socket is dropped, then the waiters are told.
\* Remote Port keeps what it has of a packet; the MMIO bridge does not.
Lose ==
    /\ rx = "read" /\ ~sock.open /\ sock.to_rx = <<>>
    /\ stream' = 0
    /\ rx_buf' = (rx_buf \/ (kind = "remote_port" /\ sock.mid))
    /\ rx' = "notify"
    /\ UNCHANGED <<device, bql, inner, count, sock, cpu, main, req, bound, via, doubt>>
NotifyDisconnected ==
    /\ rx = "notify"
    /\ is_connected' = FALSE /\ has_resp' = TRUE /\ current_resp' = 0
    /\ cpu' = NotifyAll({"conn", "resp"})
    /\ doubt' = doubt \cup {"flap" : v \in {u \in Vcpus : Inside(u) /\ cpu[u].at = "send"}}
    /\ rx' = IF kind \in Reconnect \cup {"mmio"} THEN "top" ELSE "exited"
    /\ UNCHANGED <<device, bql, running, count, stream, sock, rx_buf, main, req, bound, via>>

Exit ==
    /\ rx = "top" /\ ~running
    /\ rx' = "exited"
    /\ UNCHANGED <<device, bql, inner, count, stream, sock, rx_buf, cpu, main, req, bound, via, doubt>>

-----------------------------------------------------------------------------
(* The adapter: it says hello, answers each request, raises interrupts and *)
(* may go away, in the middle of a packet if it likes.                     *)

PeerHello ==
    /\ rx = "hello" /\ sock.open /\ sock.hello = "none"
    /\ \E h \in {"ok", "mismatch"} : sock' = [sock EXCEPT !.hello = h]
    /\ UNCHANGED <<device, bql, inner, count, stream, rx_buf, cpu, rx, main, req, bound, via, doubt>>
PeerAnswer ==
    /\ sock.open /\ sock.to_peer # <<>>
    /\ sock' = [sock EXCEPT !.to_peer = Tail(@),
                            !.to_rx = Append(@, [type |-> "resp", id |-> Head(sock.to_peer)])]
    /\ UNCHANGED <<device, bql, inner, count, stream, rx_buf, cpu, rx, main, req, bound, via, doubt>>
PeerIrq ==
    /\ sock.open /\ stream # 0 /\ irqs < MaxIrqs
    /\ irqs' = irqs + 1
    /\ sock' = [sock EXCEPT !.to_rx = Append(@, [type |-> "irq"])]
    /\ UNCHANGED <<device, bql, inner, count, stream, rx_buf, cpu, rx, main, req, reqs, via, doubt>>
PeerClose ==
    /\ sock.open
    /\ \E mid \in {FALSE, kind = "remote_port"} : sock' = [sock EXCEPT !.open = FALSE, !.mid = mid, !.to_peer = <<>>]
    /\ UNCHANGED <<device, bql, inner, count, stream, rx_buf, cpu, rx, main, req, bound, via, doubt>>

-----------------------------------------------------------------------------
(* The main thread.                                                        *)

\* bridge_realize: an error if a property is missing; else the receive thread
\* is spawned, and the region mapped unless the id is mapped already.
Realize ==
    /\ main = "new"
    /\ \E valid \in BOOLEAN :
          IF valid
          THEN /\ main' = "alive" /\ rx' = "top"
               /\ mapped' = ~id_mapped /\ id_mapped' = TRUE
          ELSE main' = "failed" /\ UNCHANGED <<rx, mapped, id_mapped>>
    /\ UNCHANGED <<kind, bql, inner, count, stream, sock, rx_buf, cpu, req, bound, via, doubt>>
MmioRealize == kind = "mmio" /\ Realize
RpRealize == kind = "remote_port" /\ Realize

\* bridge_instance_finalize drops the bridge: CoSimBridge::drop, step by step.
\* There is nothing to drop after a failed realize.
\* (A wake-up that a vCPU misses because it is just about to wait is made up for
\* by its timeout.)
Finalize ==
    /\ main = "alive" /\ bql = "free"
    /\ bql' = "main"
    /\ running' = FALSE
    /\ cpu' = NotifyAll({"conn", "resp"})
    /\ main' = "interrupt"
    /\ UNCHANGED <<device, has_resp, current_resp, is_connected, count, stream, sock, rx_buf, rx,
                   req, bound, via, doubt>>
InterruptRx ==
    /\ main = "interrupt"
    /\ sock' = IF stream # 0 THEN [sock EXCEPT !.open = FALSE, !.to_peer = <<>>] ELSE sock
    /\ main' = "drain"
    /\ UNCHANGED <<device, bql, inner, count, stream, rx_buf, cpu, rx, req, bound, via, doubt>>

\* VcpuDrain::wait_for_drain: one turn of the loop.  (Its limit of 30 s is six
\* times the longest wait of a vCPU inside, so it does not strike.)
WaitForDrain ==
    /\ main = "drain" /\ bql = "main"
    /\ main' = IF count = 0 THEN "join" ELSE "waiting"
    /\ bql' = "free"
    /\ UNCHANGED <<device, inner, count, stream, sock, rx_buf, cpu, rx, req, bound, via, doubt>>
DrainRelock ==
    /\ main = "woken" /\ bql = "free"
    /\ main' = "drain" /\ bql' = "main"
    /\ UNCHANGED <<device, inner, count, stream, sock, rx_buf, cpu, rx, req, bound, via, doubt>>

\* The join, with the big lock yielded; then the bridge is freed.
Join ==
    /\ main = "join" /\ rx = "exited" /\ bql = "free"
    /\ main' = "free" /\ bql' = "main"
    /\ UNCHANGED <<device, inner, count, stream, sock, rx_buf, cpu, rx, req, bound, via, doubt>>
Free ==
    /\ main = "free"
    /\ main' = "freed" /\ bql' = "free"
    /\ id_mapped' = (id_mapped /\ ~mapped)
    /\ UNCHANGED <<kind, mapped, inner, count, stream, sock, rx_buf, cpu, rx, req, bound,
                   via, doubt>>

-----------------------------------------------------------------------------
CpuStep(v) ==
    Relock(v) \/ CheckConnected(v) \/ Refuse(v) \/ Clear(v) \/ SendRequest(v) \/ CheckResponse(v)
RxStep ==
    \/ ConnectRefused \/ Handshake \/ NotifyConnected \/ ReadResponse
    \/ ReadIrq \/ SetIrq \/ Lose \/ NotifyDisconnected \/ Exit
DropStep == InterruptRx \/ WaitForDrain \/ DrainRelock \/ Join \/ Free
PeerStep == PeerHello \/ PeerAnswer \/ PeerIrq \/ PeerClose

\* Once the bridge is freed, what a vCPU does inside it is undefined.
BNext ==
    \/ MmioRealize \/ RpRealize \/ Finalize \/ DropStep \/ MmioConnect \/ RpConnect \/ RxStep
    \/ main # "freed" /\ PeerStep
    \/ \E v \in Vcpus : MmioAccess(v) \/ RpAccess(v) \/ Timeout(v) \/ (main # "freed" /\ CpuStep(v))

\* Threads are scheduled, the big lock is handed on, and timeouts expire.  The
\* adapter answers the hello; it need do nothing else.
BFairness ==
    /\ WF_vars(RxStep) /\ WF_vars(DropStep) /\ WF_vars(PeerHello)
    /\ \A v \in Vcpus : WF_vars(CpuStep(v)) /\ WF_vars(Timeout(v))

BSpec == BInit /\ [][BNext]_vars /\ BFairness

-----------------------------------------------------------------------------
\* A vCPU gets the response to the request it made: no other one, across
\* timeouts, disconnections and reconnections, and that one unless its wait
\* timed out, the bridge shuts down or the connection was lost.  This takes
\* for granted that no other vCPU was inside send_and_wait with it, that no
\* earlier wait on the connection ended without its response, that the
\* connection was not lost between the clearing of the old response and the
\* sending of the request, and that no partial packet is left over: nothing
\* ties a response to a request.
AnswersOwnRequest ==
    [][\A v \in Vcpus :
          Inside(v) /\ cpu'[v] = Guest /\ doubt = {} /\ ~rx_buf =>
              \/ current_resp = req[v]
              \/ /\ current_resp = 0
                 /\ cpu[v].at \in {"send", "late"} \/ ~running \/ via[v] # stream]_vars

\* A vCPU does not wait out its five seconds for a response that cannot come
\* any more: when the connection it used is lost it has been, or is about to
\* be, told (unless another vCPU cleared the news in send_and_wait).
NoOrphanWait ==
    \A v \in Vcpus :
        cpu[v] = [at |-> "wait", on |-> "resp"] /\ "overlap" \notin doubt /\ running
            => via[v] = stream \/ rx = "notify"

\* When the bridge is freed no vCPU is inside send_and_wait: the drain has
\* waited for every vCPU that was counted in.  A vCPU in wait_connected is not
\* counted, and the bridge may be freed under it.
DrainProtects == main \in {"free", "freed"} => \A v \in Vcpus : ~Inside(v)

\* A bridge whose socket is stored when drop interrupts it is freed: the
\* vCPUs leave, the receive thread ends, and nobody waits for the big lock
\* that the waiting main thread holds.
DropFromConnected == main = "interrupt" /\ stream # 0 ~> main = "freed"
=============================================================================
