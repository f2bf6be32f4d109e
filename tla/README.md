# A TLA+ model of virtmcu

virtmcu runs several QEMU nodes as one deterministic, discrete-event
simulation. A *time authority* grants virtual time in quanta. In every QEMU a
*clock device* stops the guest at the end of its quantum. A *coordinator*
collects the frames that the nodes sent in a quantum, waits until all nodes have
finished it, sorts and delivers the frames, and starts the next quantum. Around
this core each node has *devices* (UART, network, CAN, LIN, FlexRay, radio, SPI,
panel, actuator, telemetry), *transports* that carry their traffic over Zenoh or
Unix sockets, and *bridges* to models in other processes. This directory models
these parts, checks them with TLC and proves part of the result with TLAPS.

## Inventory

| Part | Source | Module |
|---|---|---|
| quantum barrier | `tools/deterministic_coordinator/src/barrier.rs` | `CoordMessage`, `QuantumBarrier`, `OrderedBarrier`, `RoundBarrier` |
| coordinator event loop, delivery | `tools/deterministic_coordinator/src/main.rs` | `Coordinator` |
| topology graph | `tools/deterministic_coordinator/src/topology.rs` | `Topology` |
| older coordinator | `tools/zenoh_coordinator` | `ZenohCoordinator` |
| clock device, Unix clock socket | `hw/rust/backbone/clock`, `virtmcu-api` | `ClockDevice`, `ClockSocket` |
| time authority, harness | `tools/testing/virtmcu_test_suite/` | actions `Step`, `Request`, `Continue` |
| transports, hub, subscriptions | `transport-zenoh`, `transport-unix`, `transport_hub`, `virtmcu-qom/src/sync.rs` | `DataTransport` |
| co-simulation bridges | `virtmcu-qom/src/cosim.rs`, `remote-port`, `mmio-socket-bridge` | `CoSimBridge` |
| SystemC adapter | `tools/systemc_adapter/main.cpp` | `SystemCAdapter` |
| network backend, CAN host | `comms/netdev`, `comms/canfd` | `FrameRx`, `TxThread` |
| UART | `comms/chardev` | `UartRx`, `TxThread` |
| LPUART, radio, FlexRay, SPI | `mcu/s32k144-lpuart`, `comms/ieee802154`, `comms/flexray`, `comms/spi` | `Lpuart`, `Ieee802154`, `FlexRay`, `SpiDevice` |
| actuator, telemetry and logger, panel | `observability/*`, `virtmcu-qom/src/telemetry.rs` | `TxThread`, `Telemetry`, `UiPanel` |

`PROJECT.json` lists every part, modelled or not, with the reason, every mapped
definition with its source lines, and the hazards with the properties that cover
them.

## Modules

### Simulation core

**`CoordMessage`** has the messages and `Ord for CoordMessage`. Protocol, base
topic and payload are one number, `body`: nothing in the barrier looks inside
them. `Vec::sort` is a stable sort by rank.

**`QuantumBarrier`** has one variable per field of the barrier and one action
per outcome of `submit_done`, plus `set_quantum` and `reset`. Every operation
holds the mutex throughout, so it is one action. The callers are unconstrained.
History variables record which DONEs were accepted and what was returned.

**`OrderedBarrier`** gives the barrier the callers of a simulation: each node
reports its quanta in order, at most one ahead, and a DONE may be repeated. Its
messages come from a fixed `workload` and arrive in any order.

**`RoundBarrier`** is the abstract specification: nodes finish quanta one after
the other, and a quantum opens when the slowest node has finished it.
`OrderedBarrier` (slack 2), `Coordinator` and `ZenohCoordinator` (slack 1)
implement it.

**`Topology`** has the routing decision: who gets how many copies of a message.
`from_yaml` says which links and radios of a world file are loaded and which
files are refused; `MCCoordinator` takes its links from such a file.

**`Coordinator`** composes `QuantumBarrier` and `Topology` with the nodes, the
time authority and the channels. Each arm of `tokio::select!` is an action
(`HandleTx`, `HandleControl`, `HandleDone`) with all that the arm does.
Time is counted in quanta, and each node has one device that transmits.

**`ZenohCoordinator`** is the older coordinator with its nodes. Each bus has a
subscription and an action (`HandleEth`, `HandleUart`, ...), and so have DONE,
link control and node positions. Where a frame goes depends on the command line
(`mode`), on the nodes learned so far, on the links of the world file and, for
radio, on positions. Signal strength is a constant relation between places.

**`ClockDevice`** is one node's clock: the vCPU hook, the worker thread, the main
thread that finalizes the device, and the time authority. A step accesses at
most one shared variable that another thread writes. **`ClockSocket`** is its
transport over a Unix socket, where a request arrives in pieces and a read may
time out between two of them.

### Transports and bridges

**`DataTransport`** follows a payload from the device that publishes it through
the publisher's bounded channel and thread, the Zenoh session or the Unix router,
the receive thread, and the subscription with its timer and the big QEMU lock
(BQL), to the callback. Both ends may be finalized at any time, and the hub that
owns the transport may fail or go first.

**`CoSimBridge`** has the vCPUs inside `send_and_wait` or `wait_connected`, the
receive thread with reconnection, the main thread inside `Drop`, and the peer. A
wait may time out at any moment, answers may come late, and the connection may
be lost between any two steps. Both transports are instances of `kind`.
**`SystemCAdapter`** is a peer in detail: socket thread, kernel thread with its
wake-up flag, register file, CAN controller and shared medium.

### Devices

Callbacks and timers of a device run with the big lock, so each is one action.
Virtual time does not pass the deadline of an armed timer.

- **`FrameRx`**: channel, heap, timer and backlog of the network backend and the
  CAN host, with admission control.
- **`UartRx`**: the same for bytes, with a baud timer, flow control and bursts.
- **`TxThread`**: FIFO, channel, collecting buffer and thread of the devices that
  publish from a thread of their own, and their teardown.
- **`Lpuart`**: status and control registers, FIFOs, both timers, reset.
- **`Ieee802154`**: CSMA backoff, transmission, acknowledgement, receive queue,
  address filter and registers.
- **`FlexRay`**: message RAM, transfers, cycle timer and receive filter.
- **`SpiDevice`**: transfers that wait for an answer of the remote device without
  the big lock, and chip-select events.
- **`UiPanel`**: LED and button registers, one subscription per button.
- **`Telemetry`**: trace events of vCPUs, and the logger thread with its count of
  lost messages.

The `MC*` modules and `.cfg` files instantiate these for TLC. `ClockDevice`,
`CoSimBridge` and `TxThread` need no `MC` module. `MCDevices` puts the devices
side by side: the initial state picks one, and only that one moves. Its
properties (`InOrder`, `CountersExact`, `NothingForgotten`, `InterruptsFollow`)
are families: each device states its own under the name that `MCDevices` cites.

## Runs

Passing runs:

| Run | Shows | Bounds |
|---|---|---|
| `barrier` | with any callers, what is returned is the canonical batch of its quantum, and the buffers hold exactly what was accepted | 2 nodes and an id out of bounds, quanta 0..2, batches of 0, 1 and 3 messages under a limit of 2 |
| `ordered_barrier` | no wedge, the result is a function of the workload, the abstract barrier is implemented, all quanta are released | 2 nodes, 3 quanta, a limit of 1 with a burst of 2 |
| `coordinator` | no frame is lost, early or out of order; nodes and start tokens keep lockstep; the abstract barrier is implemented | 2 nodes, 3 quanta, a wire and a CAN bus whose later payloads sort first, delay 0 or 1 |
| `routing` | links that are down or undeclared carry nothing, and the simulation runs to its end | 2 nodes, 2 quanta, an uncounted sender, a switched link, unicast, `--no-pdes` |
| `relay` | the older coordinator loses nothing, is never wedged, delivers nothing ahead of time and implements the abstract barrier | 2 nodes, 2 quanta, 2 and 1 frames, each of 6 buses, 3 command lines, one change of a link or position, a limit of 1 |
| `clock` | the guest never runs ahead, OK means executed, no use after free, every request is answered, finalize returns | 4 requests of 1 or 2 units after the first of 0, with and without icount and coordinator, drift 1, watchdog threshold 1 |
| `cosim` | a vCPU gets its own answer, does not wait on a lost connection, is drained before the bridge is freed; drop ends | 2 vCPUs, both bridges, 2 requests, 2 connections, 1 interrupt message |
| `transport` | payloads are called back in order, accounted for, not stranded, not late; drops return | 3 payloads on 2 topics, channel of 1, Zenoh with either subscription and Unix |
| `devices` | traffic in order, exact counters, nothing forgotten, interrupts follow the state, no cell is borrowed twice | per device 3 or 4 frames in 3 to 5 instants with ties, queues of 1 or 2, 1 or 2 guest commands |

Two nodes are enough for a barrier to be incomplete, complete and in lookahead,
and to tie two sources. Three quanta let a late frame and a delayed frame
cross a release. Four requests let a stall, its aftermath and a shutdown follow
each other in the clock. Two vCPUs and two connections let an answer of one meet
the request of the other, and of an old connection that of a new one. Queues of 1
or 2 fill with the traffic offered, and the frames of a device contain a pair
with equal times and one that overtakes another.

Every property is tested against at least one slip in the code that it is about
(`mutants` in `PROJECT.json`): with the slip in place TLC finds the property
violated. For the families of `devices` there is a slip in every larger device.

Some properties name the cases in which the code does not keep them. Where the
model reaches such a case a history variable records it, and the property excepts
what that variable marks.

- `DownLinksAreSilent` speaks of a simulation without a topology file. With one,
  `deliver_message` does not consult the drop list for a broadcast. No document
  says what should happen.
- `PerSenderOrder` excepts frames that the coordinator holds without a number for
  the same instant and releases together. The TX arm reads no sequence number of
  LIN frames and neither number nor time of CAN and FlexRay frames, so that the
  sort falls back on their payload. `--delay-ns` makes the delay itself the time
  of an untimed frame: of such a frame `NeverEarly` asks only that the quantum in
  which it was sent is over.
- `DropTerminates` and `EveryRequestAnswered` except a coordinated worker that
  awaits a start token (`AwaitsStart`): it waits without a timeout and shutdown
  does not wake it.
- `DrainProtects` speaks of the vCPUs inside `send_and_wait`. A vCPU in
  `wait_connected` is not counted by the drain, and the bridge may be freed under
  it, although `docs/architecture/06-peripheral-subsystem.md:33` speaks of
  "strictly avoiding Use-After-Free".
- `AnswersOwnRequest` excepts a vCPU that shared the bridge with another, that
  follows a timed-out request, or whose connection changed under it (`doubt`),
  and a Remote Port packet left half-read (`rx_buf`): nothing ties a response to
  a request.
- `DropFromConnected` starts from a bridge that is connected. One that is still
  connecting is not interrupted by `Drop`.
- `Conserved` counts what a failing put, or a Unix write that ends its thread,
  loses (`failed`) beside what the full queue drops: the code logs the first and
  says nothing of the second.
- `InOrder` speaks of frames that arrived before their delivery time. In the clock
  socket it excepts a stream in which a timeout struck within a request (`torn`):
  `read_exact` cannot resume. FlexRay frames keep the order of arrival, and not
  that of time.
- `CountersExact` counts the reports of lost log messages that are lost
  themselves (`unsaid`). In the UART, `max-backlog` bounds the bytes that wait for
  their time and not the backlog proper, although `apply_zenoh_qapi.py:160` calls
  it the "Maximum number of bytes in the RX backlog".
- `NothingForgotten` excepts, in the SystemC adapter, the window between the
  kernel's look at `woken` and its sleep (`missed`), and in the LPUART what a
  reset strands (`stranded`).
- `InterruptsFollow` excepts two things in the LPUART: setting `LBKDIE` does not
  update the interrupt line, and `lpuart_reset` writes 0xC0000000 to STAT, which
  has neither TDRE nor TC, without a call of `update_irqs` (`just_reset`). In the
  SystemC adapter it excepts an interrupt raised while no QEMU has shaken hands
  (`unheard`); one that is written between accept and the answer to the handshake
  is read by QEMU in its place (`spoilt`). In the panel it excepts a button whose
  subscription failed (`deaf`): the button is in the map and is not tried again.
- `DataTransport` and `FlexRay` record in `dangling` that a timer fires on a freed
  subscription or controller: a receive thread kicks the timer after the drop has
  cancelled it, and `flexray_instance_finalize` leaves the receive timer alone.

Three runs show where the code and a statement about it disagree. `findings` in
`PROJECT.json` quotes the statements.

- `done_race`: frames and DONEs travel on separate channels. A DONE that
  overtakes its frames releases the quantum without them, so a peer sees them a
  quantum late. `coordinator` shows that they are not lost.
- `clock_zero`: a request of 0 ns in the middle of a run is answered before the
  vCPU reads its length. The next request replaces the length, and the guest
  runs that quantum twice.
- `tx_join`: the teardown of three devices joins the transmit thread while it
  holds the lock that the thread takes in each round. If the thread has not seen
  `running` cleared by then, neither goes on.

The passing runs assume two things about the surroundings:

- Nodes report their quanta in order. If the DONEs of all nodes for the next
  quantum came before the last one of the current quantum, the promoted quantum
  would be complete and never released; `NeverWedged` shows that in-order nodes
  do not get there.
- The node is started as the `Simulation` harness does it: frozen, with a first
  request of 0 ns. The backend is in `Waiting` before any vCPU waits, so that a
  nonzero first quantum could be answered without being executed.

## Fairness

`OFairness` and `CFairness` say that a node with a quantum to run finishes it,
that the time authority steps on, and that the publisher threads and the select
loop serve each channel (Zenoh is taken to be reliable, as the code does).
`KFairness` says that the worker, the main thread and a vCPU inside the hook are
scheduled. It does not say that the guest runs: it may be stopped or never
continued, and `EveryRequestAnswered` then rests on the worker's timeouts.

`BFairness` (bridge) says that threads are scheduled, that the big lock is handed
on, that timeouts expire and that the adapter answers the hello; the adapter need
not answer a request. `DFairness` (transport) and `TSpec` (transmit thread) say
that threads and the main loop are scheduled, and nothing of the devices. The
devices and `ZenohCoordinator` are checked for safety only: `NothingForgotten`
and `RelayNeverWedged` say that some step is always there to be scheduled.

`CHECK_DEADLOCK FALSE` stands where the bounds end the behaviour or the process
really stops.

## Proofs

TLC checks the instances above; the theorems hold for every value of the
constants. `PROJECT.json` lists them.

| Module | Proves | Of |
|---|---|---|
| `QuantumBarrierProofs` | the order of messages is strict and total, the sort a sorted rearrangement; `TypeOK`, `ReleaseIsComplete`, `BuffersHoldAccepted` | any callers, nodes, limit, batches |
| `OrderedBarrierProofs` | `ReleaseIsCanonical`; with ordered callers `NeverWedged`, `Deterministic`, `RefinesRoundBarrier` | any workload and number of quanta |
| `ClockDeviceProofs` | `KTypeOK`, `NeverAhead`, `OkMeansExecuted`, `NoUseAfterFree` | any quanta, requests and watchdog threshold |
| `FrameRxProofs` | `NoSecondBorrow`, `OnTimeInOrder`, `CountExact`, `NoFrameForgotten` | any frames, times and backlog limit, either device |
| `CoSimBridgeProofs` | `DrainProtects`, `NoOrphanWait`, `AnswersOwnRequest` | any vCPUs, requests and connections |
| `DataTransportProofs` | `CalledInOrder`, `Conserved`, `NoStrandedPayload`, `NoLateCallback` | any capacity, payloads, topics, either transport |

The assumptions are the named ones of the modules (`BarrierAssumption`,
`ClockAssumption`, `FrameAssumption`, `BridgeAssumption`, `TransportAssumption`).
They give constants their types and say that sets of nodes and vCPUs are finite.
TLC evaluates them in the runs. `ClockNeverAhead` and `ClockOkMeansExecuted` have
a hypothesis more, `Harnessed`: frozen boot, a first quantum of 0 ns, positive
ones later. `clock_zero` shows that it is needed.

**Barrier.** `BarrierInv` is `TypeOK`, `ReleaseIsComplete` and
`BuffersHoldAccepted`: that a released batch is complete follows from what the
buffers and flags held before. For `ReleaseIsCanonical` the reference collects
the batches node after node; both sides are cut down to the first n nodes and
compared by induction over n. That needs that two arrangements of the same
messages sort alike, which is proved by induction over the positions.
`OrderedInv` adds `OrderInv`: a node has a DONE taken exactly for each quantum
that it has reported, with the batch of its workload. A full quantum that is
not released would then have to be one whose DONEs all came in lookahead, and
the node that opened the barrier last was not there.

**Clock.** `ClockInv` has four parts next to the types: `Placed` (what each thread
knows where it is), `Frozen` (nothing moves before the first quantum is
answered), `Causal` (a grant that can still be taken lies within what was asked
for, and none can be taken while the worker is between two grants) and `Exact`
(as long as no stall is pending, asked and executed time agree).
`ClockNoUseAfterFree` holds however the node is driven, from an invariant of its
own (`Teardown`).

**Receive path.** `RxInv` keeps channel, heap and network apart (`WaitingInv`). The
timer is armed whenever something waits or `earliest_vtime` is set (`TimerInv`):
that value may be old, but it never keeps a frame from arming a timer. What the
guest has got was due (`DueInv`), and earlier than whatever still waits and came in
time (`LaterInv`): this is what carries the order from one callback of the timer
to the next.

**Bridge.** `DrainInv` counts the vCPUs inside the bridge; the drain waits for the
count, and whoever comes later is refused. `LinkInv` ties the stored stream to
the place of the receive thread and of every vCPU, `WaitInv` says that whoever
waits on a lost connection is about to hear of it, and `ReplyInv` that, with
nothing in doubt, at most one request is open and its answer comes next.

**Transport.** The eight queues and hands between publisher and callback are one
line in `TransInv`: the payloads in it are in the order of publication (`Chain`),
each queue is used only where the connection has it (`Places`), and the lengths
add up to what was sent (`Counted`).

Only model-checked: the liveness properties (`AllQuantaReleased`, `RunsToTheEnd`,
`EveryRequestAnswered`, `DropTerminates`, `DropFromConnected`, `DropsReturn`), since
TLAPS does no reasoning about fairness here (the refinements need none:
`RoundBarrier!Spec` is a safety specification); and `InOrder`, `CountersExact`,
`NothingForgotten` and `InterruptsFollow` of `MCDevices`, each of which collects one
statement of every device. Those of `FrameRx` are proved, those of the other devices
are not: each of them would need an invariant of its own. The properties of the
coordinators beyond their barriers (`coordinator`, `routing`, `relay`) are
model-checked as well.

Induction over data is done with sets: the least element of a set of natural
numbers exists by the well-foundedness of `<`, and a claim for all numbers is
refuted at the least one that violates it (`LeastExists`, `SetInduction`).

## Abstractions

- With icount a translation block takes one unit of time, so that the guest stops
  exactly at its boundary. Without it (slaved-suspend) virtual time flows by
  itself, also while a hook waits, and may pass the boundary by `MaxDrift`.
- After the watchdog's abort the process is gone; the model lets the vCPU go on,
  which can only add behaviours.
- Positions of nodes are constant in `Coordinator`: nothing there updates them.
  The links are the constant that `from_yaml` yields; `main` exits when it fails.
- Payloads that cannot be parsed are skipped by the code and are not sent in the
  models. Nodes send well-formed DONEs.
- Frames of a sender stay in order in `Coordinator`. What the bounded queues of
  the publishers drop is in `DataTransport` and not composed with it.
- Virtual time of a device is a handful of instants; rates and delays are small
  numbers of them. Register bits that no other code looks at are left out.
- A critical section that yields nowhere is one action.

## Not modelled

- Wire formats and generated FlatBuffers code: packing without state.
- QOM bindings, registration and properties: declarations for C.
- Message log and topic names: output and strings. Of the world file, `Topology`
  has what decides on nodes and links, and not the parsing of YAML.
- Cyber-physical bridge: interpolation over floating-point numbers, which TLC
  has not.
- Wi-Fi device: its registers do nothing.
- Platform tools in Python: file conversion at build time.
- `virtmcu-qom/src/sync.rs`: `BqlGuarded`, statistics and mocks of the tests,
  beyond the double borrow that `FrameRx` records.
