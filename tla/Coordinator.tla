---------------------------- MODULE Coordinator ----------------------------
(***************************************************************************)
(* A coordinated simulation: the time authority grants quanta, the nodes   *)
(* run them, publish frames and DONE signals, and the deterministic        *)
(* coordinator's event loop (tools/deterministic_coordinator/src/main.rs)  *)
(* feeds the quantum barrier, delivers what it releases and starts the     *)
(* nodes again.                                                            *)
(*                                                                         *)
(* Frames and DONE signals leave a node through two publisher threads and  *)
(* reach the coordinator on two channels, between which tokio::select!     *)
(* picks freely: each has an order of its own and none with the other.     *)
(*                                                                         *)
(* Time is counted in quanta.  A frame sent in quantum q leaves the device *)
(* with vtime q, which is also the limit of the DONE that ends it.  A node *)
(* has one device that transmits, and numbers its frames.  How much of     *)
(* this the coordinator reads depends on the protocol: see Received.       *)
(***************************************************************************)
EXTENDS QuantumBarrier, Topology

CONSTANTS
    Outsiders,    \* senders the barrier does not count (id >= --nodes)
    Device,       \* Device[i]: the bodies of the frames of i in their order,
                  \* and a bound: it sends no more than these
    Settings,     \* the command lines to consider: --delay-ns (in quanta),
                  \* --no-pdes, and whether --topology loads a topology
    Attachments,  \* Attachments[n]: what node n may put into a DONE
    SwitchLinks,  \* the pairs whose link the control topic switches
    MaxSends,     \* bound: frames of a sender in a quantum
    LastQuantum   \* bound: the time authority stops after this quantum

Ids == Nodes \cup Outsiders

\* The frames whose sequence number the legacy TX arm reads: those of LIN, CAN
\* and FlexRay get 0.  Of these LIN alone gives its time.
Sequenced(m) == Protocol[m.body] \notin {"lin", "canfd", "flexray"}
Timed(m) == Protocol[m.body] \notin {"canfd", "flexray"}

ASSUME CoordinatorAssumption ==
    /\ Outsiders \subseteq Nat /\ Outsiders \cap Nodes = {}
    /\ Broadcast \in Nat \ Ids
    /\ Device \in [Ids -> Seq(Nat)]
    /\ \A i \in Ids : \A j, k \in DOMAIN Device[i] :
          \* The payload of a frame without a number is a FlatBuffer with the
          \* time of sending in it: no two are the same.
          j # k /\ ~Sequenced([body |-> Device[i][j]]) => Device[i][j] # Device[i][k]
    /\ Settings \subseteq [delay : Nat, no_pdes : BOOLEAN, is_explicit : BOOLEAN]
    /\ Attachments \in [Nodes -> SUBSET Seq(Message)]
    /\ \A n \in Nodes : \A msgs \in Attachments[n] : \A k \in DOMAIN msgs :
          \* A frame has a base_topic, an attached message none.
          \A i \in Ids : \A j \in DOMAIN Device[i] : msgs[k].body # Device[i][j]
    /\ IsFiniteSet(Links)
    /\ SwitchLinks \subseteq Ids \X Ids
    /\ MaxSends \in Nat
    /\ LastQuantum \in Nat

VARIABLES
    ta_quantum,    \* quantum_number of the time authority
    phase,         \* phase[n]: "idle", "running" or "parked" in start_rx.recv()
    start_rx,      \* start_rx[n]: the start tokens waiting for node n
    tx_chan,       \* tx_chan[i]: frames of sender i on their way
    done_chan,     \* DONE signals on their way
    loop_quantum,  \* current_quantum of the event loop
    node_batches,  \* node_batches[i]: frames of i that wait for a DONE
    seen_nodes,
    delay,         \* args.delay_ns
    no_pdes,       \* args.no_pdes
    sent,          \* history: every frame sent
    inbox          \* inbox[i]: what was put on the rx topics of i, in order

nodes == <<ta_quantum, phase>>
channels == <<start_rx, tx_chan, done_chan>>
loop == <<loop_quantum, node_batches, seen_nodes>>
args == <<delay, no_pdes>>
record == <<sent, inbox>>
cvars == <<vars, topology, nodes, channels, loop, args, record>>

\* main and the start of run_deterministic_coordinator; nodes wait for the
\* time authority.
CInit ==
    /\ current_quantum = 1 /\ first = 1
    /\ done_count = 0 /\ done_nodes = {} /\ message_buffer = <<>>
    /\ next_quantum_done_nodes = {} /\ next_quantum_buffer = <<>>
    /\ ret = "None" /\ accepted = {} /\ released = <<>>
    /\ \E s \in Settings :
          delay = s.delay /\ no_pdes = s.no_pdes /\ is_explicit = s.is_explicit
    /\ drop_list = {}
    /\ ta_quantum = 0
    /\ phase = [n \in Nodes |-> "idle"]
    /\ start_rx = [n \in Nodes |-> 0]
    /\ tx_chan = [i \in Ids |-> <<>>]
    /\ done_chan = {}
    /\ loop_quantum = 1
    /\ node_batches = [i \in Ids |-> <<>>]
    /\ seen_nodes = Nodes
    /\ sent = {}
    /\ inbox = [i \in Ids |-> <<>>]

-----------------------------------------------------------------------------
\* Plausible slips in the nodes and in the event loop, used to test the
\* properties.

\* The responder polls for the start token instead of waiting for it.
RecvStartPolling(n) ==
    /\ phase[n] = "parked"
    /\ start_rx' = [start_rx EXCEPT ![n] = @ - 1]
    /\ phase' = [phase EXCEPT ![n] = "idle"]
    /\ UNCHANGED <<vars, topology, ta_quantum, tx_chan, done_chan, loop, args, record>>

\* The frames beyond the limit are not put back.
LaterForgotten(batch, limit) == <<>>

\* The limit is ignored.
DueWhole(batch, limit) == batch

\* Every DONE that was taken starts the nodes.
ReleasesOnOk == ret' \in {"Some", "None"}

\* The loop over the nodes begins at 1.
StartAllButFirst(tokens) == [n \in Nodes |-> IF n = 0 THEN tokens[n] ELSE tokens[n] + 1]

-----------------------------------------------------------------------------
(* The time authority and the nodes.                                       *)

\* VirtualTimeAuthority.step: wait for the reply of every node, then grant the
\* next quantum to all of them.
Step ==
    /\ ta_quantum < LastQuantum
    /\ \A n \in Nodes : phase[n] = "idle"
    /\ ta_quantum' = ta_quantum + 1
    /\ phase' = [n \in Nodes |-> "running"]
    /\ UNCHANGED <<vars, topology, channels, loop, args, record>>

\* The device of i sends a frame: a node while it runs, an outsider whenever.
Transmit(i) ==
    /\ i \in Nodes => phase[i] = "running"
    /\ Cardinality({m \in sent : m.src = i /\ m.vtime = ta_quantum}) < MaxSends
    /\ LET k == Cardinality({m \in sent : m.src = i})
           m == [vtime |-> ta_quantum, src |-> i, dst |-> Broadcast,
                 seq |-> k, body |-> Device[i][k + 1]]
       IN  /\ k < Len(Device[i])
           /\ sent' = sent \cup {m}
           /\ tx_chan' = [tx_chan EXCEPT ![i] = Append(@, m)]
    /\ UNCHANGED <<vars, topology, nodes, start_rx, done_chan, loop, args, inbox>>

\* ZenohClockResponder::send_ready up to start_rx.recv().
PublishDone(n) ==
    /\ phase[n] = "running"
    /\ \E msgs \in Attachments[n] :
          done_chan' = done_chan \cup
              {[node |-> n, quantum |-> ta_quantum, limit |-> ta_quantum, msgs |-> msgs]}
    /\ phase' = [phase EXCEPT ![n] = "parked"]
    /\ UNCHANGED <<vars, topology, ta_quantum, start_rx, tx_chan, loop, args, record>>

\* ... and from there: a start token, whatever quantum it was sent for, lets
\* the reply go to the time authority.
RecvStart(n) ==
    /\ phase[n] = "parked"
    /\ start_rx[n] > 0
    /\ start_rx' = [start_rx EXCEPT ![n] = @ - 1]
    /\ phase' = [phase EXCEPT ![n] = "idle"]
    /\ UNCHANGED <<vars, topology, ta_quantum, tx_chan, done_chan, loop, args, record>>

-----------------------------------------------------------------------------
(* The event loop of the coordinator, one action per arm of its select.    *)

\* deliver_message: what node t gets of m.
Delivered(m, t, seen) == [c \in 1 .. Copies(m, t, seen) |-> [m EXCEPT !.dst = t]]

\* ... for each of msgs in turn.
Deliver(msgs, seen) ==
    [t \in Ids |->
        LET upTo[k \in 0 .. Len(msgs)] ==
                IF k = 0 THEN inbox[t] ELSE upTo[k - 1] \o Delivered(msgs[k], t, seen)
        IN  upTo[Len(msgs)]]

\* The message the coordinator makes of a frame: what it reads of the header or
\* of the payload, and 0 for what it does not read; then the delay is added.
Received(m) ==
    [m EXCEPT !.vtime = (IF Timed(m) THEN @ ELSE 0) + delay,
              !.seq = IF Sequenced(m) THEN @ ELSE 0]

\* The legacy TX arm.
HandleTx(i) ==
    /\ tx_chan[i] # <<>>
    /\ tx_chan' = [tx_chan EXCEPT ![i] = Tail(@)]
    /\ seen_nodes' = seen_nodes \cup {i}
    /\ LET m == Received(Head(tx_chan[i]))
       IN  IF no_pdes
           THEN inbox' = Deliver(<<m>>, seen_nodes') /\ UNCHANGED node_batches
           ELSE /\ node_batches' = [node_batches EXCEPT ![i] = Append(@, m)]
                /\ UNCHANGED inbox
    /\ UNCHANGED <<vars, topology, nodes, start_rx, done_chan, loop_quantum, args, sent>>

\* The control arm: TopologyGraph::update_from_json.
HandleControl(a, b) ==
    /\ DropLink(a, b) \/ RestoreLink(a, b)
    /\ UNCHANGED <<vars, nodes, channels, loop, args, record>>

\* The partition of a node's frames at the limit of its DONE.
Due(batch, limit) == Selected(batch, {k \in DOMAIN batch : batch[k].vtime <= limit})
Later(batch, limit) == Selected(batch, {k \in DOMAIN batch : batch[k].vtime > limit})

\* submit_done returned Ok(Some(_)), and with what.
Releases == ret' = "Some"
Released == IF ret' = "Some" THEN Sort(released'[Len(released')]) ELSE <<>>

\* A start token for each node of the barrier.
StartAll(tokens) == [n \in Nodes |-> tokens[n] + 1]

\* The DONE arm: what is due of the node's frames goes into the barrier with
\* what came in the DONE; a released quantum is delivered and started.
HandleDone(d) ==
    /\ d \in done_chan
    /\ done_chan' = done_chan \ {d}
    /\ seen_nodes' = seen_nodes \cup {d.node}
    /\ node_batches' = [node_batches EXCEPT ![d.node] = Later(@, d.limit)]
    /\ SubmitDone(d.node, d.quantum, Due(node_batches[d.node], d.limit) \o d.msgs)
    /\ inbox' = Deliver(Released, seen_nodes')
    /\ IF Releases
       THEN /\ loop_quantum' = loop_quantum + 1
            /\ start_rx' = StartAll(start_rx)
       ELSE UNCHANGED <<loop_quantum, start_rx>>
    /\ UNCHANGED <<topology, nodes, tx_chan, args, sent>>

CNext ==
    \/ Step
    \/ \E i \in Ids : Transmit(i) \/ HandleTx(i)
    \/ \E n \in Nodes : PublishDone(n) \/ RecvStart(n)
    \/ \E p \in SwitchLinks : HandleControl(p[1], p[2])
    \/ \E d \in done_chan : HandleDone(d)

\* The time authority steps on, a node finishes its quantum and takes a start
\* token, the publisher threads and tokio::select! serve every channel.
CFairness ==
    /\ WF_cvars(Step)
    /\ \A i \in Ids : WF_cvars(HandleTx(i))
    /\ \A n \in Nodes :
          /\ WF_cvars(PublishDone(n))
          /\ WF_cvars(RecvStart(n))
          /\ WF_cvars(\E d \in done_chan : d.node = n /\ HandleDone(d))

CSpec == CInit /\ [][CNext]_cvars /\ CFairness

-----------------------------------------------------------------------------
\* Admission control cut the frame: some batch of its sender was full of
\* messages that come before it.
CutByAdmission(m) ==
    \E d \in accepted :
        /\ d.node = m.src
        /\ Len(d.batch) = MaxMessages
        /\ \A i \in DOMAIN d.batch : Before(d.batch[i], Received(m))

\* Where a frame of a barrier node can be.
Whereabouts(m) ==
    {place \in {"network", "parked", "current", "next", "released", "cut"} :
        \/ place = "network" /\ m \in Elements(tx_chan[m.src])
        \/ place = "parked" /\ Received(m) \in Elements(node_batches[m.src])
        \/ place = "current" /\ Received(m) \in Elements(message_buffer)
        \/ place = "next" /\ Received(m) \in Elements(next_quantum_buffer)
        \/ /\ place = "released"
           /\ \E k \in DOMAIN released : Received(m) \in Elements(released[k])
        \/ /\ place = "cut"
           /\ CutByAdmission(m)
           /\ \A d \in accepted : Received(m) \notin Elements(d.batch)
           /\ Received(m) \notin Elements(node_batches[m.src])
           /\ m \notin Elements(tx_chan[m.src])}

\* Every frame a node of the barrier has sent is in exactly one place on its
\* way through the event loop: none vanishes between the channel, the node's
\* batch, the barrier's two buffers and the released batches, and none is
\* held twice, unless the admission control cut it as the last of a full batch.
NothingLost ==
    ~no_pdes => \A m \in sent : m.src \in Nodes => Cardinality(Whereabouts(m)) = 1

\* A frame reaches no inbox before the coordinator has finished the quantum in
\* which it was sent, and one that gives its time not before it has finished the
\* quantum in which it is due: the delay keeps it parked across releases.
NeverEarly ==
    ~no_pdes =>
        \A s \in sent : \A t \in Ids :
            [Received(s) EXCEPT !.dst = t] \in Elements(inbox[t]) =>
                (IF Timed(s) THEN s.vtime + delay ELSE s.vtime) < current_quantum

\* The frame whose message was delivered as m; a frame has a base topic.
Origins(m) == {s \in sent : [Received(s) EXCEPT !.dst = m.dst] = m}

\* The quantum barrier released the two frames in one batch.
ReleasedTogether(a, b) ==
    \E k \in DOMAIN released : {Received(a), Received(b)} \subseteq Elements(released[k])

\* No frame is delivered to a node twice, and the frames of one sender are
\* delivered in the order in which they were sent, however they were parked,
\* delayed or overtaken by the DONE of their own quantum.  The exception are
\* frames without a number that the coordinator holds for the same instant and
\* releases together: it sorts them by their payload.
PerSenderOrder ==
    \A t \in Ids : \A i, j \in DOMAIN inbox[t] :
        \A a \in Origins(inbox[t][i]), b \in Origins(inbox[t][j]) :
            i < j /\ a.src = b.src =>
                \/ a.seq < b.seq
                \/ /\ a.seq > b.seq
                   /\ ~Sequenced(a) /\ Received(a).vtime = Received(b).vtime
                   /\ ReleasedTogether(a, b)

\* The counter of the event loop follows that of the barrier, which it never
\* reads, and a start token is out exactly for each parked node whose quantum
\* is over: none is left behind for a later quantum.
StartsMatchReleases ==
    /\ loop_quantum = current_quantum
    /\ \A n \in Nodes :
          start_rx[n] =
              IF phase[n] = "parked" /\ current_quantum = ta_quantum + 1 THEN 1 ELSE 0

\* No node runs a quantum, and no reply reaches the time authority, before
\* every node has completed the quantum before it; the tokens that let nodes go
\* match the releases.
Lockstep ==
    /\ \A n \in Nodes :
          LET over == IF phase[n] = "idle" THEN ta_quantum ELSE ta_quantum - 1
          IN  \A q \in 1 .. over : Reporters(accepted, q) = Nodes
    /\ StartsMatchReleases

\* What the step delivers to node t.
Arrived(t) == {inbox'[t][i] : i \in Len(inbox[t]) + 1 .. Len(inbox'[t])}

\* Over a link that the control topic took down, in either direction, nothing
\* is delivered while no topology file is loaded.  (With one loaded the drop
\* list is not consulted for a broadcast: see Copies.)
DownLinksAreSilent ==
    [][~is_explicit =>
        \A t \in Ids : \A m \in Arrived(t) :
            <<m.src, t>> \notin drop_list /\ <<t, m.src>> \notin drop_list]_cvars

\* With a topology loaded, a message goes from one node to another only over
\* a link, or within a radio range, that the world file declares for them.
OnlyDeclaredLinks ==
    [][is_explicit =>
        \A t \in Ids : \A m \in Arrived(t) :
            \/ Protocol[m.body] \in Radio /\ <<m.src, t>> \in InRange
            \/ Joining(m.src, t, Protocol[m.body]) # {}]_cvars

\* A node that runs a quantum has been sent every frame its peers sent in the
\* quanta before it (no delay, no topology file, all links up).
SeesAllPeers ==
    delay = 0 /\ ~is_explicit /\ drop_list = {} /\ ~no_pdes =>
        \A n \in Nodes : phase[n] = "running" =>
            \A m \in sent : m.src \in Nodes \ {n} /\ m.vtime < ta_quantum =>
                [Received(m) EXCEPT !.dst = n] \in Elements(inbox[n])

\* The barrier as the nodes meet it.  They wait for the start token, so a
\* slack of one is enough: a coordinated simulation never uses the lookahead.
Rounds == INSTANCE RoundBarrier WITH
    Node <- Nodes,
    Slack <- 1,
    finished <- [n \in Nodes |-> Cardinality({d \in accepted : d.node = n})],
    opened <- current_quantum - 1

\* The simulation advances round by round, as the abstract barrier does.
RefinesRounds == Rounds!Spec

\* The whole simulation runs to its last quantum and every node has replied.
RunsToTheEnd ==
    <>(ta_quantum = LastQuantum /\ \A n \in Nodes : phase[n] = "idle")
=============================================================================
