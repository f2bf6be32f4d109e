-------------------------- MODULE ZenohCoordinator --------------------------
(***************************************************************************)
(* The older coordinator (tools/zenoh_coordinator): one event loop that    *)
(* routes the frames of every bus by topic, learned peers, declared links  *)
(* or radio range, and, with --pdes, holds them until all nodes are done   *)
(* with the quantum.  Its barrier keeps any number of quanta.              *)
(*                                                                         *)
(* Each bus has a subscription of its own and so has DONE; tokio::select!  *)
(* takes them in any order.  Nodes run a quantum, report it and wait for   *)
(* START.                                                                  *)
(***************************************************************************)
EXTENDS CoordMessage

CONSTANTS
    RelayNodes,   \* the ids 0 .. --nodes - 1
    Buses,        \* buses to look at, of {"eth", "uart", "lin", "sysc", "rf", "coord"}
    Modes,        \* command lines: [pdes |-> , explicit |-> , wireless |-> ]
    WireLinks,    \* links of the world file: [protocol |-> , nodes |-> ]
    Places,       \* positions a node may have
    DefaultPlace, \* where the loop puts nodes of topics without a prefix at first
    WorldPlace,   \* where the world file puts the nodes of the medium
    Near,         \* pairs of places in the same or in adjacent cells of the grid ...
    Audible,      \* ... whose signal arrives above the sensitivity ...
    WithinRange,  \* ... and within max_wireless_range_m
    LinkUpdates,  \* what sim/network/control may set: <<pair of nodes, [delay |-> , drop |-> , jitter |-> ]>>
    max_messages_per_node, \* max_messages_per_node_per_quantum
    MaxMoves,     \* bound: messages on the control and position topics
    MaxFrames,    \* bound: frames of each node
    LastQuantum   \* bound: the nodes stop after this quantum

ASSUME RelayAssumption ==
    /\ RelayNodes \subseteq Nat /\ IsFiniteSet(RelayNodes) /\ RelayNodes # {}
    /\ \A l \in WireLinks : l.nodes \subseteq RelayNodes
    /\ LinkUpdates \subseteq (RelayNodes \X RelayNodes) \X [delay : Nat, drop : BOOLEAN, jitter : Nat]
    /\ Near \subseteq Places \X Places /\ Audible \subseteq Near /\ WithinRange \subseteq Places \X Places
    /\ max_messages_per_node \in Nat /\ MaxMoves \in Nat /\ MaxFrames \in [RelayNodes -> Nat] /\ LastQuantum \in Nat

NoPlace == "none"
DefaultLink == [delay |-> 0, drop |-> FALSE, jitter |-> 0] \* args.delay_ns, no loss

VARIABLES
    bus, mode,
    node_quantum, waiting,   \* of each node: its quantum, and whether it waits for START
    frames, done_topic, start_topic, \* what is on the topics: frames of each node in order, ...
    sent_frames,             \* history: the quanta in which each node sent its frames
    known,                   \* nodes learned on the bus
    topo,                    \* LinkState of each pair of nodes
    pos, tgpos,              \* node_positions of the loop and of the topology graph
    moves,
    batches,                 \* batches[n]: messages waiting for the DONE of n
    current,                 \* current_quantum
    quanta,                  \* quanta[q]: the nodes done with q, and their messages
    published,               \* history: messages on the rx topics, in order
    routed, cut              \* history: messages routed; cut off by max_messages

relay == <<known, topo, pos, tgpos, moves, batches, current, quanta>>
nodevars == <<node_quantum, waiting, sent_frames>>
topics == <<frames, done_topic, start_topic>>
zvars == <<bus, mode, nodevars, topics, relay, published, routed, cut>>

\* TopologyGraph::from_yaml: a world file without a medium places no node.
WorldPositions == [n \in RelayNodes |-> IF mode.wireless THEN WorldPlace[n] ELSE NoPlace]

ZInit ==
    /\ bus \in Buses /\ mode \in Modes
    /\ node_quantum = [n \in RelayNodes |-> 1] /\ waiting = [n \in RelayNodes |-> FALSE]
    /\ frames = [n \in RelayNodes |-> <<>>] /\ done_topic = {}
    /\ start_topic = [n \in RelayNodes |-> 0]
    /\ sent_frames = [n \in RelayNodes |-> <<>>]
    /\ known = {} /\ topo = [p \in RelayNodes \X RelayNodes |-> DefaultLink]
    /\ pos \in {[n \in RelayNodes |-> p] : p \in {DefaultPlace, NoPlace}}
    /\ tgpos = WorldPositions
    /\ moves = 0
    /\ batches = [n \in RelayNodes |-> <<>>] /\ current = 1
    /\ quanta = [q \in 1 .. LastQuantum |-> [done |-> {}, msgs |-> <<>>]]
    /\ published = <<>> /\ routed = {} /\ cut = {}

-----------------------------------------------------------------------------
\* Plausible slips, used to test the properties.

\* The batch is taken out of the map and a batch that does not complete the
\* quantum is forgotten.
MessagesOfLastOnly(q, msgs) == msgs

\* The barrier opens when all nodes but one are done.
CompleteButOne(done) == Cardinality(done) >= Cardinality(RelayNodes) - 1

\* The arm of a bus does not ask whether there is a barrier.
DispatchAtOnce(n, msgs) == published' = published \o msgs /\ UNCHANGED batches

\* START goes to the nodes that are done with a later quantum only.
StartNobody == start_topic

-----------------------------------------------------------------------------
(* The nodes.                                                              *)

\* A device publishes a frame; its time is the quantum it was sent in.
SendFrame(n) ==
    /\ ~waiting[n] /\ node_quantum[n] <= LastQuantum /\ Len(sent_frames[n]) < MaxFrames[n]
    /\ sent_frames' = [sent_frames EXCEPT ![n] = Append(@, node_quantum[n])]
    /\ frames' = [frames EXCEPT ![n] = Append(@, [vtime |-> node_quantum[n], seq |-> Len(sent_frames[n]) + 1])]
    /\ UNCHANGED <<bus, mode, node_quantum, waiting, done_topic, start_topic, relay, published, routed, cut>>

\* The clock of the node reports the quantum, and goes on at START.
SendDone(n) ==
    /\ ~waiting[n] /\ node_quantum[n] <= LastQuantum /\ mode.pdes
    /\ done_topic' = done_topic \cup {[node |-> n, quantum |-> node_quantum[n]]}
    /\ waiting' = [waiting EXCEPT ![n] = TRUE]
    /\ UNCHANGED <<bus, mode, node_quantum, sent_frames, frames, start_topic, relay, published, routed, cut>>
GetStart(n) ==
    /\ waiting[n] /\ start_topic[n] = node_quantum[n] + 1
    /\ node_quantum' = [node_quantum EXCEPT ![n] = start_topic[n]]
    /\ waiting' = [waiting EXCEPT ![n] = FALSE]
    /\ UNCHANGED <<bus, mode, sent_frames, topics, relay, published, routed, cut>>

-----------------------------------------------------------------------------
(* Where a frame goes.                                                     *)

\* TopologyGraph::get_wire_peers, is_link_allowed, rf_neighbors.
WirePeers(n, protocol) ==
    (UNION {l.nodes : l \in {k \in WireLinks : k.protocol = protocol /\ n \in k.nodes}}) \ {n}
LinkAllowed(a, b, protocol) ==
    ~mode.explicit \/ \E l \in WireLinks : l.protocol = protocol /\ {a, b} \subseteq l.nodes
RfNeighbors(n) ==
    {t \in RelayNodes \ {n} : tgpos[n] # NoPlace /\ tgpos[t] # NoPlace /\ <<tgpos[n], tgpos[t]>> \in WithinRange}

\* On a wire (handle_eth_msg, handle_uart_msg, handle_lin_msg, handle_sysc_msg): the
\* declared peers, or whoever has sent on the bus; a frame for SystemC asks for
\* the peers on SPI and for nothing else.
WireProtocol == IF bus = "sysc" THEN "spi" ELSE bus
WireDests(n, heard) ==
    {t \in IF mode.explicit THEN WirePeers(n, WireProtocol) ELSE heard \ {n} :
        bus = "sysc" \/ LinkAllowed(n, t, bus)}

\* handle_rf_msg: candidates of the SpatialGrid, narrowed by the declared medium
\* and by the signal strength.
Candidates(n, heard) ==
    IF pos[n] = NoPlace THEN heard \ {n}
    ELSE {t \in RelayNodes \ {n} : pos[t] # NoPlace /\ <<pos[n], pos[t]>> \in Near}
Strong(n, t) == pos[n] = NoPlace \/ pos[t] = NoPlace \/ <<pos[n], pos[t]>> \in Audible
RfDests(n, heard) ==
    {t \in Candidates(n, heard) :
        /\ mode.explicit => mode.wireless /\ t \in RfNeighbors(n)
        /\ Strong(n, t)}

\* The messages a frame becomes.  Ethernet and UART lose frames and add jitter
\* as the link says; LIN messages carry no sequence number.
RelayMessage(n, f, t, extra) ==
    [vtime |-> f.vtime + extra, src |-> n, dst |-> t,
     seq |-> IF bus = "lin" THEN 0 ELSE f.seq, body |-> f.seq]
Lossy == bus \in {"eth", "uart"}
Delays(n, t) ==
    LET l == topo[<<n, t>>]
    IN  IF bus \in {"rf", "coord"} THEN {0}
        ELSE IF Lossy THEN l.delay .. l.delay + l.jitter ELSE {l.delay}

-----------------------------------------------------------------------------
(* The arms of the event loop.                                             *)

\* The elements of a set, one after the other.
InSomeOrder(S) == CHOOSE s \in [1 .. Cardinality(S) -> S] : \A i, j \in DOMAIN s : s[i] = s[j] => i = j

\* A batch for the DONE of the sender, or to the rx topics at once.
Dispatch(n, msgs) ==
    IF mode.pdes
    THEN batches' = [batches EXCEPT ![n] = @ \o msgs] /\ UNCHANGED published
    ELSE published' = published \o msgs /\ UNCHANGED batches

\* An arm of a bus topic: the sender becomes known and the frame is routed to
\* dests.
HandleFrame(n, dests) ==
    /\ frames[n] # <<>>
    /\ frames' = [frames EXCEPT ![n] = Tail(@)]
    /\ known' = known \cup {n}
    /\ LET f == Head(frames[n])
       IN  \E lost \in SUBSET {t \in dests : Lossy /\ topo[<<n, t>>].drop} :
           \E extra \in [dests -> UNION {Delays(n, t) : t \in dests}] :
               /\ \A t \in dests : extra[t] \in Delays(n, t)
               /\ LET msgs == {RelayMessage(n, f, t, extra[t]) : t \in dests \ lost}
                  IN  Dispatch(n, InSomeOrder(msgs)) /\ routed' = routed \cup msgs
    /\ UNCHANGED <<bus, mode, nodevars, done_topic, start_topic, topo, pos, tgpos, moves, current,
                   quanta, cut>>
HandleEth(n) == bus = "eth" /\ HandleFrame(n, WireDests(n, known \cup {n}))
HandleUart(n) == bus = "uart" /\ HandleFrame(n, WireDests(n, known \cup {n}))
HandleLin(n) == bus = "lin" /\ HandleFrame(n, WireDests(n, known \cup {n}))
HandleSysc(n) == bus = "sysc" /\ HandleFrame(n, WireDests(n, known \cup {n}))
HandleRf(n) == bus = "rf" /\ HandleFrame(n, RfDests(n, known \cup {n}))

\* sim/coord/<n>/tx: decode_batch, a message that names its destination.  No
\* topology is asked, and the destination may be the sender.
HandleBatch(n) ==
    /\ frames[n] # <<>> /\ bus = "coord"
    /\ frames' = [frames EXCEPT ![n] = Tail(@)]
    /\ \E t \in RelayNodes :
          LET m == RelayMessage(n, Head(frames[n]), t, 0)
          IN  Dispatch(n, <<m>>) /\ routed' = routed \cup {m}
    /\ UNCHANGED <<bus, mode, nodevars, done_topic, start_topic, known, topo, pos, tgpos, moves,
                   current, quanta, cut>>

\* Vec::extend_from_slice, one sequence after the other.
Concatenated(ss) ==
    LET upTo[k \in 1 .. Len(ss)] == IF k = 1 THEN ss[1] ELSE upTo[k - 1] \o ss[k]
    IN  IF ss = <<>> THEN <<>> ELSE upTo[Len(ss)]

\* QuantumBarrier::submit_done: the messages of the node join those of the
\* quantum, and complete quanta are released from the current one on.
Complete(done) == Cardinality(done) = Cardinality(RelayNodes)
Join(q, msgs) == quanta[q].msgs \o msgs
submit_done(n, q, msgs) ==
    LET admitted == Truncate(Sort(msgs), max_messages_per_node)
        after    == [quanta EXCEPT ![q] = [done |-> @.done \cup {n}, msgs |-> Join(q, admitted)]]
        complete == {r \in current .. LastQuantum :
                        \A p \in current .. r : Complete(after[p].done)}
        batch    == Concatenated([i \in 1 .. Cardinality(complete) |-> Sort(after[current + i - 1].msgs)])
    IN  /\ cut' = cut \cup (Elements(msgs) \ Elements(admitted))
        /\ quanta' = [r \in DOMAIN quanta |->
                         IF r \in complete THEN [done |-> {}, msgs |-> <<>>] ELSE after[r]]
        /\ current' = current + Cardinality(complete)
        /\ published' = published \o batch

\* START, with the number of the quantum, to all nodes.
StartAll == [n \in RelayNodes |-> current']
HandleDone(d) ==
    /\ d \in done_topic
    /\ done_topic' = done_topic \ {d}
    /\ batches' = [batches EXCEPT ![d.node] = <<>>]
    /\ IF d.quantum < current \/ d.node \in quanta[d.quantum].done
       THEN UNCHANGED <<quanta, current, published, cut>>
       ELSE submit_done(d.node, d.quantum, batches[d.node])
    /\ start_topic' = IF current' > current THEN StartAll ELSE start_topic
    /\ UNCHANGED <<bus, mode, nodevars, frames, known, topo, pos, tgpos, moves, routed>>

\* sim/network/control and sim/telemetry/position.
HandleControl(p, l) ==
    /\ moves < MaxMoves /\ moves' = moves + 1
    /\ topo' = [topo EXCEPT ![p] = l]
    /\ UNCHANGED <<bus, mode, nodevars, topics, known, pos, tgpos, batches, current, quanta, published,
                   routed, cut>>
HandlePosition(n, place) ==
    /\ moves < MaxMoves /\ moves' = moves + 1
    /\ pos' = [pos EXCEPT ![n] = place] /\ tgpos' = [tgpos EXCEPT ![n] = place]
    /\ UNCHANGED <<bus, mode, nodevars, topics, known, topo, batches, current, quanta, published,
                   routed, cut>>

ZNext ==
    \/ \E n \in RelayNodes :
          \/ SendFrame(n) \/ SendDone(n) \/ GetStart(n)
          \/ HandleEth(n) \/ HandleUart(n) \/ HandleLin(n) \/ HandleSysc(n) \/ HandleRf(n) \/ HandleBatch(n)
    \/ \E d \in done_topic : HandleDone(d)
    \/ \E u \in LinkUpdates : HandleControl(u[1], u[2])
    \/ \E n \in RelayNodes, place \in Places : HandlePosition(n, place)

ZSpec == ZInit /\ [][ZNext]_zvars

-----------------------------------------------------------------------------
\* Where messages are kept.
Stores == {<<"batch", n>> : n \in RelayNodes} \cup {<<"barrier", q>> : q \in 1 .. LastQuantum}
              \cup {<<"rx", 0>>}
Stored(p) ==
    CASE p[1] = "batch"   -> batches[p[2]]
      [] p[1] = "barrier" -> quanta[p[2]].msgs
      [] p[1] = "rx"      -> published

\* Every message that was routed is in exactly one place, once: in the batch of
\* its sender, in the barrier or on an rx topic, or max_messages cut it off.  A
\* frame that is handled after the DONE of its quantum waits in the batch for
\* the next one; the barrier drops no batch of a node that waits for START.
RelayConserves ==
    /\ (UNION {Elements(Stored(p)) : p \in Stores}) \cup cut = routed
    /\ \A p \in Stores : Elements(Stored(p)) \cap cut = {}
    /\ \A p, r \in Stores : \A i \in DOMAIN Stored(p), j \in DOMAIN Stored(r) :
          Stored(p)[i] = Stored(r)[j] => p = r /\ i = j

\* Node n has finished quantum q.
Finished(n, q) == node_quantum[n] > q \/ (node_quantum[n] = q /\ waiting[n])

\* With --pdes nothing that was sent in a quantum is on an rx topic before every
\* node has finished that quantum, however frames, DONEs and the STARTs of the
\* quantum before overtake each other: no node can hear a peer ahead of it.
RelayNeverEarly ==
    mode.pdes =>
        \A i \in DOMAIN published : \A n \in RelayNodes :
            Finished(n, sent_frames[published[i].src][published[i].body])

\* The barrier implements the abstract one with a slack of one: START of a
\* quantum is sent when the slowest node has finished the one before.
RelayRounds == INSTANCE RoundBarrier WITH
    Node <- RelayNodes,
    Slack <- 1,
    finished <- [n \in RelayNodes |-> Cardinality({q \in 1 .. LastQuantum : q < current \/ n \in quanta[q].done})],
    opened <- current - 1
RelayRefinesRounds == RelayRounds!Spec

\* Nobody waits for ever: when all nodes wait for START and no DONE is on its way,
\* a START is.
RelayNeverWedged ==
    (\A n \in RelayNodes : waiting[n]) /\ done_topic = {} =>
        \E n \in RelayNodes : start_topic[n] = node_quantum[n] + 1
=============================================================================
