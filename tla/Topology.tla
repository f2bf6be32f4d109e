------------------------------ MODULE Topology ------------------------------
(***************************************************************************)
(* Who hears a message: the topology graph of the deterministic            *)
(* coordinator and the routing decision of deliver_message                 *)
(* (tools/deterministic_coordinator/src/{topology,main}.rs).               *)
(*                                                                         *)
(* Positions never change while the coordinator runs, so the test on the   *)
(* distance of two nodes is a constant relation.                           *)
(***************************************************************************)
EXTENDS Naturals, FiniteSets

CONSTANTS
    Broadcast,  \* u32::MAX as a destination
    Links,      \* wire_links: a set of records with an id, a protocol and nodes
    InRange,    \* the pairs of distinct nodes within max_wireless_range_m
    Radio,      \* the protocols for which is_wireless holds
    Protocol    \* Protocol[b]: the protocol of a message with body b

VARIABLES
    is_explicit,  \* a topology was loaded from the world file
    drop_list     \* ordered pairs of nodes whose link is down

topology == <<is_explicit, drop_list>>

rf_neighbors(n) == {t \in {p[2] : p \in InRange} : <<n, t>> \in InRange}

\* The wire links of the protocol that join the two nodes.
Joining(a, b, protocol) ==
    {l \in Links : l.protocol = protocol /\ {a, b} \subseteq l.nodes}

-----------------------------------------------------------------------------
(* TopologyGraph::from_yaml.  A name in the world file is an Integer, a    *)
(* string of Digits that parses as a u32, or another String.  An Option is *)
(* a set with at most one element.                                         *)

\* An integer is cut to 32 bits, and u32::MAX stands for no number.
node_id_to_u32(name) ==
    IF name.kind = "String" THEN Broadcast ELSE name.value % (Broadcast + 1)

Numbered(names) == {node_id_to_u32(n) : n \in names} \ {Broadcast}

TopologyNodes(world) == UNION {t.nodes : t \in world.topology}

\* SplitBrainError: nodes are listed in the old place and in the new one.
SplitBrain(world) ==
    TopologyNodes(world) # {} /\ \E p \in world.peripherals : p.kind # "String"

\* The nodes in the new place or, when there are none, in the old one if it
\* lists nothing but nodes.
valid_nodes(world) ==
    LET listed == Numbered(TopologyNodes(world))
        fallback == {node_id_to_u32(p) : p \in world.peripherals}
    IN  IF listed # {} THEN listed
        ELSE IF Broadcast \in fallback THEN {} ELSE fallback

\* UnknownNode: a name of a link has to be a valid node.  On the medium a name
\* that is no number is passed over.
UnknownNode(world) ==
    \E t \in world.topology :
        \/ \E l \in t.links : \E n \in l.nodes : node_id_to_u32(n) \notin valid_nodes(world)
        \/ ~(Numbered(t.wireless) \subseteq valid_nodes(world))

\* What is loaded; main exits unless it is ok.  A world without a topology
\* gives the default graph.
from_yaml(world) ==
    [ok |-> ~SplitBrain(world) /\ ~UnknownNode(world),
     is_explicit |-> world.topology # {},
     wire_links |->
        UNION {{[id |-> l.id, protocol |-> l.protocol,
                 nodes |-> {node_id_to_u32(n) : n \in l.nodes}] : l \in t.links} :
                  t \in world.topology},
     positions |-> UNION {Numbered(t.wireless) : t \in world.topology}]

-----------------------------------------------------------------------------
\* Plausible slips, used to test the properties.

\* The links that are not dropped are allowed.
is_link_allowed_unless_dropped(src, dst, protocol) ==
    <<src, dst>> \notin drop_list /\ <<dst, src>> \notin drop_list

\* The drop list is read in one direction only.
is_link_allowed_one_way(src, dst, protocol) ==
    /\ <<src, dst>> \notin drop_list
    /\ \/ ~is_explicit
       \/ IF protocol \in Radio THEN dst \in rf_neighbors(src)
                                ELSE Joining(src, dst, protocol) # {}

-----------------------------------------------------------------------------
is_link_allowed(src, dst, protocol) ==
    /\ <<src, dst>> \notin drop_list
    /\ <<dst, src>> \notin drop_list
    /\ \/ ~is_explicit
       \/ IF protocol \in Radio THEN dst \in rf_neighbors(src)
                                ELSE Joining(src, dst, protocol) # {}

\* How many times deliver_message puts node t into the target list of m.  A
\* broadcast under an explicit topology asks the medium alone, and a wired one
\* takes a copy for every link that joins the two nodes.
Copies(m, t, seen_nodes) ==
    LET protocol == Protocol[m.body]
        once(b) == IF b THEN 1 ELSE 0
        allowed == is_link_allowed(m.src, t, protocol)
    IN  IF m.dst # Broadcast
        THEN once(t = m.dst /\ allowed)
        ELSE IF ~is_explicit
        THEN once(t \in seen_nodes \ {m.src} /\ allowed)
        ELSE IF protocol \in Radio
        THEN once(t \in rf_neighbors(m.src))
        ELSE Cardinality(Joining(m.src, t, protocol)) * once(t # m.src)

\* TopologyGraph::update_from_json: a drop_probability of at least 0.99 takes
\* the link down, one of at most 0.01 restores both directions, and anything
\* between changes nothing.
DropLink(from, to) ==
    /\ drop_list' = drop_list \cup {<<from, to>>}
    /\ UNCHANGED is_explicit

RestoreLink(from, to) ==
    /\ drop_list' = drop_list \ {<<from, to>>, <<to, from>>}
    /\ UNCHANGED is_explicit
=============================================================================
